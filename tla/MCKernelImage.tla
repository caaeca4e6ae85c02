--------------------------- MODULE MCKernelImage ---------------------------
(* Pages of two units, large pages of two pages; two pages are read at     *)
(* first.  The kernels are linked as the repository's own is, with the     *)
(* header in the first segment and the bss last; as one large segment; as  *)
(* two that were moved by different amounts, with a bss between them; with *)
(* program headers behind the first pages; and wrong in each way that is   *)
(* looked for.                                                             *)
EXTENDS KernelImage

Seg(offset, vaddr, paddr, filesz, memsz, align) ==
  [type |-> "LOAD", offset |-> offset, vaddr |-> vaddr, paddr |-> paddr, filesz |-> filesz,
   memsz |-> memsz, align |-> align, flags |-> {"R"}]
Hdr(type, vaddr) == [Seg(0, vaddr, vaddr, 0, 0, 2) EXCEPT !.type = type]

Elf(size, phoff, ph, signature) ==
  [size |-> size, phoff |-> phoff, ph |-> ph, signature |-> signature, ident |-> TRUE,
   version |-> TRUE, needs_fb |-> FALSE]

Small == << Seg(2, 100, 100, 2, 2, 2), Seg(4, 102, 102, 1, 1, 2), Seg(6, 104, 104, 1, 5, 2) >>
Linked == Elf(8, 0, Small, {2})
Large == Elf(7, 0, << Seg(3, 104, 104, 4, 7, 4), Hdr("TSBP", 106) >>, {5})
Between == Elf(10, 0, << Seg(3, 100, 20, 1, 3, 2), Seg(6, 104, 40, 2, 3, 2), Hdr("OTHER", 0) >>, {6})
Late == Elf(9, 6, << Hdr("OTHER", 0), Seg(1, 100, 100, 3, 4, 2), Seg(5, 104, 104, 0, 2, 2) >>, {1})
Reversed == Elf(9, 0, << Seg(6, 106, 106, 2, 2, 2), Seg(2, 100, 99, 2, 3, 2) >>, {2})
Truncated == Elf(5, 0, Small, {2})

MCKernels ==
  { Linked, Large, Between, Late, Reversed, Truncated,
    [Linked EXCEPT !.ident = FALSE], [Linked EXCEPT !.version = FALSE],
    [Linked EXCEPT !.needs_fb = TRUE], [Linked EXCEPT !.signature = {}],
    [Linked EXCEPT !.phoff = 8], [Large EXCEPT !.ph[2].vaddr = 112],
    [Linked EXCEPT !.ph[2].align = 4], [Linked EXCEPT !.ph[1].align = 6],
    [Linked EXCEPT !.ph[3].memsz = 90], [Linked EXCEPT !.ph[2].vaddr = 103],
    [Linked EXCEPT !.ph[1].vaddr = 98], [Late EXCEPT !.ph = << Hdr("OTHER", 0) >>] }

Graphics(format, red, green, blue, reserved) ==
  [format |-> format, red |-> red, green |-> green, blue |-> blue, reserved |-> reserved,
   base |-> 50, line |-> 6, size |-> 49]

NoMasks == Graphics("BltOnly", {}, {}, {}, {})

Console(devices, graphics) ==
  [image_path |-> << "disk", "file" >>, devices |-> devices, graphics |-> graphics]

(* The formats of pixels with 32 bits, 15 bits and a mask with a gap, and  *)
(* without reserved bits                                                   *)
MCConsoles ==
  { Console(<< >>, Graphics("BitMask", 10 .. 14, 5 .. 9, 0 .. 4, {15})),
    Console(<< "serial", "end_instance", "screen", "end" >>, Graphics("RGB", {}, {}, {}, {})),
    Console(<< "screen", "end" >>, Graphics("BitMask", 0 .. 7, {8, 9, 11}, 16 .. 23, 24 .. 31)),
    Console(<< "screen", "end" >>, Graphics("BitMask", 11 .. 15, 5 .. 10, 0 .. 4, {})),
    Console(<< "screen", "end" >>, [Graphics("BGR", {}, {}, {}, {}) EXCEPT !.line = 20000]),
    Console(<< "disk", "serial", "end" >>, NoMasks) }

=============================================================================
