---------------------------- MODULE MCLoaderMap ----------------------------
(* Memory of up to ten pages, in the order a firmware may list it: sorted *)
(* or not, with neighbours it has merged or has not.  The kernel's pages   *)
(* are memory of the loader, in one descriptor or inside a larger one.     *)
EXTENDS LoaderMap

D(type, start, pages, attr) == [type |-> type, start |-> start, pages |-> pages, attr |-> attr]
R(start, pages) == [start |-> start, pages |-> pages]
None == R(0, 0)

Machine(memory, kernel, framebuffer, ramdisk) ==
  [memory |-> memory, kernel |-> kernel, fb |-> framebuffer, ramdisk |-> ramdisk,
   needs_fb |-> FALSE, la57 |-> FALSE]

WB == {"WB"}
Rt == {"WB", "RUNTIME"}

(* The kernel is one of the loader's pages, before or after others.        *)
Small ==
  << D("BootServicesData", 0, 1, WB), D("LoaderCode", 1, 2, WB), D("Conventional", 3, 4, WB) >>
Holes ==
  << D("Conventional", 5, 3, WB), D("RuntimeServicesData", 8, 1, Rt), D("LoaderCode", 2, 2, WB),
     D("ReservedMemoryType", 0, 1, {}), D("MemoryMappedIO", 1, 1, {}) >>
Split ==
  << D("LoaderCode", 0, 4, WB), D("Conventional", 4, 3, {"WB", "WC"}), D("LoaderData", 7, 1, WB),
     D("LoaderData", 8, 1, WB), D("ACPIReclaimMemory", 9, 1, WB) >>
Video ==
  << D("LoaderCode", 5, 1, WB), D("MemoryMappedIO", 0, 2, {"WC"}), D("Conventional", 2, 3, WB),
     D("UnusableMemory", 6, 1, {}) >>

MCMachines ==
  { Machine(Small, R(1, 2), None, None),
    Machine(Small, R(2, 1), R(8, 2), None),
    Machine(Holes, R(2, 2), R(4, 1), None),
    Machine(Holes, R(3, 1), None, R(5, 1)),
    Machine(Split, R(1, 2), R(10, 1), None),
    Machine(Video, R(5, 1), R(1, 1), None),
    [Machine(Small, R(1, 1), None, None) EXCEPT !.needs_fb = TRUE],
    [Machine(Small, R(1, 1), None, None) EXCEPT !.la57 = TRUE] }

=============================================================================
