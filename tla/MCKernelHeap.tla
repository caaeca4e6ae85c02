---------------------------- MODULE MCKernelHeap ----------------------------
(* Tables of two entries, so sixteen virtual pages, and a heap of five     *)
(* bytes on three pages of two bytes.  Physical pages that are not managed *)
(* belong to the kernel's image and the framebuffer.                       *)
EXTENDS KernelHeap

(* Amounts of memory: from none to what boot needs, and from there to      *)
(* what the heap needs until blocks leak                                   *)
Amount(n) == {p \in 2 .. 22 : p % 8 \notin {1, 4, 5} /\ p <= n}
MCManagedSets == {Amount(n) : n \in {3, 8, 14, 18, 22}}
MCManagedPlenty == {2 .. 14}
MCFreedAddrs == 8 .. 14
=============================================================================
