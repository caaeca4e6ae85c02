--------------------------- MODULE MCLoaderPaging ---------------------------
(* Tables of four entries: pages of 4 kB, 2 MB and 1 GB are 1, 4 and 16    *)
(* pages, an entry of the first table maps 64, the upper half begins at    *)
(* 128 and the kernel is linked behind 192.                                *)
EXTENDS LoaderPaging

D(type, start, pages, attr) == [type |-> type, start |-> start, pages |-> pages, attr |-> attr]
S(virt, phys, pages, w) == [virt |-> virt, phys |-> phys, pages |-> pages, w |-> w]
Fb(start, pages) == [start |-> start, pages |-> pages]
NoFb == Fb(0, 0)

(* Memory that ends at these pages, the kinds of it in turn                *)
Kinds == << << "Conventional", {"WB"} >>, << "RuntimeServicesCode", {"WB"} >>,
            << "Conventional", {"WB", "WC"} >>, << "ReservedMemoryType", {"WT"} >> >>

Layout(ends) ==
  [j \in DOMAIN ends |->
     LET beg == IF j = 1 THEN 0 ELSE ends[j - 1]
     IN  D(Kinds[((j - 1) % 4) + 1][1], beg, ends[j] - beg, Kinds[((j - 1) % 4) + 1][2])]

Ends == {<< x, y, z >> : x \in {1, 4, 5, 16}, y \in {17, 20, 23, 32}, z \in {36, 41, 48, 64}}

(* Memory in one part per entry of Ends, or without the middle one         *)
Layouts ==
  {Layout(e) : e \in Ends} \cup {<< Layout(e)[1], Layout(e)[3] >> : e \in Ends}

(* The kernel, with pages of all sizes that fit, next to each other        *)
Kernels ==
  { << S(193, 5, 2, FALSE), S(195, 7, 3, TRUE) >>,
    << S(196, 4, 9, FALSE), S(207, 15, 18, TRUE) >>,
    << S(208, 16, 20, TRUE) >> }

(* Memory that is cached in the ways only IA32_PAT gives, or not at all    *)
Uncommon ==
  << D("Conventional", 0, 4, {"WB"}), D("ReservedMemoryType", 4, 7, {"WP"}),
     D("MemoryMappedIO", 11, 5, {"UC", "WC"}), D("MemoryMappedIO", 16, 2, {"UC"}) >>

Framebuffers == {NoFb, Fb(48, 5), Fb(22, 3)}

Machine(memory, fb, kernel, modern) ==
  [memory |-> memory, fb |-> fb, needs_fb |-> FALSE, kernel |-> kernel,
   cpuid |-> IF modern THEN {"1gbpages", "pat"} ELSE {}]

MCMachines ==
  {Machine(l, f, << S(193, 5, 2, FALSE) >>, h) : l \in Layouts, f \in Framebuffers, h \in BOOLEAN}
  \cup {Machine(Layout(<< 4, 17, 48 >>), NoFb, kn, h) : kn \in Kernels, h \in BOOLEAN}
  \cup {Machine(Uncommon, f, << >>, h) : f \in {NoFb, Fb(30, 4)}, h \in BOOLEAN}
  \cup {[Machine(Layout(<< 4, 17, 48 >>), NoFb, << >>, TRUE) EXCEPT !.needs_fb = TRUE]}

=============================================================================
