----------------------------- MODULE MCPhysMem -----------------------------
(* A small instance of PhysMem: pages of two bytes, at most seven pages.   *)
EXTENDS PhysMem

Entry(b, l, t) == [base |-> b, length |-> l, type |-> t]

(* Every pair of disjoint entries, in either order, aligned or not ...     *)
MCPairs ==
  {m \in [1 .. 2 -> [base : {0, 1, 4, 5}, length : {0, 3, 4, 7}, type : {0, 1}]] :
     EntriesDisjoint(m)}

(* ... and maps that need sorting, that merge across several entries, and  *)
(* that have more usable entries than the table has slots.                 *)
MCLonger ==
  { << >>,
    <<Entry(10, 4, 0), Entry(2, 4, 0), Entry(6, 4, 0)>>,
    <<Entry(8, 2, 0), Entry(12, 2, 0), Entry(0, 4, 0)>>,
    <<Entry(9, 5, 0), Entry(5, 2, 1), Entry(0, 5, 0)>>,
    <<Entry(12, 2, 0), Entry(10, 2, 1), Entry(6, 4, 0), Entry(2, 4, 0)>>,
    <<Entry(2, 2, 0), Entry(12, 2, 0), Entry(6, 4, 0)>> }

MCMemMaps == MCPairs \cup MCLonger
MCFreeArgs == 0 .. 14
=============================================================================
