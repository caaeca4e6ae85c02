-------------------------- MODULE KernelHeapProofs --------------------------
(***************************************************************************)
(* Proofs about the kernel's page tables and its heap, for every size of   *)
(* page and table, every memory, kernel and framebuffer, every heap and    *)
(* every order of calls.                                                   *)
(*                                                                         *)
(* First the page tables alone: a tree of tables that get_table(),         *)
(* map_page() and map_2mb_page() extend, and what they do to translations. *)
(* Then the heap's two tables of address space: HeapInv.  Then the memory  *)
(* behind the heap: MapInv, which joins the two.  Last what the loops of   *)
(* init_paging() have mapped: BootInv.                                     *)
(***************************************************************************)
EXTENDS KernelHeap, SequenceTheorems, FiniteSetTheorems, WellFoundedInduction, TLAPS

-----------------------------------------------------------------------------
(* A set of numbers that is not empty has a least number: a counterexample *)
(* to a claim about numbers may be taken least.                            *)
LEMMA Least ==
  ASSUME NEW T, T \subseteq Nat, T # {}
  PROVE  \E x \in T : \A y \in T : x <= y
  <1> DEFINE R == {pair \in Nat \X Nat : pair[1] < pair[2]}
  <1>1. IsWellFoundedOn(R, Nat)
    BY NatLessThanWellFounded, Zenon DEF OpToRel
  <1>2. \A x, y \in Nat : <<y, x>> \notin R => x <= y
    OBVIOUS
  <1> HIDE DEF R
  <1>3. PICK x \in T : \A y \in T : <<y, x>> \notin R
    BY <1>1, WFMin, Zenon
  <1>4. \A y \in T : x <= y
    BY <1>2, <1>3
  <1> QED BY <1>4

(* The values of a loop's variable before each round exist, so that the    *)
(* recursive function that names them is what its equation says.           *)
Rounds(g, n, S, base, step) ==
  /\ g \in [0 .. n -> S]
  /\ g[0] = base /\ \A k \in 1 .. n : g[k] = step[<<g[k - 1], k>>]

LEMMA LoopHasValues ==
  ASSUME NEW S, NEW base \in S, NEW n \in Nat, NEW step \in [S \X (1 .. n) -> S]
  PROVE  \E g : Rounds(g, n, S, base, step)
  <1> DEFINE Values(j, g) == Rounds(g, j, S, base, step)
             Short == {j \in 0 .. n : ~\E g : Values(j, g)}
  <1>1. SUFFICES ASSUME Short # {}
                 PROVE  FALSE
    <2>1. n \notin Short => \E g : Values(n, g)
      OBVIOUS
    <2> QED BY <1>1, <2>1
  <1>2. PICK j \in Short : \A i \in Short : j <= i
    <2>1. Short \subseteq Nat
      OBVIOUS
    <2> HIDE DEF Short
    <2> QED BY <1>1, <2>1, Least
  <1>3. j # 0
    <2>1. Values(0, [k \in 0 .. 0 |-> base])
      BY DEF Rounds
    <2> HIDE DEF Values
    <2> QED BY <2>1
  <1>4. PICK g : Values(j - 1, g)
    <2>1. j - 1 \in 0 .. n /\ j - 1 \notin Short
      BY <1>2, <1>3
    <2> HIDE DEF Values
    <2> QED BY <2>1
  <1> DEFINE h == [k \in 0 .. j |-> IF k = j THEN step[<<g[j - 1], j>>] ELSE g[k]]
  <1>5. step[<<g[j - 1], j>>] \in S
    <2>1. g[j - 1] \in S /\ j \in 1 .. n
      BY <1>3, <1>4 DEF Rounds
    <2> QED BY <2>1
  <1>6. Values(j, h)
    <2>1. h \in [0 .. j -> S]
      BY <1>4, <1>5 DEF Rounds
    <2>2. h[0] = base
      BY <1>3, <1>4 DEF Rounds
    <2>3. ASSUME NEW k \in 1 .. j
          PROVE  h[k] = step[<<h[k - 1], k>>]
      <3>1. k - 1 \in 0 .. j /\ k - 1 # j /\ h[k - 1] = g[k - 1]
        BY <1>3
      <3>2. CASE k = j
        <4>1. h[k] = step[<<g[k - 1], k>>]
          BY <1>3, <3>2
        <4> QED BY <3>1, <4>1
      <3>3. CASE k # j
        <4>1. k \in 1 .. (j - 1) /\ h[k] = g[k]
          BY <1>3, <3>3
        <4>2. g[k] = step[<<g[k - 1], k>>]
          BY <1>4, <4>1 DEF Rounds
        <4> QED BY <3>1, <4>1, <4>2
      <3> QED BY <3>2, <3>3
    <2> HIDE DEF h
    <2> QED BY <2>1, <2>2, <2>3 DEF Rounds
  <1> HIDE DEF Values, h
  <1> QED BY <1>2, <1>6

(* ... and what each round passes on to the next one holds of them all.    *)
LEMMA LoopKeeps ==
  ASSUME NEW n \in Nat, NEW g, NEW S, g[0] \in S[0],
         \A k \in 1 .. n : g[k - 1] \in S[k - 1] => g[k] \in S[k]
  PROVE  \A k \in 0 .. n : g[k] \in S[k]
  <1> DEFINE Bad == {k \in 0 .. n : g[k] \notin S[k]}
  <1>1. ASSUME Bad # {}
        PROVE  FALSE
    <2>1. Bad \subseteq Nat
      OBVIOUS
    <2>2. PICK j \in Bad : \A i \in Bad : j <= i
      <3> HIDE DEF Bad
      <3> QED BY <1>1, <2>1, Least
    <2>3. j \in 0 .. n /\ g[j] \notin S[j] /\ j # 0
      OBVIOUS
    <2>4. j - 1 \in 0 .. n /\ j - 1 \notin Bad /\ j \in 1 .. n
      BY <2>2, <2>3
    <2> QED BY <2>3, <2>4
  <1> QED BY <1>1

-----------------------------------------------------------------------------
(* The page tables: addresses                                              *)

LEMMA QuotientAndRest ==
  ASSUME NEW a \in Nat, NEW d \in Nat \ {0}
  PROVE  /\ a \div d \in Nat /\ a % d \in Nat /\ a % d < d
         /\ a = d * (a \div d) + (a % d)
         /\ \E q \in Nat, r \in Nat : q = a \div d /\ r = a % d /\ r < d /\ a = d * q + r
  <1>1. /\ a \div d \in Nat /\ a % d \in Nat /\ a % d < d
        /\ a = d * (a \div d) + (a % d)
    OBVIOUS
  <1> QED BY <1>1, Zenon

LEMMA QuotientIsUnique ==
  ASSUME NEW a \in Nat, NEW d \in Nat \ {0}, NEW q \in Nat, NEW r \in Nat,
         r < d, a = d * q + r
  PROVE  a \div d = q /\ a % d = r
  <1>1. PICK p \in Nat, s \in Nat : p = a \div d /\ s = a % d /\ s < d /\ a = d * p + s
    BY QuotientAndRest
  <1>2. ASSUME NEW x \in Nat, NEW y \in Nat, NEW u \in Nat, NEW v \in Nat,
               d * x + u = d * y + v, v < d, x > y
        PROVE  FALSE
    <2>1. d * x >= d * (y + 1)
      BY <1>2
    <2>2. d * (y + 1) = d * y + d
      OBVIOUS
    <2> QED BY <1>2, <2>1, <2>2
  <1>3. ~(p > q) /\ ~(q > p)
    BY <1>1, <1>2
  <1>4. p = q
    BY <1>3
  <1> QED BY <1>1, <1>4

(* Dividing twice is dividing by the product; a rest by a product is a     *)
(* rest by one factor and a rest of the quotient by the other.             *)
LEMMA DivideTwice ==
  ASSUME NEW a \in Nat, NEW b \in Nat \ {0}, NEW c \in Nat \ {0}
  PROVE  /\ a \div (b * c) = (a \div b) \div c
         /\ a % (b * c) = b * ((a \div b) % c) + (a % b)
  <1>1. PICK q \in Nat, r \in Nat : q = a \div b /\ r = a % b /\ r < b /\ a = b * q + r
    BY QuotientAndRest
  <1>2. PICK s \in Nat, t \in Nat : s = q \div c /\ t = q % c /\ t < c /\ q = c * s + t
    BY QuotientAndRest
  <1>3. PICK d \in Nat \ {0} : d = b * c
    OBVIOUS
  <1>4. a = d * s + (b * t + r)
    <2>1. b * q = b * (c * s) + b * t
      BY <1>2
    <2>2. b * (c * s) = (b * c) * s
      OBVIOUS
    <2> QED BY <1>1, <1>3, <2>1, <2>2
  <1>5. b * t + r < d
    <2>1. b * (t + 1) <= b * c
      BY <1>2
    <2>2. b * (t + 1) = b * t + b
      OBVIOUS
    <2> QED BY <1>1, <1>3, <2>1, <2>2
  <1>6. b * t + r \in Nat
    BY <1>1, <1>2
  <1>7. a \div d = s /\ a % d = b * t + r
    BY <1>4, <1>5, <1>6, QuotientIsUnique
  <1> QED BY <1>1, <1>2, <1>3, <1>7

Idx == 0 .. (ENTRIES - 1)

(* The indices of an address are the digits of its page's number.          *)
LEMMA IndexIsDigit ==
  ASSUME NEW virt \in Nat, NEW p, p = virt \div PAGE_SIZE
  PROVE  /\ Index(virt, 1) = p % ENTRIES
         /\ Index(virt, 2) = (p \div ENTRIES) % ENTRIES
         /\ Index(virt, 3) = ((p \div ENTRIES) \div ENTRIES) % ENTRIES
         /\ Index(virt, 4) = (((p \div ENTRIES) \div ENTRIES) \div ENTRIES) % ENTRIES
  <1>1. PAGE_SIZE \in Nat \ {0} /\ ENTRIES \in Nat \ {0}
    BY PagingSizesAssumption
  <1>2. PICK m2 \in Nat \ {0}, m3 \in Nat \ {0}, m4 \in Nat \ {0} :
          m2 = PAGE_SIZE * ENTRIES /\ m3 = m2 * ENTRIES /\ m4 = m3 * ENTRIES
    BY <1>1
  <1>3. /\ Span[1] = PAGE_SIZE /\ Span[2] = m2 /\ Span[3] = m3 /\ Span[4] = m4
    BY <1>2 DEF Span, PAGE_2M
  <1>4. ASSUME NEW b \in Nat \ {0}
        PROVE  virt \div (b * ENTRIES) = (virt \div b) \div ENTRIES
    BY <1>1, DivideTwice
  <1>5. virt \div m2 = p \div ENTRIES
    BY <1>1, <1>2, <1>4
  <1>6. virt \div m3 = (p \div ENTRIES) \div ENTRIES
    BY <1>2, <1>4, <1>5
  <1>7. virt \div m4 = ((p \div ENTRIES) \div ENTRIES) \div ENTRIES
    BY <1>2, <1>4, <1>6
  <1> QED BY <1>3, <1>5, <1>6, <1>7 DEF Index

LEMMA IndexFits ==
  ASSUME NEW virt \in Nat
  PROVE  \A level \in 1 .. 4 : Index(virt, level) \in Idx
  <1>1. PICK p \in Nat : p = virt \div PAGE_SIZE
    BY PagingSizesAssumption, QuotientAndRest
  <1>2. PICK p2 \in Nat, p3 \in Nat, p4 \in Nat :
          p2 = p \div ENTRIES /\ p3 = p2 \div ENTRIES /\ p4 = p3 \div ENTRIES
    BY PagingSizesAssumption, QuotientAndRest
  <1>3. p % ENTRIES \in Idx /\ p2 % ENTRIES \in Idx /\ p3 % ENTRIES \in Idx /\ p4 % ENTRIES \in Idx
    BY PagingSizesAssumption, QuotientAndRest DEF Idx
  <1> QED BY <1>1, <1>2, <1>3, IndexIsDigit

(* What the indices make up: the number of the page, or without the last   *)
(* one that of the large page.                                             *)
LEMMA IndicesMakePage ==
  ASSUME NEW virt \in Nat
  PROVE  /\ VirtPage(virt) \div ENTRIES
              = ENTRIES * (ENTRIES * Index(virt, 4) + Index(virt, 3)) + Index(virt, 2)
         /\ VirtPage(virt) % ENTRIES = Index(virt, 1)
         /\ VirtPage(virt) \in VIRT_PAGES
  <1>1. PAGE_SIZE \in Nat \ {0} /\ ENTRIES \in Nat \ {0}
    BY PagingSizesAssumption
  <1>2. PICK p \in Nat : p = virt \div PAGE_SIZE
    BY <1>1, QuotientAndRest
  <1>3. PICK p2 \in Nat, p3 \in Nat, p4 \in Nat :
          p2 = p \div ENTRIES /\ p3 = p2 \div ENTRIES /\ p4 = p3 \div ENTRIES
    BY <1>1, QuotientAndRest
  <1>4. PICK e2 \in Nat \ {0}, e3 \in Nat \ {0}, e4 \in Nat \ {0} :
          /\ e2 = ENTRIES * ENTRIES /\ e3 = ENTRIES * e2 /\ e4 = ENTRIES * e3
          /\ e4 = ENTRIES * ENTRIES * ENTRIES * ENTRIES
    BY <1>1
  <1>5. /\ p % e4 = ENTRIES * (p2 % e3) + (p % ENTRIES)
        /\ p2 % e3 = ENTRIES * (p3 % e2) + (p2 % ENTRIES)
        /\ p3 % e2 = ENTRIES * (p4 % ENTRIES) + (p3 % ENTRIES)
    <2>1. ASSUME NEW a \in Nat, NEW c \in Nat \ {0}
          PROVE  a % (ENTRIES * c) = ENTRIES * ((a \div ENTRIES) % c) + (a % ENTRIES)
      BY <1>1, DivideTwice
    <2> QED BY <1>1, <1>3, <1>4, <2>1
  <1>6. /\ Index(virt, 1) = p % ENTRIES /\ Index(virt, 2) = p2 % ENTRIES
        /\ Index(virt, 3) = p3 % ENTRIES /\ Index(virt, 4) = p4 % ENTRIES
    BY <1>2, <1>3, IndexIsDigit
  <1>7. VirtPage(virt) = p % e4
    BY <1>2, <1>4 DEF VirtPage
  <1>8. PICK q \in Nat, r \in Nat : q = p2 % e3 /\ r = p % ENTRIES /\ r < ENTRIES
    BY <1>1, <1>4, QuotientAndRest
  <1>9. PICK n \in Nat : n = p % e4 /\ n < e4
    <2>1. e4 \in Nat \ {0}
      OBVIOUS
    <2> QED BY <2>1, QuotientAndRest
  <1>10. n \div ENTRIES = q /\ n % ENTRIES = r
    <2>1. n = ENTRIES * q + r
      BY <1>5, <1>8, <1>9
    <2> QED BY <1>1, <1>8, <2>1, QuotientIsUnique
  <1>11. n \in VIRT_PAGES
    BY <1>4, <1>9 DEF VIRT_PAGES
  <1> QED BY <1>5, <1>6, <1>7, <1>8, <1>9, <1>10, <1>11

LEMMA SamePage ==
  ASSUME NEW v \in Nat, NEW w \in Nat,
         \A level \in 2 .. 4 : Index(v, level) = Index(w, level)
  PROVE  /\ VirtPage(v) \div ENTRIES = VirtPage(w) \div ENTRIES
         /\ Index(v, 1) = Index(w, 1) => VirtPage(v) = VirtPage(w)
  <1>1. VirtPage(v) \div ENTRIES = VirtPage(w) \div ENTRIES
    BY IndicesMakePage
  <1>2. /\ VirtPage(v) % ENTRIES = Index(v, 1) /\ VirtPage(w) % ENTRIES = Index(w, 1)
        /\ VirtPage(v) \in Nat /\ VirtPage(w) \in Nat
    BY IndicesMakePage DEF VIRT_PAGES
  <1>3. PICK m \in Nat, n \in Nat : m = VirtPage(v) /\ n = VirtPage(w)
    BY <1>2
  <1>4. /\ m = ENTRIES * (m \div ENTRIES) + (m % ENTRIES)
        /\ n = ENTRIES * (n \div ENTRIES) + (n % ENTRIES)
    BY PagingSizesAssumption, QuotientAndRest
  <1> QED BY <1>1, <1>2, <1>3, <1>4

LEMMA PageHasItsIndices ==
  ASSUME NEW v \in Nat, NEW w \in Nat
  PROVE  /\ VirtPage(v) \div ENTRIES = VirtPage(w) \div ENTRIES
              => \A level \in 2 .. 4 : Index(v, level) = Index(w, level)
         /\ VirtPage(v) = VirtPage(w)
              => \A level \in 1 .. 4 : Index(v, level) = Index(w, level)
  <1>1. ASSUME NEW virt \in Nat, NEW n, n = VirtPage(virt) \div ENTRIES
        PROVE  /\ Index(virt, 2) = n % ENTRIES
               /\ Index(virt, 3) = (n \div ENTRIES) % ENTRIES
               /\ Index(virt, 4) = (n \div ENTRIES) \div ENTRIES
    <2>1. ENTRIES \in Nat \ {0}
      BY PagingSizesAssumption
    <2>2. PICK i2 \in Nat, i3 \in Nat, i4 \in Nat :
            /\ i2 = Index(virt, 2) /\ i3 = Index(virt, 3) /\ i4 = Index(virt, 4)
            /\ i2 < ENTRIES /\ i3 < ENTRIES
      <3>1. Index(virt, 2) \in Idx /\ Index(virt, 3) \in Idx /\ Index(virt, 4) \in Idx
        BY IndexFits
      <3> QED BY <2>1, <3>1 DEF Idx
    <2>3. PICK q \in Nat : q = ENTRIES * i4 + i3
      BY <2>1
    <2>4. n = ENTRIES * q + i2
      BY <1>1, <2>2, <2>3, IndicesMakePage
    <2>5. n \in Nat
      BY <2>1, <2>4
    <2>6. n \div ENTRIES = q /\ n % ENTRIES = i2
      BY <2>1, <2>2, <2>4, <2>5, QuotientIsUnique
    <2>7. q \div ENTRIES = i4 /\ q % ENTRIES = i3
      BY <2>1, <2>2, <2>3, QuotientIsUnique
    <2> QED BY <2>2, <2>6, <2>7
  <1>2. VirtPage(v) = VirtPage(w) => Index(v, 1) = Index(w, 1)
    BY IndicesMakePage
  <1> QED BY <1>1, <1>2

(* A page's own address                                                    *)
LEMMA PageAddress ==
  ASSUME NEW v \in VIRT_PAGES
  PROVE  v * PAGE_SIZE \in Nat /\ VirtPage(v * PAGE_SIZE) = v
         /\ (v * PAGE_SIZE) \div PAGE_SIZE = v /\ (v * PAGE_SIZE) % PAGE_SIZE = 0
  <1>1. PAGE_SIZE \in Nat \ {0} /\ ENTRIES \in Nat \ {0} /\ v \in Nat
    BY PagingSizesAssumption DEF VIRT_PAGES
  <1>2. PICK a \in Nat : a = v * PAGE_SIZE /\ a = PAGE_SIZE * v + 0
    BY <1>1
  <1>3. a \div PAGE_SIZE = v /\ a % PAGE_SIZE = 0
    BY <1>1, <1>2, QuotientIsUnique
  <1>4. PICK n \in Nat \ {0} : n = ENTRIES * ENTRIES * ENTRIES * ENTRIES /\ v < n
    BY <1>1 DEF VIRT_PAGES
  <1>5. v = n * 0 + v
    BY <1>1, <1>4
  <1>6. v % n = v
    BY <1>1, <1>4, <1>5, QuotientIsUnique
  <1> QED BY <1>2, <1>3, <1>4, <1>6 DEF VirtPage

-----------------------------------------------------------------------------
(* Memory: free pages and page tables                                      *)

Rows == [Idx -> Entry]

TableMaps == UNION {[D -> Rows] : D \in SUBSET Nat}

MemSet == [free : SUBSET Nat, tables : TableMaps]

Names(m) == DOMAIN m.tables

LEMMA MemType ==
  ASSUME NEW m \in MemSet
  PROVE  /\ m.free \subseteq Nat /\ Names(m) \subseteq Nat
         /\ m.tables \in [Names(m) -> Rows]
         /\ \A t \in Names(m) : m.tables[t] \in Rows /\ \A i \in Idx : m.tables[t][i] \in Entry
         /\ m = [free |-> m.free, tables |-> m.tables]
  <1>1. m.free \subseteq Nat /\ m.tables \in TableMaps /\ m = [free |-> m.free, tables |-> m.tables]
    BY DEF MemSet
  <1>2. PICK D \in SUBSET Nat : m.tables \in [D -> Rows]
    BY <1>1 DEF TableMaps
  <1>3. Names(m) = D
    BY <1>2 DEF Names
  <1>4. \A t \in D : m.tables[t] \in Rows
    BY <1>2
  <1>5. ASSUME NEW row \in Rows
        PROVE  \A i \in Idx : row[i] \in Entry
    BY DEF Rows
  <1> QED BY <1>1, <1>2, <1>3, <1>4, <1>5

LEMMA IsMem ==
  ASSUME NEW F \in SUBSET Nat, NEW D \in SUBSET Nat, NEW tables \in [D -> Rows],
         NEW m, m = [free |-> F, tables |-> tables]
  PROVE  m \in MemSet /\ m.free = F /\ m.tables = tables /\ Names(m) = D
  <1>1. tables \in TableMaps
    BY DEF TableMaps
  <1> QED BY <1>1 DEF MemSet, Names

Link(page) == [present |-> TRUE, ps |-> FALSE, page |-> page]

Large(page) == [present |-> TRUE, ps |-> TRUE, page |-> page]

LEMMA EntryTypes ==
  /\ Zero \in Entry /\ ~Zero.present /\ ~Zero.ps
  /\ EmptyTable \in Rows /\ \A i \in Idx : EmptyTable[i] = Zero
  /\ \A page \in Nat : /\ Link(page) \in Entry /\ Link(page).present
                       /\ ~Link(page).ps /\ Link(page).page = page
                       /\ Large(page) \in Entry /\ Large(page).present
                       /\ Large(page).ps /\ Large(page).page = page
  <1>1. Zero \in Entry /\ ~Zero.present /\ ~Zero.ps
    BY DEF Zero, Entry
  <1>2. EmptyTable \in Rows /\ \A i \in Idx : EmptyTable[i] = Zero
    BY <1>1 DEF EmptyTable, Rows, Idx
  <1> QED BY <1>1, <1>2 DEF Entry, Link, Large

(* Writing an entry                                                        *)
LEMMA EntryIsSet ==
  ASSUME NEW m \in MemSet, NEW t, NEW i, NEW e \in Entry,
         NEW m2, m2 = SetEntry(m, t, i, e)
  PROVE  /\ m2 \in MemSet /\ m2.free = m.free /\ Names(m2) = Names(m)
         /\ \A u \in Names(m), j \in Idx :
              m2.tables[u][j] = IF u = t /\ j = i THEN e ELSE m.tables[u][j]
  <1>1. /\ m.free \subseteq Nat /\ Names(m) \subseteq Nat
        /\ m.tables \in [Names(m) -> Rows]
        /\ m = [free |-> m.free, tables |-> m.tables]
    BY MemType
  <1>2. PICK row : row = [m.tables[t] EXCEPT ![i] = e]
    OBVIOUS
  <1>3. PICK tables : tables = [m.tables EXCEPT ![t] = row]
    OBVIOUS
  <1>4. m2 = [m EXCEPT !.tables = tables]
    BY <1>2, <1>3 DEF SetEntry
  <1>5. m2 = [free |-> m.free, tables |-> tables]
    BY <1>1, <1>4
  <1>6. t \in Names(m) => row \in Rows /\ \A j \in Idx : row[j] = IF j = i THEN e ELSE m.tables[t][j]
    BY <1>1, <1>2 DEF Rows
  <1>7. /\ tables \in [Names(m) -> Rows]
        /\ \A u \in Names(m) : tables[u] = IF u = t THEN row ELSE m.tables[u]
    BY <1>1, <1>3, <1>6
  <1>8. m2 \in MemSet /\ m2.free = m.free /\ m2.tables = tables /\ Names(m2) = Names(m)
    BY <1>1, <1>5, <1>7, IsMem
  <1> QED BY <1>6, <1>7, <1>8

(* Taking a page from the free ones                                        *)
LEMMA PageIsTaken ==
  ASSUME NEW m \in MemSet, NEW page, NEW m2, m2 = Without(m, page)
  PROVE  m2 \in MemSet /\ m2.free = m.free \ {page} /\ m2.tables = m.tables
  <1>1. /\ m.free \subseteq Nat /\ Names(m) \subseteq Nat
        /\ m.tables \in [Names(m) -> Rows]
        /\ m = [free |-> m.free, tables |-> m.tables]
    BY MemType
  <1>2. m2 = [free |-> m.free \ {page}, tables |-> m.tables]
    BY <1>1 DEF Without
  <1>3. m.free \ {page} \in SUBSET Nat
    BY <1>1
  <1> QED BY <1>1, <1>2, <1>3, IsMem

(* The page that phys_page_alloc() hands out                               *)
LEMMA PageIsAllocated ==
  ASSUME NEW m \in MemSet, NEW page, page = phys_page_alloc(m)
  PROVE  page \in Nat /\ (m.free = {} => page = 0) /\ (m.free # {} => page \in m.free)
  <1>1. CASE m.free = {}
    BY <1>1 DEF phys_page_alloc
  <1>2. CASE m.free # {}
    <2>1. m.free \subseteq Nat
      BY MemType
    <2>2. \E x \in m.free : \A y \in m.free : x <= y
      BY <1>2, <2>1, Least
    <2>3. Min(m.free) \in m.free
      BY <2>2 DEF Min
    <2> QED BY <1>2, <2>1, <2>3 DEF phys_page_alloc
  <1> QED BY <1>1, <1>2

(* Making a table                                                          *)
LEMMA TableIsMade ==
  ASSUME NEW m \in MemSet, NEW page \in Nat, NEW m2, m2 = new_table(m, page)
  PROVE  /\ m2 \in MemSet /\ m2.free = m.free \ {page} /\ Names(m2) = Names(m) \cup {page}
         /\ \A t \in Names(m) : t # page => m2.tables[t] = m.tables[t]
         /\ m2.tables[page] = EmptyTable
  <1>1. PICK w : w = Without(m, page)
    OBVIOUS
  <1>2. w \in MemSet /\ w.free = m.free \ {page} /\ w.tables = m.tables
    BY <1>1, PageIsTaken
  <1>3. /\ w.free \subseteq Nat /\ Names(w) \subseteq Nat
        /\ w.tables \in [Names(w) -> Rows]
        /\ w = [free |-> w.free, tables |-> w.tables]
    BY <1>2, MemType
  <1>4. PICK tables : tables = [t \in DOMAIN w.tables \cup {page} |->
                                  IF t = page THEN EmptyTable ELSE w.tables[t]]
    OBVIOUS
  <1>5. m2 = [free |-> w.free, tables |-> tables]
    BY <1>1, <1>2, <1>3, <1>4 DEF new_table
  <1>6. tables = [t \in {page} \cup Names(w) |-> IF t = page THEN EmptyTable ELSE w.tables[t]]
    BY <1>4 DEF Names
  <1>7. {page} \cup Names(w) \in SUBSET Nat
    BY <1>3
  <1>8. /\ tables \in [{page} \cup Names(w) -> Rows]
        /\ \A t \in {page} \cup Names(w) : tables[t] = IF t = page THEN EmptyTable ELSE w.tables[t]
    BY <1>3, <1>6, EntryTypes
  <1>9. m2 \in MemSet /\ m2.free = w.free /\ m2.tables = tables /\ Names(m2) = {page} \cup Names(w)
    BY <1>3, <1>5, <1>7, <1>8, IsMem
  <1>10. Names(w) = Names(m)
    BY <1>2 DEF Names
  <1> QED BY <1>2, <1>8, <1>9, <1>10

-----------------------------------------------------------------------------
(* The tree of page tables.  A table's level says how its entries are read *)

IsLink(m, t, i) == m.tables[t][i].present /\ ~m.tables[t][i].ps

Levels(m, lv) ==
  /\ PML4 \in Names(m) /\ lv \in [Names(m) -> 1 .. 4]
  /\ \A t \in Names(m) : lv[t] = 4 <=> t = PML4
  /\ \A t \in Names(m), i \in Idx :
       lv[t] > 1 /\ IsLink(m, t, i)
         => m.tables[t][i].page \in Names(m) /\ lv[m.tables[t][i].page] = lv[t] - 1
  /\ \A t \in Names(m), i \in Idx :
       m.tables[t][i].ps => lv[t] = 2 /\ m.tables[t][i].present

Hangs(m, lv) ==
  /\ \A t, u \in Names(m), i, j \in Idx :
       /\ lv[t] > 1 /\ IsLink(m, t, i) /\ lv[u] > 1 /\ IsLink(m, u, j)
       /\ m.tables[t][i].page = m.tables[u][j].page
       => t = u /\ i = j
  /\ \A t \in Names(m) : t # PML4 =>
       \E u \in Names(m), i \in Idx : lv[u] > 1 /\ IsLink(m, u, i) /\ m.tables[u][i].page = t

Apart(m, lv) ==
  /\ Names(m) \cap m.free = {}
  /\ 0 \notin m.free
  /\ \A t \in Names(m), i \in Idx :
       lv[t] = 1 /\ m.tables[t][i].present
         => /\ m.tables[t][i].page \notin m.free
            /\ m.tables[t][i].page \in Names(m) => m.tables[t][i].page = PML4

Tree(m, lv) == m \in MemSet /\ Levels(m, lv) /\ Hangs(m, lv) /\ Apart(m, lv)

(* Entry i of table t is written, and nothing else in the tables of m.     *)
Changes(m, m2, t, i, e) ==
  \A u \in Names(m), j \in Idx :
    m2.tables[u][j] = IF u = t /\ j = i THEN e ELSE m.tables[u][j]

(* A free page has become a table, which hangs on entry i of table t.      *)
Made(m, m2, t, i, page) ==
  /\ m2 \in MemSet /\ m2.free = m.free \ {page} /\ Names(m2) = Names(m) \cup {page}
  /\ Changes(m, m2, t, i, Link(page))
  /\ \A j \in Idx : m2.tables[page][j] = Zero

LevelsWith(lv, page, n) ==
  [u \in DOMAIN lv \cup {page} |-> IF u = page THEN n ELSE lv[u]]

LEMMA TableIsHung ==
  ASSUME NEW m \in MemSet, NEW page \in Nat, page \notin Names(m),
         NEW t \in Names(m), NEW i \in Idx,
         NEW m2, m2 = SetEntry(new_table(m, page), t, i, Link(page))
  PROVE  Made(m, m2, t, i, page)
  <1>1. PICK c : c = new_table(m, page)
    OBVIOUS
  <1>2. /\ c \in MemSet /\ c.free = m.free \ {page} /\ Names(c) = Names(m) \cup {page}
        /\ \A u \in Names(m) : u # page => c.tables[u] = m.tables[u]
        /\ c.tables[page] = EmptyTable
    BY <1>1, TableIsMade
  <1>3. PICK e \in Entry : e = Link(page)
    BY EntryTypes
  <1>4. m2 = SetEntry(c, t, i, e)
    BY <1>1, <1>3
  <1>5. /\ m2 \in MemSet /\ m2.free = c.free /\ Names(m2) = Names(c)
        /\ \A u \in Names(c), j \in Idx :
             m2.tables[u][j] = IF u = t /\ j = i THEN e ELSE c.tables[u][j]
    BY <1>2, <1>4, EntryIsSet
  <1>6. Changes(m, m2, t, i, Link(page))
    BY <1>2, <1>3, <1>5 DEF Changes
  <1>7. \A j \in Idx : m2.tables[page][j] = Zero
    BY <1>2, <1>5, EntryTypes
  <1> QED BY <1>2, <1>5, <1>6, <1>7 DEF Made

LEMMA TreeGrows ==
  ASSUME NEW m, NEW lv, Tree(m, lv), NEW page \in m.free,
         NEW t \in Names(m), NEW i \in Idx, lv[t] > 1, ~m.tables[t][i].present,
         NEW m2, Made(m, m2, t, i, page),
         NEW lv2, lv2 = LevelsWith(lv, page, lv[t] - 1)
  PROVE  Tree(m2, lv2) /\ \A u \in Names(m) : lv2[u] = lv[u]
  <1>1. /\ m \in MemSet /\ m.free \subseteq Nat /\ page \notin Names(m) /\ page # PML4
        /\ page \in Nat
    BY MemType DEF Tree, Apart, PML4
  <1>2. /\ lv \in [Names(m) -> 1 .. 4] /\ PML4 \in Names(m) /\ DOMAIN lv = Names(m)
        /\ lv[t] \in 2 .. 4
    BY DEF Tree, Levels
  <1>3. /\ m2 \in MemSet /\ m2.free = m.free \ {page} /\ Names(m2) = Names(m) \cup {page}
        /\ \A u \in Names(m), j \in Idx :
             m2.tables[u][j] = IF u = t /\ j = i THEN Link(page) ELSE m.tables[u][j]
        /\ \A j \in Idx : m2.tables[page][j] = Zero
    BY DEF Made, Changes
  <1>4. /\ lv2 \in [Names(m2) -> 1 .. 4] /\ lv2[page] = lv[t] - 1 /\ lv2[page] < 4
        /\ \A u \in Names(m) : lv2[u] = lv[u]
    BY <1>1, <1>2, <1>3 DEF LevelsWith
  <1>5. /\ Link(page).present /\ ~Link(page).ps /\ Link(page).page = page
        /\ ~Zero.present /\ ~Zero.ps
    BY <1>1, EntryTypes
  <1>6. \A u \in Names(m2), j \in Idx :
          IsLink(m2, u, j) <=> u \in Names(m) /\ (IsLink(m, u, j) \/ (u = t /\ j = i))
    BY <1>1, <1>3, <1>5 DEF IsLink
  <1>7. \A u \in Names(m), j \in Idx :
          m2.tables[u][j].page = IF u = t /\ j = i THEN page ELSE m.tables[u][j].page
    BY <1>3, <1>5
  <1>8. ~IsLink(m, t, i)
    BY DEF IsLink
  <1>9. Levels(m2, lv2)
    <2>1. \A u \in Names(m2) : lv2[u] = 4 <=> u = PML4
      BY <1>1, <1>3, <1>4 DEF Tree, Levels
    <2>2. ASSUME NEW u \in Names(m2), NEW j \in Idx, lv2[u] > 1, IsLink(m2, u, j)
          PROVE  m2.tables[u][j].page \in Names(m2) /\ lv2[m2.tables[u][j].page] = lv2[u] - 1
      BY <1>3, <1>4, <1>6, <1>7, <2>2 DEF Tree, Levels
    <2>3. ASSUME NEW u \in Names(m2), NEW j \in Idx, m2.tables[u][j].ps
          PROVE  lv2[u] = 2 /\ m2.tables[u][j].present
      BY <1>3, <1>4, <1>5, <2>3 DEF Tree, Levels
    <2> QED BY <1>2, <1>3, <1>4, <2>1, <2>2, <2>3 DEF Levels
  <1>10. Hangs(m2, lv2)
    <2>1. \A u \in Names(m), j \in Idx :
            lv[u] > 1 /\ IsLink(m, u, j) => m.tables[u][j].page # page
      BY <1>1 DEF Tree, Levels
    <2>2. ASSUME NEW u \in Names(m2), NEW w \in Names(m2), NEW j \in Idx, NEW k \in Idx,
                 lv2[u] > 1, IsLink(m2, u, j), lv2[w] > 1, IsLink(m2, w, k),
                 m2.tables[u][j].page = m2.tables[w][k].page
          PROVE  u = w /\ j = k
      <3>1. u \in Names(m) /\ w \in Names(m) /\ lv[u] > 1 /\ lv[w] > 1
        BY <1>4, <1>6, <2>2
      <3>2. CASE IsLink(m, u, j) /\ IsLink(m, w, k)
        <4>1. m.tables[u][j].page = m.tables[w][k].page
          BY <1>7, <1>8, <2>2, <3>1, <3>2
        <4> QED BY <3>1, <3>2, <4>1 DEF Tree, Hangs
      <3>3. CASE IsLink(m, u, j) /\ ~IsLink(m, w, k)
        BY <1>6, <1>7, <1>8, <2>1, <2>2, <3>1, <3>3
      <3>4. CASE ~IsLink(m, u, j) /\ IsLink(m, w, k)
        BY <1>6, <1>7, <1>8, <2>1, <2>2, <3>1, <3>4
      <3>5. CASE ~IsLink(m, u, j) /\ ~IsLink(m, w, k)
        BY <1>6, <2>2, <3>5
      <3> QED BY <3>2, <3>3, <3>4, <3>5
    <2>3. ASSUME NEW u \in Names(m2), u # PML4
          PROVE  \E w \in Names(m2), j \in Idx :
                   lv2[w] > 1 /\ IsLink(m2, w, j) /\ m2.tables[w][j].page = u
      <3>1. CASE u = page
        BY <1>2, <1>3, <1>4, <1>6, <1>7, <3>1
      <3>2. CASE u \in Names(m)
        <4>1. PICK w \in Names(m), j \in Idx :
                lv[w] > 1 /\ IsLink(m, w, j) /\ m.tables[w][j].page = u
          BY <2>3, <3>2 DEF Tree, Hangs
        <4> QED BY <1>3, <1>4, <1>6, <1>7, <1>8, <4>1
      <3> QED BY <1>3, <3>1, <3>2
    <2> QED BY <2>2, <2>3 DEF Hangs
  <1>11. Apart(m2, lv2)
    <2>1. ASSUME NEW u \in Names(m2), NEW j \in Idx, lv2[u] = 1, m2.tables[u][j].present
          PROVE  /\ m2.tables[u][j].page \notin m2.free
                 /\ m2.tables[u][j].page \in Names(m2) => m2.tables[u][j].page = PML4
      <3>1. u \in Names(m) /\ ~(u = t /\ j = i) /\ lv[u] = 1
        BY <1>2, <1>3, <1>4, <1>5, <2>1
      <3>2. m2.tables[u][j] = m.tables[u][j]
        BY <1>3, <3>1
      <3> QED BY <1>3, <2>1, <3>1, <3>2 DEF Tree, Apart
    <2>2. Names(m2) \cap m2.free = {} /\ 0 \notin m2.free
      BY <1>3 DEF Tree, Apart
    <2> QED BY <2>1, <2>2 DEF Apart
  <1> QED BY <1>3, <1>4, <1>9, <1>10, <1>11 DEF Tree

-----------------------------------------------------------------------------
(* The walk of find_physaddr(): the entry it reads at each level, and      *)
(* whether it gets there                                                   *)

E4(m, v) == m.tables[PML4][Index(v, 4)]
E3(m, v) == m.tables[E4(m, v).page][Index(v, 3)]
E2(m, v) == m.tables[E3(m, v).page][Index(v, 2)]
E1(m, v) == m.tables[E2(m, v).page][Index(v, 1)]

At3(m, v) == E4(m, v).present
At2(m, v) == At3(m, v) /\ E3(m, v).present
At1(m, v) == At2(m, v) /\ E2(m, v).present /\ ~E2(m, v).ps

(* The address lies in a large page.                                       *)
InLargePage(m, v) == At2(m, v) /\ E2(m, v).present /\ E2(m, v).ps

(* Memory m2 translates address v as m does.                               *)
SameWalk(m, m2, v) ==
  /\ find_physaddr(m2, v) = find_physaddr(m, v)
  /\ InLargePage(m2, v) <=> InLargePage(m, v)

LEMMA WalkFinds ==
  ASSUME NEW m, NEW v
  PROVE  /\ ~At2(m, v) \/ ~E2(m, v).present => find_physaddr(m, v) = 0
         /\ InLargePage(m, v)
              => find_physaddr(m, v) = E2(m, v).page * PAGE_SIZE + (v % PAGE_2M)
         /\ At1(m, v) => find_physaddr(m, v) =
              IF E1(m, v).present THEN E1(m, v).page * PAGE_SIZE + (v % PAGE_SIZE) ELSE 0
  BY DEF find_physaddr, InLargePage, At1, At2, At3, E1, E2, E3, E4

LEMMA WalkLevels ==
  ASSUME NEW m, NEW lv, Tree(m, lv), NEW v \in Nat
  PROVE  /\ PML4 \in Names(m) /\ lv[PML4] = 4 /\ E4(m, v) \in Entry /\ ~E4(m, v).ps
         /\ At3(m, v) => /\ E4(m, v).page \in Names(m) /\ lv[E4(m, v).page] = 3
                         /\ E3(m, v) \in Entry /\ ~E3(m, v).ps
         /\ At2(m, v) => /\ E3(m, v).page \in Names(m) /\ lv[E3(m, v).page] = 2
                         /\ E2(m, v) \in Entry
         /\ At1(m, v) => /\ E2(m, v).page \in Names(m) /\ lv[E2(m, v).page] = 1
                         /\ E1(m, v) \in Entry /\ ~E1(m, v).ps
  <1>1. /\ Index(v, 1) \in Idx /\ Index(v, 2) \in Idx /\ Index(v, 3) \in Idx
        /\ Index(v, 4) \in Idx
    BY IndexFits
  <1>2. \A t \in Names(m), i \in Idx : m.tables[t][i] \in Entry
    BY MemType DEF Tree
  <1>3. /\ PML4 \in Names(m) /\ lv[PML4] = 4
        /\ \A t \in Names(m), i \in Idx :
             /\ m.tables[t][i].present /\ ~m.tables[t][i].ps /\ lv[t] > 1
                 => m.tables[t][i].page \in Names(m) /\ lv[m.tables[t][i].page] = lv[t] - 1
             /\ lv[t] # 2 => ~m.tables[t][i].ps
    BY DEF Tree, Levels, IsLink
  <1>4. PML4 \in Names(m) /\ lv[PML4] = 4 /\ E4(m, v) \in Entry /\ ~E4(m, v).ps
    BY <1>1, <1>2, <1>3 DEF E4
  <1>5. At3(m, v) => /\ E4(m, v).page \in Names(m) /\ lv[E4(m, v).page] = 3
                     /\ E3(m, v) \in Entry /\ ~E3(m, v).ps
    BY <1>1, <1>2, <1>3, <1>4 DEF E4, E3, At3
  <1>6. At2(m, v) => /\ E3(m, v).page \in Names(m) /\ lv[E3(m, v).page] = 2
                     /\ E2(m, v) \in Entry
    BY <1>1, <1>2, <1>3, <1>5 DEF E3, E2, At2
  <1>7. At1(m, v) => /\ E2(m, v).page \in Names(m) /\ lv[E2(m, v).page] = 1
                     /\ E1(m, v) \in Entry /\ ~E1(m, v).ps
    BY <1>1, <1>2, <1>3, <1>6 DEF E2, E1, At1
  <1> QED BY <1>4, <1>5, <1>6, <1>7

(* A walk that reads only entries that did not change finds the same.      *)
LEMMA WalkStays ==
  ASSUME NEW m, NEW lv, Tree(m, lv), NEW v \in Nat,
         NEW m2, NEW t, NEW i, NEW e, Changes(m, m2, t, i, e),
         ~(t = PML4 /\ i = Index(v, 4)),
         ~(At3(m, v) /\ t = E4(m, v).page /\ i = Index(v, 3)),
         ~(At2(m, v) /\ t = E3(m, v).page /\ i = Index(v, 2)),
         ~(At1(m, v) /\ t = E2(m, v).page /\ i = Index(v, 1))
  PROVE  SameWalk(m, m2, v)
  <1>1. /\ Index(v, 1) \in Idx /\ Index(v, 2) \in Idx /\ Index(v, 3) \in Idx
        /\ Index(v, 4) \in Idx
    BY IndexFits
  <1>2. \A u \in Names(m), j \in Idx : ~(u = t /\ j = i) => m2.tables[u][j] = m.tables[u][j]
    BY DEF Changes
  <1>3. E4(m2, v) = E4(m, v)
    BY <1>1, <1>2, WalkLevels DEF E4
  <1>4. At3(m2, v) <=> At3(m, v)
    BY <1>3 DEF At3
  <1>5. At3(m, v) => E3(m2, v) = E3(m, v)
    BY <1>1, <1>2, <1>3, WalkLevels DEF E3
  <1>6. At2(m2, v) <=> At2(m, v)
    BY <1>4, <1>5 DEF At2
  <1>7. At2(m, v) => E2(m2, v) = E2(m, v)
    BY <1>1, <1>2, <1>5, WalkLevels DEF E2, At2
  <1>8. At1(m2, v) <=> At1(m, v)
    BY <1>6, <1>7 DEF At1
  <1>9. At1(m, v) => E1(m2, v) = E1(m, v)
    BY <1>1, <1>2, <1>7, WalkLevels DEF E1, At1
  <1>10. CASE At1(m, v)
    BY <1>8, <1>9, <1>10, WalkFinds DEF SameWalk, InLargePage, At1
  <1>11. CASE At2(m, v) /\ ~At1(m, v)
    BY <1>6, <1>7, <1>11, WalkFinds DEF SameWalk, InLargePage, At1
  <1>12. CASE ~At2(m, v)
    BY <1>6, <1>12, WalkFinds DEF SameWalk, InLargePage
  <1> QED BY <1>10, <1>11, <1>12

(* A new table changes no translation: it is empty.                        *)
LEMMA MakingKeepsWalks ==
  ASSUME NEW m, NEW lv, Tree(m, lv), NEW page \in m.free,
         NEW t \in Names(m), NEW i \in Idx, lv[t] > 1, ~m.tables[t][i].present,
         NEW m2, Made(m, m2, t, i, page), NEW v \in Nat
  PROVE  SameWalk(m, m2, v)
  <1>1. /\ Index(v, 1) \in Idx /\ Index(v, 2) \in Idx /\ Index(v, 3) \in Idx
        /\ Index(v, 4) \in Idx
    BY IndexFits
  <1>2. page \in Nat
    BY MemType DEF Tree
  <1>3. /\ Changes(m, m2, t, i, Link(page)) /\ \A j \in Idx : m2.tables[page][j] = Zero
        /\ \A u \in Names(m), j \in Idx :
             m2.tables[u][j] = IF u = t /\ j = i THEN Link(page) ELSE m.tables[u][j]
    BY DEF Made, Changes
  <1>4. /\ Link(page).present /\ ~Link(page).ps /\ Link(page).page = page
        /\ ~Zero.present /\ ~Zero.ps
    BY <1>2, EntryTypes
  <1>5. CASE t = PML4 /\ i = Index(v, 4)
    <2>1. ~At3(m, v)
      BY <1>5 DEF At3, E4
    <2>2. E4(m2, v) = Link(page)
      BY <1>3, <1>5 DEF E4
    <2>3. E3(m2, v) = Zero
      BY <1>1, <1>3, <1>4, <2>2 DEF E3
    <2> QED BY <1>4, <2>1, <2>3, WalkFinds DEF SameWalk, InLargePage, At2
  <1>6. CASE At3(m, v) /\ t = E4(m, v).page /\ i = Index(v, 3) /\ t # PML4
    <2>1. ~At2(m, v)
      BY <1>6 DEF At2, E3
    <2>2. E4(m2, v) = E4(m, v)
      BY <1>1, <1>3, <1>6, WalkLevels DEF E4
    <2>3. E3(m2, v) = Link(page)
      BY <1>1, <1>3, <1>6, <2>2 DEF E3
    <2>4. E2(m2, v) = Zero
      BY <1>1, <1>3, <1>4, <2>3 DEF E2
    <2> QED BY <1>4, <2>1, <2>4, WalkFinds DEF SameWalk, InLargePage
  <1>7. CASE At2(m, v) /\ t = E3(m, v).page /\ i = Index(v, 2) /\ lv[t] = 2
    <2>1. ~E2(m, v).present
      BY <1>7 DEF E2
    <2>2. At3(m, v) /\ lv[PML4] = 4 /\ PML4 \in Names(m)
      BY <1>7, WalkLevels DEF At2
    <2>3. E4(m, v).page \in Names(m) /\ lv[E4(m, v).page] = 3
      BY <2>2, WalkLevels
    <2>4. E4(m2, v) = E4(m, v)
      BY <1>1, <1>3, <1>7, <2>2 DEF E4
    <2>5. E3(m2, v) = E3(m, v)
      BY <1>1, <1>3, <1>7, <2>3, <2>4 DEF E3
    <2>6. E2(m2, v) = Link(page)
      BY <1>1, <1>3, <1>7, <2>5 DEF E2
    <2>7. E1(m2, v) = Zero
      BY <1>1, <1>3, <1>4, <2>6 DEF E1
    <2>8. find_physaddr(m2, v) = 0
      BY <1>4, <2>6, <2>7, WalkFinds DEF At1
    <2> QED BY <1>4, <2>1, <2>6, <2>8, WalkFinds DEF SameWalk, InLargePage
  <1>8. CASE /\ ~(t = PML4 /\ i = Index(v, 4))
             /\ ~(At3(m, v) /\ t = E4(m, v).page /\ i = Index(v, 3))
             /\ ~(At2(m, v) /\ t = E3(m, v).page /\ i = Index(v, 2))
    <2>1. ~(At1(m, v) /\ t = E2(m, v).page /\ i = Index(v, 1))
      BY WalkLevels
    <2> QED BY <1>3, <1>8, <2>1, WalkStays
  <1>9. At2(m, v) /\ t = E3(m, v).page => lv[t] = 2
    BY WalkLevels
  <1>10. At3(m, v) /\ t = E4(m, v).page => t # PML4
    <2>1. At3(m, v) => lv[E4(m, v).page] = 3 /\ lv[PML4] = 4
      BY WalkLevels
    <2> QED BY <2>1
  <1> QED BY <1>5, <1>6, <1>7, <1>8, <1>9, <1>10

-----------------------------------------------------------------------------
(* What get_table() makes of a tree: it grows from free pages, and no      *)
(* entry that was present and no translation changes.                      *)

Grown(m, lv, m2, lv2) ==
  /\ Tree(m2, lv2)
  /\ Names(m) \subseteq Names(m2) /\ Names(m2) \subseteq Names(m) \cup m.free
  /\ m2.free \subseteq m.free
  /\ \A u \in Names(m) : lv2[u] = lv[u]
  /\ \A u \in Names(m), j \in Idx :
       m.tables[u][j].present => m2.tables[u][j] = m.tables[u][j]
  /\ \A v \in Nat : SameWalk(m, m2, v)

LEMMA GrownStays ==
  ASSUME NEW m, NEW lv, Tree(m, lv)
  PROVE  Grown(m, lv, m, lv)
  BY DEF Grown, SameWalk

LEMMA GrownTwice ==
  ASSUME NEW m, NEW lv, NEW m2, NEW lv2, NEW m3, NEW lv3,
         Grown(m, lv, m2, lv2), Grown(m2, lv2, m3, lv3)
  PROVE  Grown(m, lv, m3, lv3)
  <1>1. /\ Names(m) \subseteq Names(m3) /\ Names(m3) \subseteq Names(m) \cup m.free
        /\ m3.free \subseteq m.free /\ Tree(m3, lv3)
    BY DEF Grown
  <1>2. \A u \in Names(m) : lv3[u] = lv[u]
    BY DEF Grown
  <1>3. \A u \in Names(m), j \in Idx :
          m.tables[u][j].present => m3.tables[u][j] = m.tables[u][j]
    BY DEF Grown
  <1>4. \A v \in Nat : SameWalk(m, m3, v)
    BY DEF Grown, SameWalk
  <1> QED BY <1>1, <1>2, <1>3, <1>4 DEF Grown

Result(ok, m, t) == [ok |-> ok, mem |-> m, table |-> t]

TableGot(m, lv, t, i, s) ==
  \E ok, m2, t2, lv2 :
    /\ s = Result(ok, m2, t2) /\ ok \in BOOLEAN
    /\ Grown(m, lv, m2, lv2)
    /\ \A u \in Names(m2) \ Names(m) : lv2[u] = lv[t] - 1
    /\ ok => IsLink(m2, t, i) /\ m2.tables[t][i].page = t2
    /\ ~ok => m2.free = {}

LEMMA GetTable ==
  ASSUME NEW m, NEW lv, Tree(m, lv), NEW t \in Names(m), NEW i \in Idx,
         lv[t] > 1, ~m.tables[t][i].ps,
         NEW s, s = get_table(Result(TRUE, m, t), i)
  PROVE  TableGot(m, lv, t, i, s)
  <1> DEFINE page == phys_page_alloc(m)
             grown == SetEntry(new_table(m, page), t, i, Link(page))
  <1>1. s = IF m.tables[t][i].present THEN Result(TRUE, m, m.tables[t][i].page)
            ELSE IF page = 0 THEN Result(FALSE, m, t)
            ELSE Result(TRUE, grown, page)
    <2>1. PICK o, n : o = TRUE /\ n = FALSE
      OBVIOUS
    <2>2. PICK x : x = m.tables[t][i].page
      OBVIOUS
    <2>3. PICK r : r = [ok |-> o, mem |-> m, table |-> t]
      OBVIOUS
    <2>4. /\ [r EXCEPT !.table = x] = [ok |-> o, mem |-> m, table |-> x]
          /\ [r EXCEPT !.ok = n] = [ok |-> n, mem |-> m, table |-> t]
          /\ r.ok = o /\ r.mem = m /\ r.table = t
      BY <2>3
    <2>5. s = IF ~r.ok THEN r
              ELSE IF r.mem.tables[r.table][i].present
                THEN [r EXCEPT !.table = r.mem.tables[r.table][i].page]
              ELSE IF phys_page_alloc(r.mem) = 0 THEN [r EXCEPT !.ok = FALSE]
              ELSE Result(TRUE, SetEntry(new_table(r.mem, phys_page_alloc(r.mem)), r.table, i,
                                         Link(phys_page_alloc(r.mem))),
                          phys_page_alloc(r.mem))
      <3>1. s = get_table(r, i)
        BY <2>1, <2>3 DEF Result
      <3> QED BY <3>1, Zenon DEF get_table, Result, Link
    <2>6. s = IF m.tables[t][i].present THEN [r EXCEPT !.table = x]
              ELSE IF page = 0 THEN [r EXCEPT !.ok = n]
              ELSE Result(TRUE, grown, page)
      BY <2>1, <2>2, <2>4, <2>5
    <2> QED BY <2>1, <2>2, <2>4, <2>6 DEF Result
  <1>2. page \in Nat /\ (m.free = {} => page = 0) /\ (m.free # {} => page \in m.free)
    BY PageIsAllocated DEF Tree
  <1> HIDE DEF page
  <1>3. CASE m.tables[t][i].present
    <2>1. s = Result(TRUE, m, m.tables[t][i].page) /\ IsLink(m, t, i)
      BY <1>1, <1>3 DEF IsLink
    <2> QED BY <2>1, GrownStays, Zenon DEF TableGot
  <1>4. CASE ~m.tables[t][i].present /\ page = 0
    <2>1. s = Result(FALSE, m, t) /\ m.free = {}
      BY <1>1, <1>2, <1>4 DEF Tree, Apart
    <2> QED BY <2>1, GrownStays, Zenon DEF TableGot
  <1>5. CASE ~m.tables[t][i].present /\ page # 0
    <2>1. s = Result(TRUE, grown, page) /\ page \in m.free /\ page \notin Names(m)
      BY <1>1, <1>2, <1>5 DEF Tree, Apart
    <2>2. PICK m2 : m2 = grown
      OBVIOUS
    <2>3. PICK lv2 : lv2 = LevelsWith(lv, page, lv[t] - 1)
      OBVIOUS
    <2>4. Made(m, m2, t, i, page)
      BY <1>2, <2>1, <2>2, TableIsHung DEF Tree
    <2>5. Tree(m2, lv2) /\ \A u \in Names(m) : lv2[u] = lv[u]
      BY <1>5, <2>1, <2>3, <2>4, TreeGrows
    <2>6. \A v \in Nat : SameWalk(m, m2, v)
      BY <1>5, <2>1, <2>4, MakingKeepsWalks
    <2>7. /\ m2.free = m.free \ {page} /\ Names(m2) = Names(m) \cup {page}
          /\ \A u \in Names(m), j \in Idx :
               m2.tables[u][j] = IF u = t /\ j = i THEN Link(page) ELSE m.tables[u][j]
      BY <2>4 DEF Made, Changes
    <2>8. \A u \in Names(m), j \in Idx :
            m.tables[u][j].present => m2.tables[u][j] = m.tables[u][j]
      BY <1>5, <2>7
    <2>9. Grown(m, lv, m2, lv2)
      BY <2>1, <2>5, <2>6, <2>7, <2>8 DEF Grown
    <2>10. m2.tables[t][i] = Link(page)
      BY <2>7
    <2>11. IsLink(m2, t, i) /\ m2.tables[t][i].page = page
      BY <1>2, <2>10, EntryTypes DEF IsLink
    <2>12. page \in DOMAIN lv \cup {page} /\ lv2[page] = lv[t] - 1
      BY <2>3 DEF LevelsWith
    <2>13. \A u \in Names(m2) \ Names(m) : lv2[u] = lv[t] - 1
      BY <2>7, <2>12
    <2> HIDE DEF grown
    <2> QED BY <2>1, <2>2, <2>9, <2>11, <2>13, Zenon DEF TableGot
  <1> QED BY <1>3, <1>4, <1>5

(* get_pdpt() and get_pd(): the walk of the address reaches the table of   *)
(* level 2 that they return.                                               *)
LEMMA GetPd ==
  ASSUME NEW m, NEW lv, Tree(m, lv), NEW v \in Nat, NEW s, s = get_pd(m, v)
  PROVE  \E ok, m2, t2, lv2 :
           /\ s = Result(ok, m2, t2) /\ ok \in BOOLEAN
           /\ Grown(m, lv, m2, lv2)
           /\ \A u \in Names(m2) \ Names(m) : lv2[u] > 1
           /\ ok => At2(m2, v) /\ t2 = E3(m2, v).page
           /\ ~ok => m2.free = {}
  <1>1. Index(v, 3) \in Idx /\ Index(v, 4) \in Idx
    BY IndexFits
  <1>2. PML4 \in Names(m) /\ lv[PML4] = 4 /\ ~E4(m, v).ps
    BY WalkLevels
  <1>3. PICK s1 : s1 = get_table(Result(TRUE, m, PML4), Index(v, 4))
    OBVIOUS
  <1>4. s = get_table(s1, Index(v, 3))
    BY <1>3 DEF get_pd, Result
  <1>5. PICK ok1, m1, t1, lv1 :
           /\ s1 = Result(ok1, m1, t1) /\ ok1 \in BOOLEAN
           /\ Grown(m, lv, m1, lv1)
           /\ \A u \in Names(m1) \ Names(m) : lv1[u] = lv[PML4] - 1
           /\ ok1 => IsLink(m1, PML4, Index(v, 4)) /\ m1.tables[PML4][Index(v, 4)].page = t1
           /\ ~ok1 => m1.free = {}
    <2>1. lv[PML4] > 1 /\ ~m.tables[PML4][Index(v, 4)].ps
      BY <1>2 DEF E4
    <2>2. TableGot(m, lv, PML4, Index(v, 4), s1)
      BY <1>1, <1>2, <1>3, <2>1, GetTable
    <2> QED BY <2>2, Zenon DEF TableGot
  <1>6. CASE ~ok1
    <2>1. s = Result(ok1, m1, t1)
      BY <1>4, <1>5, <1>6 DEF get_table, Result
    <2> QED BY <1>2, <1>5, <1>6, <2>1
  <1>7. CASE ok1
    <2>1. s1 = Result(TRUE, m1, t1) /\ Tree(m1, lv1) /\ At3(m1, v) /\ t1 = E4(m1, v).page
      BY <1>5, <1>7 DEF At3, E4, IsLink, Grown
    <2>2. t1 \in Names(m1) /\ lv1[t1] = 3 /\ ~m1.tables[t1][Index(v, 3)].ps
      BY <2>1, WalkLevels DEF E3
    <2>3. PICK ok, m2, t2, lv2 :
           /\ s = Result(ok, m2, t2) /\ ok \in BOOLEAN
           /\ Grown(m1, lv1, m2, lv2)
           /\ \A u \in Names(m2) \ Names(m1) : lv2[u] = lv1[t1] - 1
           /\ ok => IsLink(m2, t1, Index(v, 3)) /\ m2.tables[t1][Index(v, 3)].page = t2
           /\ ~ok => m2.free = {}
      <3>1. TableGot(m1, lv1, t1, Index(v, 3), s)
        <4>1. s = get_table(Result(TRUE, m1, t1), Index(v, 3))
          BY <1>4, <2>1
        <4>2. lv1[t1] > 1
          BY <2>2
        <4> QED BY <1>1, <2>1, <2>2, <4>1, <4>2, GetTable
      <3> QED BY <3>1, Zenon DEF TableGot
    <2>4. Grown(m, lv, m2, lv2)
      BY <1>5, <2>3, GrownTwice
    <2>5. \A u \in Names(m2) \ Names(m) : lv2[u] > 1
      <3>1. \A u \in Names(m1) : lv2[u] = lv1[u]
        BY <2>3 DEF Grown
      <3> QED BY <1>2, <1>5, <2>2, <2>3, <3>1
    <2>6. E4(m2, v) = E4(m1, v)
      <3>1. PML4 \in Names(m1)
        BY <2>1, WalkLevels
      <3> QED BY <1>1, <2>1, <2>3, <3>1 DEF Grown, E4, At3
    <2>7. ok => At2(m2, v) /\ t2 = E3(m2, v).page
      BY <2>1, <2>3, <2>6 DEF At3, At2, E3, IsLink
    <2> QED BY <2>3, <2>4, <2>5, <2>7
  <1> QED BY <1>6, <1>7

-----------------------------------------------------------------------------
(* Taking a page, and mapping                                              *)

LEMMA TakingKeepsTree ==
  ASSUME NEW m, NEW lv, Tree(m, lv), NEW page, NEW m2, m2 = Without(m, page)
  PROVE  /\ Grown(m, lv, m2, lv) /\ Names(m2) = Names(m) /\ m2.free = m.free \ {page}
         /\ m2.tables = m.tables
  <1>1. m2 \in MemSet /\ m2.free = m.free \ {page} /\ m2.tables = m.tables
    BY PageIsTaken DEF Tree
  <1>2. Names(m2) = Names(m)
    BY <1>1 DEF Names
  <1>3. Levels(m2, lv)
    BY <1>1, <1>2 DEF Tree, Levels, IsLink
  <1>4. Hangs(m2, lv)
    BY <1>1, <1>2 DEF Tree, Hangs, IsLink
  <1>5. Apart(m2, lv)
    BY <1>1, <1>2 DEF Tree, Apart
  <1>6. Tree(m2, lv)
    BY <1>1, <1>3, <1>4, <1>5 DEF Tree
  <1>7. \A v \in Nat : SameWalk(m, m2, v)
    BY <1>1 DEF SameWalk, find_physaddr, InLargePage, At2, At3, E2, E3, E4
  <1> QED BY <1>1, <1>2, <1>6, <1>7 DEF Grown

(* Two addresses whose walks end at the same table have the same indices   *)
(* above it.                                                               *)
LEMMA OnePathToATable ==
  ASSUME NEW m, NEW lv, Tree(m, lv), NEW v \in Nat, NEW w \in Nat
  PROVE  /\ At2(m, v) /\ At2(m, w) /\ E3(m, v).page = E3(m, w).page
              => Index(v, 4) = Index(w, 4) /\ Index(v, 3) = Index(w, 3)
         /\ At1(m, v) /\ At1(m, w) /\ E2(m, v).page = E2(m, w).page
              => \A level \in 2 .. 4 : Index(v, level) = Index(w, level)
  <1>1. /\ Index(v, 2) \in Idx /\ Index(v, 3) \in Idx /\ Index(v, 4) \in Idx
        /\ Index(w, 2) \in Idx /\ Index(w, 3) \in Idx /\ Index(w, 4) \in Idx
    BY IndexFits
  <1>2. \A t, u \in Names(m), i, j \in Idx :
          /\ lv[t] > 1 /\ IsLink(m, t, i) /\ lv[u] > 1 /\ IsLink(m, u, j)
          /\ m.tables[t][i].page = m.tables[u][j].page
          => t = u /\ i = j
    BY DEF Tree, Hangs
  <1>3. At3(m, v) /\ At3(m, w) /\ E4(m, v).page = E4(m, w).page => Index(v, 4) = Index(w, 4)
    <2>1. SUFFICES ASSUME At3(m, v), At3(m, w), E4(m, v).page = E4(m, w).page
                   PROVE  Index(v, 4) = Index(w, 4)
      OBVIOUS
    <2>2. PML4 \in Names(m) /\ lv[PML4] > 1 /\ ~E4(m, v).ps /\ ~E4(m, w).ps
      BY WalkLevels
    <2>3. IsLink(m, PML4, Index(v, 4)) /\ IsLink(m, PML4, Index(w, 4))
      BY <2>1, <2>2 DEF IsLink, At3, E4
    <2> QED BY <1>1, <1>2, <2>1, <2>2, <2>3 DEF E4
  <1>4. At2(m, v) /\ At2(m, w) /\ E3(m, v).page = E3(m, w).page
          => Index(v, 4) = Index(w, 4) /\ Index(v, 3) = Index(w, 3)
    <2>1. SUFFICES ASSUME At2(m, v), At2(m, w), E3(m, v).page = E3(m, w).page
                   PROVE  Index(v, 4) = Index(w, 4) /\ Index(v, 3) = Index(w, 3)
      OBVIOUS
    <2>2. At3(m, v) /\ At3(m, w)
      BY <2>1 DEF At2
    <2>3. /\ E4(m, v).page \in Names(m) /\ lv[E4(m, v).page] > 1 /\ ~E3(m, v).ps
          /\ E4(m, w).page \in Names(m) /\ lv[E4(m, w).page] > 1 /\ ~E3(m, w).ps
      BY <2>2, WalkLevels
    <2>4. IsLink(m, E4(m, v).page, Index(v, 3)) /\ IsLink(m, E4(m, w).page, Index(w, 3))
      BY <2>1, <2>3 DEF IsLink, At2, E3
    <2>5. E4(m, v).page = E4(m, w).page /\ Index(v, 3) = Index(w, 3)
      BY <1>1, <1>2, <2>1, <2>3, <2>4 DEF E3
    <2> QED BY <1>3, <2>2, <2>5
  <1>5. At1(m, v) /\ At1(m, w) /\ E2(m, v).page = E2(m, w).page
          => \A level \in 2 .. 4 : Index(v, level) = Index(w, level)
    <2>1. SUFFICES ASSUME At1(m, v), At1(m, w), E2(m, v).page = E2(m, w).page
                   PROVE  \A level \in 2 .. 4 : Index(v, level) = Index(w, level)
      OBVIOUS
    <2>2. At2(m, v) /\ At2(m, w)
      BY <2>1 DEF At1
    <2>3. /\ E3(m, v).page \in Names(m) /\ lv[E3(m, v).page] > 1
          /\ E3(m, w).page \in Names(m) /\ lv[E3(m, w).page] > 1
      BY <2>2, WalkLevels
    <2>4. IsLink(m, E3(m, v).page, Index(v, 2)) /\ IsLink(m, E3(m, w).page, Index(w, 2))
      BY <2>1 DEF IsLink, At1, E2
    <2>5. E3(m, v).page = E3(m, w).page /\ Index(v, 2) = Index(w, 2)
      BY <1>1, <1>2, <2>1, <2>3, <2>4 DEF E2
    <2>6. Index(v, 4) = Index(w, 4) /\ Index(v, 3) = Index(w, 3)
      BY <1>4, <2>2, <2>5
    <2> QED BY <2>5, <2>6
  <1> QED BY <1>4, <1>5

(* Mapping an address to a page that is not free and is no table: the      *)
(* tree stays, and only addresses of that page are translated anew.        *)
LEMMA PageIsMapped ==
  ASSUME NEW m, NEW lv, Tree(m, lv), NEW v \in Nat, At1(m, v), NEW page \in Nat,
         page \notin m.free, page \in Names(m) => page = PML4,
         NEW m2, m2 = SetEntry(m, E2(m, v).page, Index(v, 1), Link(page))
  PROVE  /\ Tree(m2, lv) /\ Names(m2) = Names(m) /\ m2.free = m.free
         /\ \A w \in Nat : VirtPage(w) # VirtPage(v) => SameWalk(m, m2, w)
         /\ \A w \in Nat : VirtPage(w) = VirtPage(v) =>
              /\ find_physaddr(m2, w) = page * PAGE_SIZE + (w % PAGE_SIZE)
              /\ ~InLargePage(m2, w)
  <1> DEFINE t == E2(m, v).page
             i == Index(v, 1)
  <1>1. t \in Names(m) /\ lv[t] = 1 /\ i \in Idx
    BY WalkLevels, IndexFits
  <1>2. /\ Link(page) \in Entry /\ Link(page).present /\ ~Link(page).ps
        /\ Link(page).page = page
    BY EntryTypes
  <1>3. /\ m2 \in MemSet /\ m2.free = m.free /\ Names(m2) = Names(m)
        /\ \A u \in Names(m), j \in Idx :
             m2.tables[u][j] = IF u = t /\ j = i THEN Link(page) ELSE m.tables[u][j]
    BY <1>2, EntryIsSet DEF Tree
  <1>4. Changes(m, m2, t, i, Link(page))
    BY <1>3 DEF Changes
  <1> HIDE DEF t, i
  <1>5. \A u \in Names(m), j \in Idx : lv[u] > 1 => m2.tables[u][j] = m.tables[u][j]
    BY <1>1, <1>3
  <1>6. \A u \in Names(m), j \in Idx : lv[u] > 1 => (IsLink(m2, u, j) <=> IsLink(m, u, j))
    BY <1>5 DEF IsLink
  <1>7. Levels(m2, lv)
    <2>1. \A u \in Names(m2), j \in Idx : 
            m2.tables[u][j].ps => lv[u] = 2 /\ m2.tables[u][j].present
      BY <1>2, <1>3 DEF Tree, Levels
    <2>2. \A u \in Names(m2), j \in Idx :
            lv[u] > 1 /\ IsLink(m2, u, j)
              => m2.tables[u][j].page \in Names(m2) /\ lv[m2.tables[u][j].page] = lv[u] - 1
      BY <1>3, <1>5, <1>6 DEF Tree, Levels
    <2> QED BY <1>3, <2>1, <2>2 DEF Tree, Levels
  <1>8. Hangs(m2, lv)
    <2>1. ASSUME NEW u \in Names(m2), NEW w \in Names(m2), NEW j \in Idx, NEW k \in Idx,
                 lv[u] > 1, IsLink(m2, u, j), lv[w] > 1, IsLink(m2, w, k),
                 m2.tables[u][j].page = m2.tables[w][k].page
          PROVE  u = w /\ j = k
      <3>1. IsLink(m, u, j) /\ IsLink(m, w, k) /\ m.tables[u][j].page = m.tables[w][k].page
        BY <1>3, <1>5, <1>6, <2>1
      <3> QED BY <1>3, <2>1, <3>1 DEF Tree, Hangs
    <2>2. ASSUME NEW u \in Names(m2), u # PML4
          PROVE  \E w \in Names(m2), j \in Idx :
                   lv[w] > 1 /\ IsLink(m2, w, j) /\ m2.tables[w][j].page = u
      <3>1. PICK w \in Names(m), j \in Idx :
                   lv[w] > 1 /\ IsLink(m, w, j) /\ m.tables[w][j].page = u
        BY <1>3, <2>2 DEF Tree, Hangs
      <3> QED BY <1>3, <1>5, <1>6, <3>1
    <2> QED BY <2>1, <2>2 DEF Hangs
  <1>9. Apart(m2, lv)
    <2>1. \A u \in Names(m2), j \in Idx :
            lv[u] = 1 /\ m2.tables[u][j].present
              => /\ m2.tables[u][j].page \notin m2.free
                 /\ m2.tables[u][j].page \in Names(m2) => m2.tables[u][j].page = PML4
      BY <1>2, <1>3 DEF Tree, Apart
    <2> QED BY <1>3, <2>1 DEF Tree, Apart
  <1>10. Tree(m2, lv)
    BY <1>3, <1>7, <1>8, <1>9 DEF Tree
  <1>11. ASSUME NEW w \in Nat, VirtPage(w) # VirtPage(v)
         PROVE  SameWalk(m, m2, w)
    <2>1. At1(m, w) /\ E2(m, v).page = E2(m, w).page => Index(v, 1) # Index(w, 1)
      <3>1. SUFFICES ASSUME At1(m, w), E2(m, v).page = E2(m, w).page, Index(v, 1) = Index(w, 1)
                     PROVE  FALSE
        OBVIOUS
      <3>2. \A level \in 2 .. 4 : Index(v, level) = Index(w, level)
        BY <3>1, OnePathToATable
      <3> QED BY <1>11, <3>1, <3>2, SamePage
    <2>2. ~(At1(m, w) /\ t = E2(m, w).page /\ i = Index(w, 1))
      BY <2>1 DEF t, i
    <2>3. lv[PML4] = 4 /\ (At3(m, w) => lv[E4(m, w).page] = 3)
          /\ (At2(m, w) => lv[E3(m, w).page] = 2)
      BY WalkLevels
    <2> QED BY <1>1, <1>4, <2>2, <2>3, WalkStays
  <1>12. ASSUME NEW w \in Nat, VirtPage(w) = VirtPage(v)
         PROVE  /\ find_physaddr(m2, w) = page * PAGE_SIZE + (w % PAGE_SIZE)
                /\ ~InLargePage(m2, w)
    <2>1. /\ Index(w, 1) = Index(v, 1) /\ Index(w, 2) = Index(v, 2)
          /\ Index(w, 3) = Index(v, 3) /\ Index(w, 4) = Index(v, 4)
      BY <1>12, PageHasItsIndices
    <2>2. /\ Index(v, 1) \in Idx /\ Index(v, 2) \in Idx /\ Index(v, 3) \in Idx
          /\ Index(v, 4) \in Idx
      BY IndexFits
    <2>3. At2(m, v) /\ At3(m, v)
      BY DEF At1, At2
    <2>4. /\ PML4 \in Names(m) /\ lv[PML4] = 4
          /\ E4(m, v).page \in Names(m) /\ lv[E4(m, v).page] = 3
          /\ E3(m, v).page \in Names(m) /\ lv[E3(m, v).page] = 2
      BY <2>3, WalkLevels
    <2>5. E4(m2, w) = E4(m, v)
      BY <1>5, <2>1, <2>2, <2>4 DEF E4
    <2>6. E3(m2, w) = E3(m, v)
      BY <1>5, <2>1, <2>2, <2>4, <2>5 DEF E3
    <2>7. E2(m2, w) = E2(m, v)
      <3>1. m2.tables[E3(m, v).page][Index(v, 2)] = m.tables[E3(m, v).page][Index(v, 2)]
        BY <1>5, <2>2, <2>4
      <3>2. E2(m2, w) = m2.tables[E3(m, v).page][Index(v, 2)]
        BY <2>1, <2>6 DEF E2
      <3> QED BY <3>1, <3>2 DEF E2
    <2>8. E1(m2, w) = Link(page)
      BY <1>1, <1>3, <2>1, <2>7 DEF E1, t, i
    <2>9. At1(m2, w)
      BY <2>3, <2>5, <2>6, <2>7 DEF At1, At2, At3
    <2> QED BY <1>2, <2>8, <2>9, WalkFinds DEF InLargePage, At1
  <1> QED BY <1>3, <1>10, <1>11, <1>12

(* The same for a large page, while there are no page tables of level 1    *)
LEMMA LargePageIsMapped ==
  ASSUME NEW m, NEW lv, Tree(m, lv), \A u \in Names(m) : lv[u] > 1,
         NEW v \in Nat, At2(m, v), NEW page \in Nat,
         NEW m2, m2 = SetEntry(m, E3(m, v).page, Index(v, 2), Large(page))
  PROVE  /\ Tree(m2, lv) /\ Names(m2) = Names(m) /\ m2.free = m.free
         /\ \A w \in Nat :
              VirtPage(w) \div ENTRIES # VirtPage(v) \div ENTRIES => SameWalk(m, m2, w)
         /\ \A w \in Nat : VirtPage(w) \div ENTRIES = VirtPage(v) \div ENTRIES =>
              find_physaddr(m2, w) = page * PAGE_SIZE + (w % PAGE_2M)
  <1> DEFINE t == E3(m, v).page
             i == Index(v, 2)
  <1>1. t \in Names(m) /\ lv[t] = 2 /\ i \in Idx
    BY WalkLevels, IndexFits
  <1>2. /\ Large(page) \in Entry /\ Large(page).present /\ Large(page).ps
        /\ Large(page).page = page
    BY EntryTypes
  <1>3. /\ m2 \in MemSet /\ m2.free = m.free /\ Names(m2) = Names(m)
        /\ \A u \in Names(m), j \in Idx :
             m2.tables[u][j] = IF u = t /\ j = i THEN Large(page) ELSE m.tables[u][j]
    BY <1>2, EntryIsSet DEF Tree
  <1>4. Changes(m, m2, t, i, Large(page))
    BY <1>3 DEF Changes
  <1> HIDE DEF t, i
  <1>5. \A u \in Names(m), j \in Idx : u # t => m2.tables[u][j] = m.tables[u][j]
    BY <1>1, <1>3
  <1>6. ~IsLink(m, t, i) /\ ~IsLink(m2, t, i)
    <2>1. IsLink(m, t, i) => lv[m.tables[t][i].page] = 1 /\ m.tables[t][i].page \in Names(m)
      BY <1>1 DEF Tree, Levels
    <2> QED BY <1>1, <1>2, <1>3, <2>1 DEF IsLink
  <1>7. \A u \in Names(m), j \in Idx :
          /\ IsLink(m2, u, j) <=> IsLink(m, u, j)
          /\ IsLink(m, u, j) => m2.tables[u][j] = m.tables[u][j]
    BY <1>3, <1>6 DEF IsLink
  <1>8. Levels(m2, lv)
    <2>1. \A u \in Names(m2), j \in Idx :
            m2.tables[u][j].ps => lv[u] = 2 /\ m2.tables[u][j].present
      BY <1>1, <1>2, <1>3 DEF Tree, Levels
    <2>2. \A u \in Names(m2), j \in Idx :
            lv[u] > 1 /\ IsLink(m2, u, j)
              => m2.tables[u][j].page \in Names(m2) /\ lv[m2.tables[u][j].page] = lv[u] - 1
      BY <1>3, <1>7 DEF Tree, Levels
    <2> QED BY <1>3, <2>1, <2>2 DEF Tree, Levels
  <1>9. Hangs(m2, lv)
    <2>1. ASSUME NEW u \in Names(m2), NEW w \in Names(m2), NEW j \in Idx, NEW k \in Idx,
                 lv[u] > 1, IsLink(m2, u, j), lv[w] > 1, IsLink(m2, w, k),
                 m2.tables[u][j].page = m2.tables[w][k].page
          PROVE  u = w /\ j = k
      <3>1. IsLink(m, u, j) /\ IsLink(m, w, k) /\ m.tables[u][j].page = m.tables[w][k].page
        BY <1>3, <1>7, <2>1
      <3> QED BY <1>3, <2>1, <3>1 DEF Tree, Hangs
    <2>2. ASSUME NEW u \in Names(m2), u # PML4
          PROVE  \E w \in Names(m2), j \in Idx :
                   lv[w] > 1 /\ IsLink(m2, w, j) /\ m2.tables[w][j].page = u
      <3>1. PICK w \in Names(m), j \in Idx :
                   lv[w] > 1 /\ IsLink(m, w, j) /\ m.tables[w][j].page = u
        BY <1>3, <2>2 DEF Tree, Hangs
      <3> QED BY <1>3, <1>7, <3>1
    <2> QED BY <2>1, <2>2 DEF Hangs
  <1>10. Apart(m2, lv)
    BY <1>3 DEF Tree, Apart
  <1>11. Tree(m2, lv)
    BY <1>3, <1>8, <1>9, <1>10 DEF Tree
  <1>12. ASSUME NEW w \in Nat, VirtPage(w) \div ENTRIES # VirtPage(v) \div ENTRIES
         PROVE  SameWalk(m, m2, w)
    <2>1. At2(m, w) /\ E3(m, v).page = E3(m, w).page => Index(v, 2) # Index(w, 2)
      <3>1. SUFFICES ASSUME At2(m, w), E3(m, v).page = E3(m, w).page, Index(v, 2) = Index(w, 2)
                     PROVE  FALSE
        OBVIOUS
      <3>2. Index(v, 4) = Index(w, 4) /\ Index(v, 3) = Index(w, 3)
        BY <3>1, OnePathToATable
      <3>3. \A level \in 2 .. 4 : Index(v, level) = Index(w, level)
        BY <3>1, <3>2
      <3> QED BY <1>12, <3>3, SamePage
    <2>2. ~(At2(m, w) /\ t = E3(m, w).page /\ i = Index(w, 2))
      BY <2>1 DEF t, i
    <2>3. lv[PML4] = 4 /\ (At3(m, w) => lv[E4(m, w).page] = 3)
          /\ (At1(m, w) => lv[E2(m, w).page] = 1)
      BY WalkLevels
    <2> QED BY <1>1, <1>4, <2>2, <2>3, WalkStays
  <1>13. ASSUME NEW w \in Nat, VirtPage(w) \div ENTRIES = VirtPage(v) \div ENTRIES
         PROVE  find_physaddr(m2, w) = page * PAGE_SIZE + (w % PAGE_2M)
    <2>1. /\ Index(w, 2) = Index(v, 2)
          /\ Index(w, 3) = Index(v, 3) /\ Index(w, 4) = Index(v, 4)
      BY <1>13, PageHasItsIndices
    <2>2. /\ Index(v, 2) \in Idx /\ Index(v, 3) \in Idx /\ Index(v, 4) \in Idx
      BY IndexFits
    <2>3. At3(m, v)
      BY DEF At2
    <2>4. /\ PML4 \in Names(m) /\ lv[PML4] = 4
          /\ E4(m, v).page \in Names(m) /\ lv[E4(m, v).page] = 3
      BY <2>3, WalkLevels
    <2>5. E4(m2, w) = E4(m, v)
      BY <1>1, <1>5, <2>1, <2>2, <2>4 DEF E4
    <2>6. E3(m2, w) = E3(m, v)
      <3>1. E4(m, v).page # t
        BY <1>1, <2>4
      <3>2. m2.tables[E4(m, v).page][Index(v, 3)] = m.tables[E4(m, v).page][Index(v, 3)]
        BY <1>5, <2>2, <2>4, <3>1
      <3> QED BY <2>1, <2>5, <3>2 DEF E3
    <2>7. E2(m2, w) = Large(page)
      BY <1>1, <1>3, <2>1, <2>6 DEF E2, t, i
    <2>8. At2(m2, w)
      BY <2>3, <2>5, <2>6 DEF At2, At3
    <2> QED BY <1>2, <2>7, <2>8, WalkFinds DEF InLargePage
  <1> QED BY <1>3, <1>11, <1>12, <1>13

(* What a map function leaves of the tree, whether or not it could map     *)
Kept(m, m2, lv2) ==
  /\ Tree(m2, lv2)
  /\ Names(m) \subseteq Names(m2) /\ Names(m2) \subseteq Names(m) \cup m.free
  /\ m2.free \subseteq m.free

MapsTo(m, m2, v, page) ==
  \A w \in Nat : VirtPage(w) = VirtPage(v) =>
    /\ find_physaddr(m2, w) = page * PAGE_SIZE + (w % PAGE_SIZE)
    /\ ~InLargePage(m2, w) /\ ~InLargePage(m, w)

PageMapped(m, m2, phys, v, lv2) ==
  /\ Kept(m, m2, lv2)
  /\ \A w \in Nat : VirtPage(w) # VirtPage(v) => SameWalk(m, m2, w)
  /\ \/ \A w \in Nat : SameWalk(m, m2, w)
     \/ phys % PAGE_SIZE = 0 /\ v % PAGE_SIZE = 0 /\ MapsTo(m, m2, v, phys \div PAGE_SIZE)
  /\ /\ phys % PAGE_SIZE = 0 /\ v % PAGE_SIZE = 0
     /\ m2.free # {} /\ ~InLargePage(m, v)
     => MapsTo(m, m2, v, phys \div PAGE_SIZE)

LEMMA MapPage ==
  ASSUME NEW m, NEW lv, Tree(m, lv), NEW phys \in Nat, NEW v \in Nat,
         phys \div PAGE_SIZE \notin m.free,
         phys \div PAGE_SIZE \in Names(m) => phys \div PAGE_SIZE = PML4,
         NEW m2, m2 = map_page(m, phys, v)
  PROVE  \E lv2 : PageMapped(m, m2, phys, v, lv2)
  <1>1. PICK page \in Nat : page = phys \div PAGE_SIZE
    BY PagingSizesAssumption, QuotientAndRest
  <1>2. PICK pd : pd = get_pd(m, v)
    OBVIOUS
  <1>3. PICK pt : pt = get_table(pd, Index(v, 2))
    OBVIOUS
  <1>4. m2 = IF phys % PAGE_SIZE # 0 \/ v % PAGE_SIZE # 0 THEN m
             ELSE IF ~pd.ok \/ pd.mem.tables[pd.table][Index(v, 2)].ps THEN pd.mem
             ELSE IF ~pt.ok THEN pt.mem
             ELSE SetEntry(pt.mem, pt.table, Index(v, 1), Link(page))
    BY <1>1, <1>2, <1>3 DEF map_page, Link
  <1>5. PICK ok1, m1, t1, lv1 :
          /\ pd = Result(ok1, m1, t1) /\ ok1 \in BOOLEAN
          /\ Grown(m, lv, m1, lv1)
          /\ ok1 => At2(m1, v) /\ t1 = E3(m1, v).page
          /\ ~ok1 => m1.free = {}
    BY <1>2, GetPd
  <1>6. pd.ok = ok1 /\ pd.mem = m1 /\ pd.table = t1
    BY <1>5 DEF Result
  <1>7. ASSUME NEW m3, NEW lv3, Grown(m, lv, m3, lv3)
        PROVE  /\ Kept(m, m3, lv3) /\ \A w \in Nat : SameWalk(m, m3, w)
    BY <1>7 DEF Grown, Kept
  <1>8. CASE phys % PAGE_SIZE # 0 \/ v % PAGE_SIZE # 0
    BY <1>4, <1>7, <1>8, GrownStays DEF PageMapped
  <1>9. CASE ~(phys % PAGE_SIZE # 0 \/ v % PAGE_SIZE # 0) /\ ~ok1
    <2>1. m2 = m1
      BY <1>4, <1>6, <1>9
    <2> QED BY <1>5, <1>7, <1>9, <2>1 DEF PageMapped
  <1>10. CASE ~(phys % PAGE_SIZE # 0 \/ v % PAGE_SIZE # 0) /\ ok1 /\ E2(m1, v).ps
    <2>1. m2 = m1
      BY <1>4, <1>5, <1>6, <1>10 DEF E2
    <2>2. E2(m1, v).present
      <3>1. E3(m1, v).page \in Names(m1) /\ Index(v, 2) \in Idx
        BY <1>5, <1>10, WalkLevels, IndexFits DEF Grown
      <3> QED BY <1>5, <1>10, <3>1 DEF Grown, Tree, Levels, E2
    <2>3. InLargePage(m1, v)
      BY <1>5, <1>10, <2>2 DEF InLargePage
    <2>4. InLargePage(m, v)
      BY <1>5, <1>7, <2>3 DEF SameWalk
    <2> QED BY <1>5, <1>7, <2>1, <2>4 DEF PageMapped
  <1>11. CASE ~(phys % PAGE_SIZE # 0 \/ v % PAGE_SIZE # 0) /\ ok1 /\ ~E2(m1, v).ps
    <2>1. Tree(m1, lv1) /\ At2(m1, v)
      BY <1>5, <1>11 DEF Grown
    <2>2. /\ t1 \in Names(m1) /\ lv1[t1] > 1 /\ Index(v, 2) \in Idx
          /\ ~m1.tables[t1][Index(v, 2)].ps
      <3>1. E3(m1, v).page \in Names(m1) /\ lv1[E3(m1, v).page] = 2
        BY <2>1, WalkLevels
      <3> QED BY <1>5, <1>11, <3>1, IndexFits DEF E2
    <2>3. pt = get_table(Result(TRUE, m1, t1), Index(v, 2))
      BY <1>3, <1>5, <1>11
    <2>4. TableGot(m1, lv1, t1, Index(v, 2), pt)
      BY <2>1, <2>2, <2>3, GetTable
    <2>5. PICK ok3, m3, t3, lv3 :
            /\ pt = Result(ok3, m3, t3) /\ ok3 \in BOOLEAN
            /\ Grown(m1, lv1, m3, lv3)
            /\ ok3 => IsLink(m3, t1, Index(v, 2)) /\ m3.tables[t1][Index(v, 2)].page = t3
            /\ ~ok3 => m3.free = {}
      BY <2>4, Zenon DEF TableGot
    <2>6. pt.ok = ok3 /\ pt.mem = m3 /\ pt.table = t3
      BY <2>5 DEF Result
    <2>7. Grown(m, lv, m3, lv3)
      BY <1>5, <2>5, GrownTwice
    <2>8. m2 = IF ~ok3 THEN m3 ELSE SetEntry(m3, t3, Index(v, 1), Link(page))
      BY <1>4, <1>5, <1>6, <1>11, <2>6 DEF E2
    <2>9. CASE ~ok3
      BY <1>7, <2>5, <2>7, <2>8, <2>9 DEF PageMapped
    <2>10. CASE ok3
      <3>1. Tree(m3, lv3)
        BY <2>7 DEF Grown
      <3>2. E4(m3, v) = E4(m1, v)
        <4>1. PML4 \in Names(m1) /\ Index(v, 4) \in Idx /\ E4(m1, v).present
          BY <2>1, WalkLevels, IndexFits DEF At2, At3
        <4> QED BY <2>5, <4>1 DEF E4, Grown
      <3>3. E3(m3, v) = E3(m1, v)
        <4>1. E4(m1, v).page \in Names(m1) /\ Index(v, 3) \in Idx /\ E3(m1, v).present
          BY <2>1, WalkLevels, IndexFits DEF At2
        <4> QED BY <2>5, <3>2, <4>1 DEF E3, Grown
      <3>4. At1(m3, v) /\ t3 = E2(m3, v).page
        BY <1>5, <1>11, <2>1, <2>5, <2>10, <3>2, <3>3 DEF At1, At2, At3, E2, IsLink
      <3>5. page \notin m3.free /\ (page \in Names(m3) => page = PML4)
        BY <1>1, <2>7 DEF Grown
      <3>6. m2 = SetEntry(m3, E2(m3, v).page, Index(v, 1), Link(page))
        BY <2>8, <2>10, <3>4
      <3>7. /\ Tree(m2, lv3) /\ Names(m2) = Names(m3) /\ m2.free = m3.free
            /\ \A w \in Nat : VirtPage(w) # VirtPage(v) => SameWalk(m3, m2, w)
            /\ \A w \in Nat : VirtPage(w) = VirtPage(v) =>
                 /\ find_physaddr(m2, w) = page * PAGE_SIZE + (w % PAGE_SIZE)
                 /\ ~InLargePage(m2, w)
        BY <3>1, <3>4, <3>5, <3>6, PageIsMapped
      <3>8. Kept(m, m2, lv3)
        BY <1>7, <2>7, <3>7 DEF Kept
      <3>9. \A w \in Nat : VirtPage(w) # VirtPage(v) => SameWalk(m, m2, w)
        BY <1>7, <2>7, <3>7 DEF SameWalk
      <3>10. MapsTo(m, m2, v, page)
        <4>1. ASSUME NEW w \in Nat, VirtPage(w) = VirtPage(v)
              PROVE  ~InLargePage(m, w)
          <5>1. ~InLargePage(m3, w)
            <6>1. /\ Index(w, 2) = Index(v, 2)
                  /\ Index(w, 3) = Index(v, 3) /\ Index(w, 4) = Index(v, 4)
              BY <4>1, PageHasItsIndices
            <6>2. E2(m3, w) = E2(m3, v)
              BY <6>1 DEF E2, E3, E4
            <6> QED BY <3>4, <6>2 DEF InLargePage, At1
          <5> QED BY <1>7, <2>7, <5>1 DEF SameWalk
        <4> QED BY <3>7, <4>1 DEF MapsTo
      <3> QED BY <1>1, <1>11, <3>8, <3>9, <3>10 DEF PageMapped
    <2> QED BY <2>5, <2>9, <2>10
  <1> QED BY <1>5, <1>8, <1>9, <1>10, <1>11

LargePageMapped(m, m2, phys, v, lv2) ==
  /\ Kept(m, m2, lv2)
  /\ \A u \in Names(m2) : lv2[u] > 1
  /\ \A w \in Nat :
       VirtPage(w) \div ENTRIES # VirtPage(v) \div ENTRIES => SameWalk(m, m2, w)
  /\ phys % PAGE_2M = 0 /\ v % PAGE_2M = 0 /\ m2.free # {} =>
       \A w \in Nat : VirtPage(w) \div ENTRIES = VirtPage(v) \div ENTRIES =>
         find_physaddr(m2, w) = (phys \div PAGE_SIZE) * PAGE_SIZE + (w % PAGE_2M)

LEMMA MapLargePage ==
  ASSUME NEW m, NEW lv, Tree(m, lv), \A u \in Names(m) : lv[u] > 1,
         NEW phys \in Nat, NEW v \in Nat, NEW m2, m2 = map_2mb_page(m, phys, v)
  PROVE  \E lv2 : LargePageMapped(m, m2, phys, v, lv2)
  <1>1. PICK page \in Nat : page = phys \div PAGE_SIZE
    BY PagingSizesAssumption, QuotientAndRest
  <1>2. PICK pd : pd = get_pd(m, v)
    OBVIOUS
  <1>3. m2 = IF phys % PAGE_2M # 0 \/ v % PAGE_2M # 0 THEN m
             ELSE IF ~pd.ok THEN pd.mem
             ELSE SetEntry(pd.mem, pd.table, Index(v, 2), Large(page))
    BY <1>1, <1>2 DEF map_2mb_page, Large
  <1>4. PICK ok1, m1, t1, lv1 :
          /\ pd = Result(ok1, m1, t1) /\ ok1 \in BOOLEAN
          /\ Grown(m, lv, m1, lv1)
          /\ \A u \in Names(m1) \ Names(m) : lv1[u] > 1
          /\ ok1 => At2(m1, v) /\ t1 = E3(m1, v).page
          /\ ~ok1 => m1.free = {}
    BY <1>2, GetPd
  <1>5. pd.ok = ok1 /\ pd.mem = m1 /\ pd.table = t1
    BY <1>4 DEF Result
  <1>6. /\ Tree(m1, lv1) /\ Kept(m, m1, lv1) /\ \A w \in Nat : SameWalk(m, m1, w)
        /\ \A u \in Names(m1) : lv1[u] > 1
    BY <1>4 DEF Grown, Kept
  <1>7. CASE phys % PAGE_2M # 0 \/ v % PAGE_2M # 0
    <2>1. m2 = m /\ Kept(m, m, lv) /\ \A w \in Nat : SameWalk(m, m, w)
      BY <1>3, <1>7 DEF Kept, SameWalk
    <2> QED BY <1>7, <2>1 DEF LargePageMapped
  <1>8. CASE ~(phys % PAGE_2M # 0 \/ v % PAGE_2M # 0) /\ ~ok1
    <2>1. m2 = m1
      BY <1>3, <1>5, <1>8
    <2> QED BY <1>4, <1>6, <1>8, <2>1 DEF LargePageMapped
  <1>9. CASE ~(phys % PAGE_2M # 0 \/ v % PAGE_2M # 0) /\ ok1
    <2>1. At2(m1, v) /\ m2 = SetEntry(m1, E3(m1, v).page, Index(v, 2), Large(page))
      BY <1>3, <1>4, <1>5, <1>9
    <2>2. /\ Tree(m2, lv1) /\ Names(m2) = Names(m1) /\ m2.free = m1.free
          /\ \A w \in Nat :
               VirtPage(w) \div ENTRIES # VirtPage(v) \div ENTRIES => SameWalk(m1, m2, w)
          /\ \A w \in Nat : VirtPage(w) \div ENTRIES = VirtPage(v) \div ENTRIES =>
               find_physaddr(m2, w) = page * PAGE_SIZE + (w % PAGE_2M)
      BY <1>6, <2>1, LargePageIsMapped
    <2>3. Kept(m, m2, lv1)
      BY <1>6, <2>2 DEF Kept
    <2>4. \A w \in Nat :
            VirtPage(w) \div ENTRIES # VirtPage(v) \div ENTRIES => SameWalk(m, m2, w)
      BY <1>6, <2>2 DEF SameWalk
    <2> QED BY <1>1, <1>6, <2>2, <2>3, <2>4 DEF LargePageMapped
  <1> QED BY <1>4, <1>7, <1>8, <1>9

-----------------------------------------------------------------------------
(* A tree in this sense is what TablesFormATree describes.                 *)

LEMMA LinkSet ==
  ASSUME NEW S
  PROVE  \A x : x \in Below(S) <=>
           \E t \in S, i \in Idx : IsLink(mem, t, i) /\ mem.tables[t][i].page = x
  BY DEF Below, Links, IsLink, Idx

LEMMA TreeIsATree ==
  ASSUME NEW lv, Tree(mem, lv), IsFiniteSet(Names(mem))
  PROVE  TablesFormATree
  <1>1. /\ PML4 \in Names(mem) /\ lv \in [Names(mem) -> 1 .. 4]
        /\ \A t \in Names(mem) : lv[t] = 4 <=> t = PML4
        /\ \A t \in Names(mem), i \in Idx :
             lv[t] > 1 /\ IsLink(mem, t, i)
               => /\ mem.tables[t][i].page \in Names(mem)
                  /\ lv[mem.tables[t][i].page] = lv[t] - 1
    BY DEF Tree, Levels
  <1>2. \A t \in Names(mem) : t # PML4 =>
          \E u \in Names(mem), i \in Idx :
            lv[u] > 1 /\ IsLink(mem, u, i) /\ mem.tables[u][i].page = t
    BY DEF Tree, Hangs
  <1> DEFINE T(n) == {t \in Names(mem) : lv[t] = n}
  <1>3. ASSUME NEW n \in 2 .. 4
        PROVE  Below(T(n)) = T(n - 1)
    <2>1. ASSUME NEW x \in Below(T(n))
          PROVE  x \in T(n - 1)
      BY <1>1, <2>1, LinkSet
    <2>2. ASSUME NEW x \in T(n - 1)
          PROVE  x \in Below(T(n))
      <3>1. x # PML4
        BY <1>1
      <3>2. PICK u \in Names(mem), i \in Idx :
              lv[u] > 1 /\ IsLink(mem, u, i) /\ mem.tables[u][i].page = x
        BY <1>2, <3>1
      <3>3. lv[u] - 1 = n - 1 /\ lv[u] \in 1 .. 4
        BY <1>1, <3>2
      <3>4. u \in T(n)
        BY <3>3
      <3> QED BY <3>2, <3>4, LinkSet
    <2> QED BY <2>1, <2>2
  <1>4. T(4) = {PML4}
    BY <1>1
  <1>5. Tables3 = T(3) /\ Tables2 = T(2) /\ Tables1 = T(1)
    <2>1. Below(T(4)) = T(3) /\ Below(T(3)) = T(2) /\ Below(T(2)) = T(1)
      BY <1>3
    <2> HIDE DEF T
    <2> QED BY <1>4, <2>1 DEF Tables3, Tables2, Tables1
  <1>6. Tables3 \cup Tables2 \cup Tables1 = Names(mem) \ {PML4}
    BY <1>1, <1>5
  <1> DEFINE Slots == UNION {{<<t, idx>> : idx \in Links(t)} : t \in {PML4} \cup Tables3 \cup Tables2}
             Others == Names(mem) \ {PML4}
             f == [x \in Slots |-> mem.tables[x[1]][x[2]].page]
  <1>7. \A x : x \in Slots <=>
           \E t \in Names(mem), i \in Idx : lv[t] > 1 /\ IsLink(mem, t, i) /\ x = <<t, i>>
    <2>1. \A t : t \in {PML4} \cup Tables3 \cup Tables2 <=> t \in Names(mem) /\ lv[t] > 1
      BY <1>1, <1>4, <1>5
    <2>2. \A t, i : i \in Links(t) <=> i \in Idx /\ IsLink(mem, t, i)
      BY DEF Links, IsLink, Idx
    <2>3. \A x : x \in Slots <=>
            \E t \in {PML4} \cup Tables3 \cup Tables2 : \E i \in Links(t) : x = <<t, i>>
      OBVIOUS
    <2> HIDE DEF Slots
    <2> QED BY <2>1, <2>2, <2>3
  <1>8. Cardinality(Names(mem)) - 1 = Cardinality(Slots)
    <2> HIDE DEF Slots, T
    <2>1. f \in [Slots -> Others]
      <3>1. ASSUME NEW x \in Slots
            PROVE  mem.tables[x[1]][x[2]].page \in Others
        <4>1. PICK t \in Names(mem), i \in Idx :
                lv[t] > 1 /\ IsLink(mem, t, i) /\ x = <<t, i>>
          BY <1>7
        <4>2. x[1] = t /\ x[2] = i
          BY <4>1
        <4> QED BY <1>1, <4>1, <4>2
      <3> QED BY <3>1
    <2>2. ASSUME NEW x \in Slots, NEW y \in Slots, f[x] = f[y]
          PROVE  x = y
      <3>1. PICK t \in Names(mem), i \in Idx :
              lv[t] > 1 /\ IsLink(mem, t, i) /\ x = <<t, i>>
        BY <1>7
      <3>2. PICK u \in Names(mem), j \in Idx :
              lv[u] > 1 /\ IsLink(mem, u, j) /\ y = <<u, j>>
        BY <1>7
      <3>3. mem.tables[t][i].page = mem.tables[u][j].page
        BY <2>2, <3>1, <3>2
      <3> QED BY <3>1, <3>2, <3>3 DEF Tree, Hangs
    <2>3. ASSUME NEW o \in Others
          PROVE  \E x \in Slots : f[x] = o
      <3>1. PICK u \in Names(mem), i \in Idx :
              lv[u] > 1 /\ IsLink(mem, u, i) /\ mem.tables[u][i].page = o
        BY <1>2
      <3>2. <<u, i>> \in Slots
        BY <1>7, <3>1
      <3> QED BY <3>1, <3>2
    <2>4. IsFiniteSet(Others) /\ Cardinality(Others) = Cardinality(Names(mem)) - 1
      BY <1>1, FS_RemoveElement
    <2> HIDE DEF f, Others
    <2>5. f \in Injection(Slots, Others) /\ f \in Surjection(Slots, Others)
      BY <2>1, <2>2, <2>3 DEF Injection, Surjection, IsInjective
    <2> QED BY <2>4, <2>5, FS_Injection
  <1>9. Below(Tables1) \cap (mem.free \cup (Names(mem) \ {PML4})) = {}
    <2>1. ASSUME NEW x \in Below(Tables1)
          PROVE  x \notin mem.free /\ (x \in Names(mem) => x = PML4)
      BY <1>5, <2>1, LinkSet DEF Tree, Apart, IsLink
    <2> QED BY <2>1
  <1>10. Names(mem) \cap mem.free = {}
    BY DEF Tree, Apart
  <1> HIDE DEF Slots
  <1>11. Cardinality(Names(mem)) - 1 =
           Cardinality(UNION {{<<t, idx>> : idx \in Links(t)} : t \in {PML4} \cup Tables3 \cup Tables2})
    BY <1>8 DEF Slots
  <1> QED BY <1>6, <1>9, <1>10, <1>11 DEF TablesFormATree, Names

-----------------------------------------------------------------------------
(* The heap's tables of address space                                      *)

Heap == kernel_heap .. (kernel_stack - 1)

AllocTables == [1 .. ALLOCATIONS -> mem_t]

FreeTables == [1 .. FREE_SPACES -> mem_t]

-----------------------------------------------------------------------------
(* Blocks of address space                                                 *)

LEMMA BytesMember ==
  ASSUME NEW block \in mem_t, NEW x
  PROVE  x \in Bytes(block) <=> x \in Nat /\ block.addr <= x /\ x < block.addr + block.size
  BY DEF mem_t, Bytes, End

LEMMA EmptyBlock ==
  /\ NoMem \in mem_t
  /\ Bytes(NoMem) = {}
  /\ \A block \in mem_t : block.size = 0 => Bytes(block) = {}
  BY DEF NoMem, mem_t, Bytes, End

(* Cutting a space splits its addresses in two.                            *)
LEMMA CutSplits ==
  ASSUME NEW space \in mem_t, NEW size \in Nat, size <= space.size,
         NEW block, block = [addr |-> space.addr, size |-> size],
         NEW rest, rest = [addr |-> space.addr + size, size |-> space.size - size]
  PROVE  /\ block \in mem_t /\ rest \in mem_t
         /\ Bytes(block) \cup Bytes(rest) = Bytes(space)
         /\ Bytes(block) \cap Bytes(rest) = {}
  <1>1. space.addr \in Nat /\ space.size \in Nat
    BY DEF mem_t
  <1>2. /\ block \in mem_t /\ block.addr = space.addr /\ block.size = size
        /\ rest \in mem_t /\ rest.addr = space.addr + size /\ rest.size = space.size - size
    BY <1>1 DEF mem_t
  <1>3. ASSUME NEW x
        PROVE  /\ x \in Bytes(block) \/ x \in Bytes(rest) <=> x \in Bytes(space)
               /\ ~(x \in Bytes(block) /\ x \in Bytes(rest))
    BY <1>1, <1>2, BytesMember
  <1> QED BY <1>2, <1>3

(* Two blocks that touch join to one with the addresses of both.           *)
LEMMA JoinCovers ==
  ASSUME NEW space \in mem_t, NEW block \in mem_t, Touches(space, block)
  PROVE  /\ Joined(space, block) \in mem_t
         /\ Bytes(Joined(space, block)) = Bytes(space) \cup Bytes(block)
  <1> DEFINE j == Joined(space, block)
  <1>1. /\ space.addr \in Nat /\ space.size \in Nat
        /\ block.addr \in Nat /\ block.size \in Nat
    BY DEF mem_t
  <1>2. /\ j.addr = IF block.addr + block.size = space.addr THEN block.addr ELSE space.addr
        /\ j.size = space.size + block.size
        /\ j \in mem_t
    BY <1>1 DEF Joined, End, mem_t
  <1>3. block.addr + block.size = space.addr \/ block.addr = space.addr + space.size
    BY DEF Touches, End
  <1> HIDE DEF j
  <1>4. ASSUME NEW x
        PROVE  x \in Bytes(j) <=> x \in Bytes(space) \/ x \in Bytes(block)
    BY <1>1, <1>2, <1>3, BytesMember
  <1>5. Bytes(j) = Bytes(space) \cup Bytes(block)
    BY <1>4
  <1> QED BY <1>2, <1>5 DEF j

-----------------------------------------------------------------------------
(* The two tables, for any contents                                        *)

OneHand(al, fs) ==
  /\ \A k, l \in 1 .. ALLOCATIONS : k # l => Bytes(al[k]) \cap Bytes(al[l]) = {}
  /\ \A k, l \in 1 .. FREE_SPACES : k # l => Bytes(fs[k]) \cap Bytes(fs[l]) = {}
  /\ \A k \in 1 .. ALLOCATIONS, l \in 1 .. FREE_SPACES : Bytes(al[k]) \cap Bytes(fs[l]) = {}
  /\ \A k \in 1 .. ALLOCATIONS : Bytes(al[k]) \subseteq Heap
  /\ \A k \in 1 .. FREE_SPACES : Bytes(fs[k]) \subseteq Heap

KnownIn(al, fs) ==
  (UNION {Bytes(al[k]) : k \in 1 .. ALLOCATIONS})
  \cup (UNION {Bytes(fs[k]) : k \in 1 .. FREE_SPACES})

(* A block that neither table holds                                        *)
Spare(al, fs, block) ==
  /\ block \in mem_t
  /\ Bytes(block) \subseteq Heap
  /\ Bytes(block) \cap KnownIn(al, fs) = {}

LEMMA InUnion ==
  ASSUME NEW S, NEW table, NEW x
  PROVE  x \in UNION {Bytes(table[k]) : k \in S} <=> \E k \in S : x \in Bytes(table[k])
  OBVIOUS

LEMMA KnownMember ==
  ASSUME NEW al, NEW fs, NEW x
  PROVE  x \in KnownIn(al, fs) <=> \/ \E k \in 1 .. ALLOCATIONS : x \in Bytes(al[k])
                                   \/ \E k \in 1 .. FREE_SPACES : x \in Bytes(fs[k])
  <1> DEFINE A == UNION {Bytes(al[k]) : k \in 1 .. ALLOCATIONS}
             F == UNION {Bytes(fs[k]) : k \in 1 .. FREE_SPACES}
  <1>1. x \in A <=> \E k \in 1 .. ALLOCATIONS : x \in Bytes(al[k])
    BY InUnion
  <1>2. x \in F <=> \E k \in 1 .. FREE_SPACES : x \in Bytes(fs[k])
    BY InUnion
  <1>3. KnownIn(al, fs) = A \cup F
    BY DEF KnownIn
  <1> HIDE DEF A, F
  <1> QED BY <1>1, <1>2, <1>3

(* The table after an assignment to one of its entries                     *)
Changed(table, k, entry) == [table EXCEPT ![k] = entry]

(* A spare block takes a slot of the allocations that has no addresses.    *)
LEMMA TakeSlot ==
  ASSUME NEW al \in AllocTables, NEW fs \in FreeTables, OneHand(al, fs),
         NEW block, Spare(al, fs, block),
         NEW k \in 1 .. ALLOCATIONS, Bytes(al[k]) = {},
         NEW al2, al2 = Changed(al, k, block)
  PROVE  /\ al2 \in AllocTables
         /\ OneHand(al2, fs)
         /\ KnownIn(al2, fs) = KnownIn(al, fs) \cup Bytes(block)
  <1>1. block \in mem_t /\ Bytes(block) \subseteq Heap
    BY DEF Spare
  <1>2. /\ al2 \in AllocTables /\ al2[k] = block
        /\ \A l \in 1 .. ALLOCATIONS : l # k => al2[l] = al[l]
    BY <1>1 DEF AllocTables, Changed
  <1>3. /\ \A l \in 1 .. ALLOCATIONS : Bytes(block) \cap Bytes(al[l]) = {}
        /\ \A l \in 1 .. FREE_SPACES : Bytes(block) \cap Bytes(fs[l]) = {}
    BY KnownMember DEF Spare
  <1>4. OneHand(al2, fs)
    BY <1>1, <1>2, <1>3 DEF OneHand
  <1>5. ASSUME NEW x
        PROVE  x \in KnownIn(al2, fs) <=> x \in KnownIn(al, fs) \/ x \in Bytes(block)
    <2>1. (\E l \in 1 .. ALLOCATIONS : x \in Bytes(al2[l]))
            <=> (\E l \in 1 .. ALLOCATIONS : x \in Bytes(al[l])) \/ x \in Bytes(block)
      BY <1>2
    <2> QED BY <2>1, KnownMember
  <1> QED BY <1>2, <1>4, <1>5

(* A slot that is cleared leaves its block spare.                          *)
LEMMA DropSlot ==
  ASSUME NEW al \in AllocTables, NEW fs \in FreeTables, OneHand(al, fs),
         NEW k \in 1 .. ALLOCATIONS, NEW al2, al2 = Changed(al, k, NoMem)
  PROVE  /\ al2 \in AllocTables
         /\ OneHand(al2, fs)
         /\ Spare(al2, fs, al[k])
         /\ KnownIn(al, fs) = KnownIn(al2, fs) \cup Bytes(al[k])
  <1>1. /\ al2 \in AllocTables /\ al2[k] = NoMem /\ Bytes(al2[k]) = {}
        /\ \A l \in 1 .. ALLOCATIONS : l # k => al2[l] = al[l]
    BY EmptyBlock DEF AllocTables, Changed
  <1>2. al[k] \in mem_t
    BY DEF AllocTables
  <1>3. OneHand(al2, fs)
    BY <1>1 DEF OneHand
  <1>4. ASSUME NEW x
        PROVE  /\ x \in KnownIn(al, fs) <=> x \in KnownIn(al2, fs) \/ x \in Bytes(al[k])
               /\ ~(x \in KnownIn(al2, fs) /\ x \in Bytes(al[k]))
    <2>1. (\E l \in 1 .. ALLOCATIONS : x \in Bytes(al[l]))
            <=> (\E l \in 1 .. ALLOCATIONS : x \in Bytes(al2[l])) \/ x \in Bytes(al[k])
      BY <1>1
    <2>2. /\ \A l \in 1 .. ALLOCATIONS : ~(x \in Bytes(al2[l]) /\ x \in Bytes(al[k]))
          /\ \A l \in 1 .. FREE_SPACES : ~(x \in Bytes(fs[l]) /\ x \in Bytes(al[k]))
      BY <1>1 DEF OneHand
    <2> QED BY <2>1, <2>2, KnownMember
  <1>5. Spare(al2, fs, al[k])
    BY <1>2, <1>4 DEF Spare, OneHand
  <1> QED BY <1>1, <1>3, <1>4, <1>5

(* A space that is cut leaves the block that was cut off spare.            *)
LEMMA CutLeavesSpare ==
  ASSUME NEW al \in AllocTables, NEW fs \in FreeTables, OneHand(al, fs),
         NEW k \in 1 .. FREE_SPACES, NEW size \in Nat, size <= fs[k].size,
         NEW block, block = [addr |-> fs[k].addr, size |-> size],
         NEW rest, rest = [addr |-> fs[k].addr + size, size |-> fs[k].size - size],
         NEW fs2, fs2 = Changed(fs, k, rest)
  PROVE  /\ fs2 \in FreeTables
         /\ OneHand(al, fs2)
         /\ Spare(al, fs2, block)
         /\ KnownIn(al, fs) = KnownIn(al, fs2) \cup Bytes(block)
  <1>1. fs[k] \in mem_t
    BY DEF FreeTables
  <1>2. /\ block \in mem_t /\ rest \in mem_t
        /\ Bytes(block) \cup Bytes(rest) = Bytes(fs[k])
        /\ Bytes(block) \cap Bytes(rest) = {}
    BY <1>1, CutSplits
  <1>3. /\ fs2 \in FreeTables /\ fs2[k] = rest
        /\ \A l \in 1 .. FREE_SPACES : l # k => fs2[l] = fs[l]
    BY <1>2 DEF FreeTables, Changed
  <1>4. OneHand(al, fs2)
    BY <1>2, <1>3 DEF OneHand
  <1>5. ASSUME NEW x
        PROVE  /\ x \in KnownIn(al, fs) <=> x \in KnownIn(al, fs2) \/ x \in Bytes(block)
               /\ ~(x \in KnownIn(al, fs2) /\ x \in Bytes(block))
    <2>1. (\E l \in 1 .. FREE_SPACES : x \in Bytes(fs[l]))
            <=> (\E l \in 1 .. FREE_SPACES : x \in Bytes(fs2[l])) \/ x \in Bytes(block)
      BY <1>2, <1>3
    <2>2. /\ \A l \in 1 .. ALLOCATIONS : ~(x \in Bytes(al[l]) /\ x \in Bytes(block))
          /\ \A l \in 1 .. FREE_SPACES : ~(x \in Bytes(fs2[l]) /\ x \in Bytes(block))
      BY <1>2, <1>3 DEF OneHand
    <2> QED BY <2>1, <2>2, KnownMember
  <1>6. Spare(al, fs2, block)
    BY <1>2, <1>5 DEF Spare, OneHand
  <1> QED BY <1>3, <1>4, <1>5, <1>6

(* A spare block is given to a free space, which it enlarges.              *)
LEMMA GiveSpace ==
  ASSUME NEW al \in AllocTables, NEW fs \in FreeTables, OneHand(al, fs),
         NEW block, Spare(al, fs, block),
         NEW k \in 1 .. FREE_SPACES, NEW space \in mem_t,
         Bytes(space) = Bytes(fs[k]) \cup Bytes(block),
         NEW fs2, fs2 = Changed(fs, k, space)
  PROVE  /\ fs2 \in FreeTables
         /\ OneHand(al, fs2)
         /\ KnownIn(al, fs2) = KnownIn(al, fs) \cup Bytes(block)
  <1>1. /\ fs2 \in FreeTables /\ fs2[k] = space
        /\ \A l \in 1 .. FREE_SPACES : l # k => fs2[l] = fs[l]
    BY DEF FreeTables, Changed
  <1>2. /\ Bytes(block) \subseteq Heap
        /\ \A l \in 1 .. ALLOCATIONS : Bytes(block) \cap Bytes(al[l]) = {}
        /\ \A l \in 1 .. FREE_SPACES : Bytes(block) \cap Bytes(fs[l]) = {}
    BY KnownMember DEF Spare
  <1>3. OneHand(al, fs2)
    BY <1>1, <1>2 DEF OneHand
  <1>4. ASSUME NEW x
        PROVE  x \in KnownIn(al, fs2) <=> x \in KnownIn(al, fs) \/ x \in Bytes(block)
    <2>1. (\E l \in 1 .. FREE_SPACES : x \in Bytes(fs2[l]))
            <=> (\E l \in 1 .. FREE_SPACES : x \in Bytes(fs[l])) \/ x \in Bytes(block)
      BY <1>1
    <2> QED BY <2>1, KnownMember
  <1> QED BY <1>1, <1>3, <1>4


-----------------------------------------------------------------------------
(* The inductive invariant: the tables keep their types, no address is in  *)
(* two hands, and until init_malloc() the tables are zero.                 *)
HeapInv ==
  /\ allocations \in AllocTables /\ freespace \in FreeTables
  /\ OneHand(allocations, freespace)
  /\ pc # "heap" => /\ \A k \in 1 .. ALLOCATIONS : allocations[k] = NoMem
                    /\ \A k \in 1 .. FREE_SPACES : freespace[k] = NoMem

(* What a step may do with the addresses the tables account for            *)
Accounted ==
  pc = "heap" =>
    \/ Known' = Known
    \/ /\ Known' \subseteq Known
       /\ \/ ret' = 0 /\ None(allocations, Unused) /\ allocations' = allocations
          \/ None(freespace, Unused) /\ freespace' = freespace

LEMMA KnownOfTables ==
  /\ Known = KnownIn(allocations, freespace)
  /\ Known' = KnownIn(allocations', freespace')
  BY DEF Known, KnownIn

LEMMA HeapStarts == Init => HeapInv
  <1> SUFFICES ASSUME Init
               PROVE  HeapInv
    OBVIOUS
  <1>1. /\ allocations \in AllocTables /\ freespace \in FreeTables
        /\ \A k \in 1 .. ALLOCATIONS : allocations[k] = NoMem
        /\ \A k \in 1 .. FREE_SPACES : freespace[k] = NoMem
    BY EmptyBlock DEF Init, AllocTables, FreeTables
  <1>2. OneHand(allocations, freespace)
    BY <1>1, EmptyBlock DEF OneHand
  <1> QED BY <1>1, <1>2 DEF HeapInv

LEMMA HeapStutters ==
  ASSUME HeapInv, UNCHANGED <<freespace, allocations>>, pc' = pc \/ pc' # "heap",
         pc = "heap" => pc' = "heap"
  PROVE  HeapInv' /\ Accounted
  <1>1. Known' = Known
    BY KnownOfTables
  <1>2. HeapInv'
    BY DEF HeapInv
  <1> QED BY <1>1, <1>2 DEF Accounted

LEMMA HeapBegins ==
  ASSUME HeapInv, init_malloc
  PROVE  HeapInv' /\ Accounted
  <1> DEFINE whole == [addr |-> kernel_heap, size |-> kernel_stack - kernel_heap]
  <1>1. whole \in mem_t /\ Bytes(whole) = Heap
    BY HeapAssumption DEF mem_t, Bytes, End, Heap
  <1>2. /\ pc = "up" /\ pc' = "heap" /\ allocations' = allocations
        /\ freespace' = [freespace EXCEPT ![1] = whole]
    BY DEF init_malloc
  <1> HIDE DEF whole
  <1>3. /\ freespace \in FreeTables /\ allocations \in AllocTables
        /\ \A k \in 1 .. ALLOCATIONS : Bytes(allocations[k]) = {}
        /\ \A k \in 1 .. FREE_SPACES : Bytes(freespace[k]) = {}
    BY <1>2, EmptyBlock DEF HeapInv
  <1>4. 1 \in 1 .. FREE_SPACES
    BY HeapAssumption
  <1>5. /\ freespace' \in FreeTables /\ freespace'[1] = whole
        /\ \A k \in 1 .. FREE_SPACES : k # 1 => Bytes(freespace'[k]) = {}
    BY <1>1, <1>2, <1>3, <1>4 DEF FreeTables
  <1>6. OneHand(allocations', freespace')
    BY <1>1, <1>2, <1>3, <1>5 DEF OneHand
  <1> QED BY <1>2, <1>3, <1>5, <1>6 DEF HeapInv, Accounted

-----------------------------------------------------------------------------
(* malloc()                                                                *)

LEMMA HeapAllocates ==
  ASSUME HeapInv, pc = "heap", pc' = "heap", NEW size \in Nat,
         NEW space \in 1 .. FREE_SPACES, size <= freespace[space].size,
         Allocate(space, size)
  PROVE  HeapInv' /\ Accounted
  <1> DEFINE block == [addr |-> freespace[space].addr, size |-> size]
             rest == [addr |-> freespace[space].addr + size,
                      size |-> freespace[space].size - size]
  <1>1. /\ allocations \in AllocTables /\ freespace \in FreeTables
        /\ OneHand(allocations, freespace)
    BY DEF HeapInv
  <1>2. freespace' = Changed(freespace, space, rest)
    BY <1>1 DEF Allocate, CutSpace, FreeTables, Changed
  <1>3. /\ freespace' \in FreeTables
        /\ OneHand(allocations, freespace')
        /\ Spare(allocations, freespace', block)
        /\ KnownIn(allocations, freespace) = KnownIn(allocations, freespace') \cup Bytes(block)
    BY <1>1, <1>2, CutLeavesSpare
  <1>4. CASE \E alloc \in 1 .. ALLOCATIONS :
               /\ Unused(allocations[alloc])
               /\ allocations' = Changed(allocations, alloc, block)
    <2>1. PICK alloc \in 1 .. ALLOCATIONS :
                 /\ Unused(allocations[alloc])
                 /\ allocations' = Changed(allocations, alloc, block)
      BY <1>4
    <2> HIDE DEF block
    <2>2. Bytes(allocations[alloc]) = {}
      BY <1>1, <2>1, EmptyBlock DEF Unused, AllocTables
    <2>3. /\ allocations' \in AllocTables
          /\ OneHand(allocations', freespace')
          /\ KnownIn(allocations', freespace')
               = KnownIn(allocations, freespace') \cup Bytes(block)
      BY <1>1, <1>3, <2>1, <2>2, TakeSlot
    <2> QED BY <1>3, <2>3, KnownOfTables DEF HeapInv, Accounted
  <1>5. CASE None(allocations, Unused) /\ ret' = 0 /\ allocations' = allocations
    <2>1. HeapInv'
      BY <1>1, <1>3, <1>5 DEF HeapInv
    <2>2. Known' \subseteq Known
      BY <1>3, <1>5, KnownOfTables
    <2> QED BY <1>5, <2>1, <2>2 DEF Accounted
  <1> QED BY <1>4, <1>5 DEF Allocate, IsFirst, Changed

LEMMA HeapMallocs ==
  ASSUME HeapInv, NEW size \in Sizes, malloc(size)
  PROVE  HeapInv' /\ Accounted
  <1>1. size \in Nat /\ pc = "heap" /\ pc' = "heap"
    BY HeapAssumption DEF malloc
  <1>2. CASE UNCHANGED <<freespace, allocations, mem>>
    BY <1>1, <1>2, HeapStutters
  <1>3. CASE \E space \in 1 .. FREE_SPACES :
               freespace[space].size >= size /\ Allocate(space, size)
    <2>1. PICK space \in 1 .. FREE_SPACES :
                 freespace[space].size >= size /\ Allocate(space, size)
      BY <1>3
    <2>2. freespace[space].size \in Nat
      BY DEF HeapInv, FreeTables, mem_t
    <2> QED BY <1>1, <2>1, <2>2, HeapAllocates
  <1> QED BY <1>2, <1>3 DEF malloc, IsFirst

-----------------------------------------------------------------------------
(* free()                                                                  *)

(* A block that is spare goes back into the table of free spaces, or there *)
(* is no unused slot for it and it is lost.                                *)
LEMMA SpaceReturns ==
  ASSUME NEW al \in AllocTables, freespace \in FreeTables, OneHand(al, freespace),
         NEW block, Spare(al, freespace, block), ReturnSpace(block)
  PROVE  /\ freespace' \in FreeTables
         /\ OneHand(al, freespace')
         /\ KnownIn(al, freespace') = KnownIn(al, freespace) \cup Bytes(block)
  <1>1. block \in mem_t
    BY DEF Spare
  <1>2. CASE \E k \in 1 .. FREE_SPACES :
               /\ Touches(freespace[k], block)
               /\ freespace' = [freespace EXCEPT ![k] = Joined(@, block)]
    <2>1. PICK k \in 1 .. FREE_SPACES :
                 /\ Touches(freespace[k], block)
                 /\ freespace' = [freespace EXCEPT ![k] = Joined(@, block)]
      BY <1>2
    <2>2. freespace[k] \in mem_t
      BY DEF FreeTables
    <2>3. /\ Joined(freespace[k], block) \in mem_t
          /\ Bytes(Joined(freespace[k], block)) = Bytes(freespace[k]) \cup Bytes(block)
      BY <1>1, <2>1, <2>2, JoinCovers
    <2>4. freespace' = Changed(freespace, k, Joined(freespace[k], block))
      BY <2>1 DEF FreeTables, Changed
    <2> QED BY <2>3, <2>4, GiveSpace
  <1>3. CASE \E k \in 1 .. FREE_SPACES :
               Unused(freespace[k]) /\ freespace' = Changed(freespace, k, block)
    <2>1. PICK k \in 1 .. FREE_SPACES :
                 Unused(freespace[k]) /\ freespace' = Changed(freespace, k, block)
      BY <1>3
    <2>2. Bytes(freespace[k]) = {}
      BY <2>1, EmptyBlock DEF Unused, FreeTables
    <2>3. Bytes(block) = Bytes(freespace[k]) \cup Bytes(block)
      BY <2>2
    <2> QED BY <1>1, <2>1, <2>3, GiveSpace
  <1> QED BY <1>2, <1>3 DEF ReturnSpace, IsFirst, Changed

LEMMA HeapFrees ==
  ASSUME HeapInv, NEW addr, free(addr)
  PROVE  HeapInv' /\ Accounted
  <1>1. /\ allocations \in AllocTables /\ freespace \in FreeTables
        /\ OneHand(allocations, freespace)
        /\ pc = "heap" /\ pc' = "heap"
    BY DEF HeapInv, free
  <1>2. CASE UNCHANGED <<freespace, allocations, mem, freed>>
    BY <1>1, <1>2, HeapStutters
  <1>3. ASSUME NEW alloc \in 1 .. ALLOCATIONS,
               allocations' = Changed(allocations, alloc, NoMem)
        PROVE  /\ allocations' \in AllocTables
               /\ OneHand(allocations', freespace)
               /\ Spare(allocations', freespace, allocations[alloc])
               /\ Known = KnownIn(allocations', freespace) \cup Bytes(allocations[alloc])
    BY <1>1, <1>3, DropSlot, KnownOfTables
  <1>4. ASSUME NEW alloc \in 1 .. ALLOCATIONS,
               allocations' = Changed(allocations, alloc, NoMem),
               ReturnSpace(allocations[alloc])
        PROVE  HeapInv' /\ Accounted
    <2>1. /\ freespace' \in FreeTables
          /\ OneHand(allocations', freespace')
          /\ KnownIn(allocations', freespace')
               = KnownIn(allocations', freespace) \cup Bytes(allocations[alloc])
      BY <1>1, <1>3, <1>4, SpaceReturns
    <2> QED BY <1>1, <1>3, <1>4, <2>1, KnownOfTables DEF HeapInv, Accounted
  <1>5. ASSUME NEW alloc \in 1 .. ALLOCATIONS,
               allocations' = Changed(allocations, alloc, NoMem),
               \A k \in DOMAIN freespace : ~Unused(freespace[k]),
               freespace' = freespace
        PROVE  HeapInv' /\ Accounted
    <2>1. HeapInv'
      BY <1>1, <1>3, <1>5 DEF HeapInv
    <2>2. Known' \subseteq Known
      BY <1>3, <1>5, KnownOfTables
    <2> QED BY <1>5, <2>1, <2>2 DEF Accounted, None
  <1>6. \/ UNCHANGED <<freespace, allocations, mem, freed>>
        \/ \E alloc \in 1 .. ALLOCATIONS :
             /\ allocations' = Changed(allocations, alloc, NoMem)
             /\ \/ ReturnSpace(allocations[alloc])
                \/ /\ \A k \in DOMAIN freespace : ~Unused(freespace[k])
                   /\ freespace' = freespace
    BY DEF free, None, IsFirst, Changed
  <1> QED BY <1>2, <1>4, <1>5, <1>6

-----------------------------------------------------------------------------
LEMMA HeapPreserved == HeapInv /\ [Next]_vars => HeapInv' /\ Accounted
  <1> SUFFICES ASSUME HeapInv, [Next]_vars
               PROVE  HeapInv' /\ Accounted
    OBVIOUS
  <1>1. CASE init_paging /\ UNCHANGED <<freespace, allocations, ret, freed>>
    <2>1. pc # "heap" /\ pc' # "heap"
      BY <1>1 DEF init_paging, MapIdentity, IdentityDone, MapKernel, KernelDone,
                  MapFramebuffer, FramebufferDone, NextLoop
    <2> QED BY <1>1, <2>1, HeapStutters
  <1>2. CASE init_malloc
    BY <1>2, HeapBegins
  <1>3. CASE \E size \in Sizes : malloc(size)
    BY <1>3, HeapMallocs
  <1>4. CASE \E addr \in FreedAddrs : free(addr)
    BY <1>4, HeapFrees
  <1>5. CASE UNCHANGED vars
    <2>1. UNCHANGED <<freespace, allocations, pc>>
      BY <1>5 DEF vars, pagingVars
    <2> QED BY <2>1, HeapStutters
  <1> QED BY <1>1, <1>2, <1>3, <1>4, <1>5 DEF Next, init_memory

(* malloc() and free() never have an address of the heap in two blocks, in *)
(* two free spaces or in use and free, nor an address outside the heap:    *)
(* whatever sizes are asked for, whatever addresses are freed, and however *)
(* often a table was full on the way.                                      *)
THEOREM NoAddressInTwoHands == Spec => []AddressesInOneHand
  <1>1. HeapInv => AddressesInOneHand
    BY DEF HeapInv, AddressesInOneHand, OneHand, Heap
  <1> QED BY <1>1, HeapStarts, HeapPreserved, PTL DEF Spec

(* A step of malloc() or free() that changes which addresses the tables    *)
(* account for loses some, and does so because a table was full.           *)
THEOREM OnlyFullTablesLoseSpace == Spec => SpaceLostOnlyWhenFull
  <1>1. Accounted =>
          (pc = "heap" /\ Known' # Known =>
             /\ Known' \subseteq Known
             /\ \/ ret' = 0 /\ None(allocations, Unused) /\ allocations' = allocations
                \/ None(freespace, Unused) /\ freespace' = freespace)
    BY DEF Accounted
  <1> QED BY <1>1, HeapStarts, HeapPreserved, PTL DEF Spec, SpaceLostOnlyWhenFull

-----------------------------------------------------------------------------
(* What is kept in every state, also when free() has given back a page     *)
(* that is still in use and the tables are no tree any more                *)

Managed(m, M) == m \in MemSet /\ m.free \subseteq M /\ Names(m) \subseteq M \cup {PML4}

ManagedResult(s, M) ==
  \E ok, m, t : s = Result(ok, m, t) /\ ok \in BOOLEAN /\ Managed(m, M)

LEMMA TableGotIsManaged ==
  ASSUME NEW M \in SUBSET Nat, NEW m, Managed(m, M), NEW ok \in BOOLEAN, NEW t, NEW i,
         NEW s, s = get_table(Result(ok, m, t), i)
  PROVE  ManagedResult(s, M)
  <1> DEFINE page == phys_page_alloc(m)
             grown == SetEntry(new_table(m, page), t, i, Link(page))
  <1>1. \/ s = Result(ok, m, t)
        \/ s = Result(ok, m, m.tables[t][i].page)
        \/ s = Result(FALSE, m, t)
        \/ page # 0 /\ s = Result(TRUE, grown, page)
    <2>1. PICK n : n = FALSE
      OBVIOUS
    <2>2. PICK x : x = m.tables[t][i].page
      OBVIOUS
    <2>3. PICK r : r = [ok |-> ok, mem |-> m, table |-> t]
      OBVIOUS
    <2>4. /\ [r EXCEPT !.table = x] = [ok |-> ok, mem |-> m, table |-> x]
          /\ [r EXCEPT !.ok = n] = [ok |-> n, mem |-> m, table |-> t]
          /\ r.ok = ok /\ r.mem = m /\ r.table = t
      BY <2>3
    <2>5. s = IF ~r.ok THEN r
              ELSE IF r.mem.tables[r.table][i].present
                THEN [r EXCEPT !.table = r.mem.tables[r.table][i].page]
              ELSE IF phys_page_alloc(r.mem) = 0 THEN [r EXCEPT !.ok = FALSE]
              ELSE Result(TRUE, SetEntry(new_table(r.mem, phys_page_alloc(r.mem)), r.table, i,
                                         Link(phys_page_alloc(r.mem))),
                          phys_page_alloc(r.mem))
      <3>1. s = get_table(r, i)
        BY <2>3 DEF Result
      <3> QED BY <3>1, Zenon DEF get_table, Result, Link
    <2>6. s = IF ~ok THEN r
              ELSE IF m.tables[t][i].present THEN [r EXCEPT !.table = x]
              ELSE IF page = 0 THEN [r EXCEPT !.ok = n]
              ELSE Result(TRUE, grown, page)
      BY <2>1, <2>2, <2>4, <2>5
    <2> HIDE DEF page, grown
    <2>7. \/ s = r
          \/ s = [r EXCEPT !.table = x]
          \/ s = [r EXCEPT !.ok = n]
          \/ page # 0 /\ s = Result(TRUE, grown, page)
      BY <2>6
    <2> QED BY <2>1, <2>2, <2>3, <2>4, <2>7 DEF Result
  <1>2. page # 0 => page \in m.free /\ page \in Nat
    BY PageIsAllocated DEF Managed
  <1>3. ASSUME page # 0
        PROVE  Managed(grown, M)
    <2>1. PICK c : c = new_table(m, page)
      OBVIOUS
    <2>2. c \in MemSet /\ c.free = m.free \ {page} /\ Names(c) = Names(m) \cup {page}
      BY <1>2, <1>3, <2>1, TableIsMade DEF Managed
    <2>3. PICK m2 : m2 = grown
      OBVIOUS
    <2>4. Link(page) \in Entry
      BY <1>2, <1>3, EntryTypes
    <2>5. m2 = SetEntry(c, t, i, Link(page))
      BY <2>1, <2>3
    <2>6. m2 \in MemSet /\ m2.free = c.free /\ Names(m2) = Names(c)
      BY <2>2, <2>4, <2>5, EntryIsSet
    <2> HIDE DEF grown, page
    <2> QED BY <1>2, <1>3, <2>2, <2>3, <2>6 DEF Managed
  <1> HIDE DEF grown, page
  <1> QED BY <1>1, <1>3, Zenon DEF ManagedResult

LEMMA PdIsManaged ==
  ASSUME NEW M \in SUBSET Nat, NEW m, Managed(m, M), NEW v, NEW s, s = get_pd(m, v)
  PROVE  ManagedResult(s, M)
  <1>1. PICK s1 : s1 = get_table(Result(TRUE, m, PML4), Index(v, 4))
    OBVIOUS
  <1>2. s = get_table(s1, Index(v, 3))
    BY <1>1 DEF get_pd, Result
  <1>3. ManagedResult(s1, M)
    BY <1>1, TableGotIsManaged
  <1>4. PICK ok, m1, t : s1 = Result(ok, m1, t) /\ ok \in BOOLEAN /\ Managed(m1, M)
    BY <1>3, Zenon DEF ManagedResult
  <1> QED BY <1>2, <1>4, TableGotIsManaged

LEMMA SettingIsManaged ==
  ASSUME NEW M \in SUBSET Nat, NEW m, Managed(m, M), NEW t, NEW i, NEW e \in Entry
  PROVE  Managed(SetEntry(m, t, i, e), M)
  <1>1. PICK m2 : m2 = SetEntry(m, t, i, e)
    OBVIOUS
  <1>2. m2 \in MemSet /\ m2.free = m.free /\ Names(m2) = Names(m)
    BY <1>1, EntryIsSet DEF Managed
  <1> QED BY <1>1, <1>2 DEF Managed

LEMMA MappingIsManaged ==
  ASSUME NEW M \in SUBSET Nat, NEW m, Managed(m, M), NEW phys \in Nat, NEW v
  PROVE  Managed(map_page(m, phys, v), M) /\ Managed(map_2mb_page(m, phys, v), M)
  <1>1. PICK page \in Nat : page = phys \div PAGE_SIZE
    BY PagingSizesAssumption, QuotientAndRest
  <1>2. PICK pd : pd = get_pd(m, v)
    OBVIOUS
  <1>3. PICK pt : pt = get_table(pd, Index(v, 2))
    OBVIOUS
  <1>4. ManagedResult(pd, M)
    BY <1>2, PdIsManaged
  <1>5. PICK ok, m1, t : pd = Result(ok, m1, t) /\ ok \in BOOLEAN /\ Managed(m1, M)
    BY <1>4, Zenon DEF ManagedResult
  <1>6. ManagedResult(pt, M)
    BY <1>3, <1>5, TableGotIsManaged
  <1>7. PICK ok2, m2, t2 : pt = Result(ok2, m2, t2) /\ ok2 \in BOOLEAN /\ Managed(m2, M)
    BY <1>6, Zenon DEF ManagedResult
  <1>8. pd.mem = m1 /\ pt.mem = m2
    BY <1>5, <1>7 DEF Result
  <1>9. Link(page) \in Entry /\ Large(page) \in Entry
    BY EntryTypes
  <1>10. Managed(map_2mb_page(m, phys, v), M)
    <2>1. \/ map_2mb_page(m, phys, v) = m
          \/ map_2mb_page(m, phys, v) = m1
          \/ map_2mb_page(m, phys, v) = SetEntry(m1, pd.table, Index(v, 2), Large(page))
      BY <1>1, <1>2, <1>8 DEF map_2mb_page, Large
    <2>2. Managed(SetEntry(m1, pd.table, Index(v, 2), Large(page)), M)
      BY <1>5, <1>9, SettingIsManaged
    <2> QED BY <1>5, <2>1, <2>2
  <1>11. Managed(map_page(m, phys, v), M)
    <2>1. \/ map_page(m, phys, v) = m
          \/ map_page(m, phys, v) = m1
          \/ map_page(m, phys, v) = m2
          \/ map_page(m, phys, v) = SetEntry(m2, pt.table, Index(v, 1), Link(page))
      BY <1>1, <1>2, <1>3, <1>8 DEF map_page, Link
    <2>2. Managed(SetEntry(m2, pt.table, Index(v, 1), Link(page)), M)
      BY <1>7, <1>9, SettingIsManaged
    <2> QED BY <1>5, <1>7, <2>1, <2>2
  <1> QED BY <1>10, <1>11

LEMMA MapIfMissingIsManaged ==
  ASSUME NEW M \in SUBSET Nat, NEW m, Managed(m, M), NEW virt
  PROVE  Managed(MapIfMissing(m, virt), M)
  <1>1. PICK page \in Nat : page = phys_page_alloc(m)
    BY PageIsAllocated DEF Managed
  <1>2. PICK m1 : m1 = Without(m, page)
    OBVIOUS
  <1>3. Managed(m1, M)
    <2>1. m1 \in MemSet /\ m1.free = m.free \ {page} /\ m1.tables = m.tables
      BY <1>2, PageIsTaken DEF Managed
    <2> QED BY <2>1 DEF Managed, Names
  <1>4. page * PAGE_SIZE \in Nat
    BY PagingSizesAssumption
  <1>5. Managed(map_page(m1, page * PAGE_SIZE, virt), M)
    BY <1>3, <1>4, MappingIsManaged
  <1>6. MapIfMissing(m, virt) = m \/ MapIfMissing(m, virt) = map_page(m1, page * PAGE_SIZE, virt)
    BY <1>1, <1>2 DEF MapIfMissing
  <1> QED BY <1>5, <1>6

-----------------------------------------------------------------------------
(* The pages of the heap and of a block                                    *)

LEMMA DivisionKeepsOrder ==
  ASSUME NEW a \in Nat, NEW b \in Nat, a <= b, NEW d \in Nat \ {0}
  PROVE  a \div d <= b \div d
  <1>1. PICK p \in Nat, r \in Nat : p = a \div d /\ r = a % d /\ r < d /\ a = d * p + r
    BY QuotientAndRest
  <1>2. PICK q \in Nat, s \in Nat : q = b \div d /\ s = b % d /\ s < d /\ b = d * q + s
    BY QuotientAndRest
  <1>3. ASSUME p > q
        PROVE  FALSE
    <2>1. d * p >= d * (q + 1)
      BY <1>3
    <2>2. d * (q + 1) = d * q + d
      OBVIOUS
    <2> QED BY <1>1, <1>2, <2>1, <2>2
  <1> QED BY <1>1, <1>2, <1>3

LEMMA PageOfAddress ==
  ASSUME NEW a \in Nat
  PROVE  /\ PageOf(a) \in Nat /\ a = PageOf(a) * PAGE_SIZE + (a % PAGE_SIZE)
         /\ a % PAGE_SIZE \in Nat /\ a % PAGE_SIZE < PAGE_SIZE
         /\ PageOf(a) \in VIRT_PAGES => VirtPage(a) = PageOf(a)
  <1>1. PAGE_SIZE \in Nat \ {0} /\ ENTRIES \in Nat \ {0}
    BY PagingSizesAssumption
  <1>2. PICK q \in Nat, r \in Nat :
          q = a \div PAGE_SIZE /\ r = a % PAGE_SIZE /\ r < PAGE_SIZE /\ a = PAGE_SIZE * q + r
    BY <1>1, QuotientAndRest
  <1>3. ASSUME q \in VIRT_PAGES
        PROVE  VirtPage(a) = q
    <2>1. PICK n \in Nat \ {0} : n = ENTRIES * ENTRIES * ENTRIES * ENTRIES /\ q < n
      BY <1>1, <1>3 DEF VIRT_PAGES
    <2>2. q = n * 0 + q
      BY <2>1
    <2>3. q % n = q
      BY <1>2, <2>1, <2>2, QuotientIsUnique
    <2> QED BY <1>2, <2>1, <2>3 DEF VirtPage
  <1>4. a = q * PAGE_SIZE + r
    BY <1>1, <1>2
  <1> QED BY <1>2, <1>3, <1>4 DEF PageOf

(* A sum whose rest stays within a page                                    *)
LEMMA PageOfSum ==
  ASSUME NEW a \in Nat, NEW k \in Nat
  PROVE  PageOf(a + k * PAGE_SIZE) = PageOf(a) + k /\ a + k * PAGE_SIZE \in Nat
  <1>1. PAGE_SIZE \in Nat \ {0}
    BY PagingSizesAssumption
  <1>2. PICK q \in Nat, r \in Nat :
          q = a \div PAGE_SIZE /\ r = a % PAGE_SIZE /\ r < PAGE_SIZE /\ a = PAGE_SIZE * q + r
    BY <1>1, QuotientAndRest
  <1>3. PICK b \in Nat : b = a + k * PAGE_SIZE
    BY <1>1
  <1>4. PICK s \in Nat : s = q + k
    OBVIOUS
  <1>5. b = PAGE_SIZE * s + r
    BY <1>1, <1>2, <1>3, <1>4
  <1>6. b \div PAGE_SIZE = s
    BY <1>1, <1>2, <1>5, QuotientIsUnique
  <1> QED BY <1>2, <1>3, <1>4, <1>6 DEF PageOf

LEMMA TouchedPages ==
  ASSUME NEW addr \in Nat, NEW size \in Nat \ {0}, NEW n, n = PagesTouched(addr, size)
  PROVE  /\ n \in Nat \ {0}
         /\ PageOf(addr + size - 1) = PageOf(addr) + n - 1
         /\ \A k \in 1 .. n : /\ PageAddrs(addr, size)[k] = addr + (k - 1) * PAGE_SIZE
                              /\ PageAddrs(addr, size)[k] \in Nat
                              /\ PageOf(PageAddrs(addr, size)[k]) = PageOf(addr) + k - 1
  <1>1. PAGE_SIZE \in Nat \ {0}
    BY PagingSizesAssumption
  <1>2. PICK last \in Nat : last = addr + size - 1 /\ addr <= last
    OBVIOUS
  <1>3. PICK p \in Nat, q \in Nat : p = PageOf(addr) /\ q = PageOf(last) /\ p <= q
    BY <1>1, <1>2, PageOfAddress, DivisionKeepsOrder DEF PageOf
  <1>4. PageOf(last + 1 * PAGE_SIZE) = q + 1
    BY <1>3, PageOfSum
  <1>5. addr + size + PAGE_SIZE - 1 = last + 1 * PAGE_SIZE
    BY <1>1, <1>2
  <1>6. n = q + 1 - p
    BY <1>3, <1>4, <1>5 DEF PagesTouched, PageOf
  <1>7. ASSUME NEW k \in 1 .. n
        PROVE  /\ PageAddrs(addr, size)[k] = addr + (k - 1) * PAGE_SIZE
               /\ addr + (k - 1) * PAGE_SIZE \in Nat
               /\ PageOf(addr + (k - 1) * PAGE_SIZE) = p + (k - 1)
    <2>1. k - 1 \in Nat
      BY <1>3, <1>6
    <2>2. PageAddrs(addr, size)[k] = addr + (k - 1) * PAGE_SIZE
      BY DEF PageAddrs
    <2> QED BY <1>3, <2>1, <2>2, PageOfSum
  <1> QED BY <1>2, <1>3, <1>6, <1>7

LEMMA HeapIsOnItsPages ==
  ASSUME NEW a \in Heap
  PROVE  a \in Nat /\ PageOf(a) \in HeapPages
  <1>1. /\ kernel_heap \in Nat /\ kernel_stack \in Nat /\ kernel_heap < kernel_stack
        /\ PAGE_SIZE \in Nat \ {0}
    BY HeapAssumption, PagingSizesAssumption
  <1>2. a \in Nat /\ kernel_heap <= a /\ a <= kernel_stack - 1 /\ kernel_stack - 1 \in Nat
    BY <1>1 DEF Heap
  <1>3. PageOf(kernel_heap) <= PageOf(a) /\ PageOf(a) <= PageOf(kernel_stack - 1)
    BY <1>1, <1>2, DivisionKeepsOrder DEF PageOf
  <1>4. PageOf(kernel_heap) \in Nat /\ PageOf(a) \in Nat /\ PageOf(kernel_stack - 1) \in Nat
    BY <1>1, <1>2, PageOfAddress
  <1> QED BY <1>2, <1>3, <1>4 DEF HeapPages

LEMMA BlockIsOnHeapPages ==
  ASSUME NEW block \in mem_t, block.size # 0, Bytes(block) \subseteq Heap
  PROVE  /\ block.addr \in Heap /\ End(block) - 1 \in Heap
         /\ VirtPagesOf(block) \subseteq HeapPages
         /\ PageOf(block.addr) \in Nat /\ LastPage(block) \in Nat
         /\ PageOf(block.addr) <= LastPage(block)
  <1>1. block.addr \in Nat /\ block.size \in Nat
    BY DEF mem_t
  <1>2. block.addr \in Bytes(block) /\ End(block) - 1 \in Bytes(block)
    BY <1>1 DEF Bytes, End
  <1>3. block.addr \in Heap /\ End(block) - 1 \in Heap
    BY <1>2
  <1>4. PICK p \in Nat, q \in Nat : p = PageOf(block.addr) /\ q = LastPage(block)
    BY <1>3, HeapIsOnItsPages, PageOfAddress DEF LastPage
  <1>5. p \in HeapPages /\ q \in HeapPages
    BY <1>3, <1>4, HeapIsOnItsPages DEF LastPage
  <1>6. \A v \in p .. q : v \in HeapPages
    <2>1. PageOf(kernel_heap) \in Nat /\ PageOf(kernel_stack - 1) \in Nat
      <3>1. kernel_heap \in Nat /\ kernel_stack - 1 \in Nat
        BY HeapAssumption
      <3> QED BY <3>1, PageOfAddress
    <2> QED BY <1>5, <2>1 DEF HeapPages
  <1>7. p <= q
    <2>1. block.addr <= End(block) - 1 /\ End(block) - 1 \in Nat /\ PAGE_SIZE \in Nat \ {0}
      BY <1>1, PagingSizesAssumption DEF End
    <2> QED BY <1>1, <1>4, <2>1, DivisionKeepsOrder DEF PageOf, LastPage
  <1> QED BY <1>3, <1>4, <1>6, <1>7 DEF VirtPagesOf

(* What the boot code maps one to one lies below the heap.                 *)
LEMMA LowMemoryIsBelowTheHeap ==
  ASSUME NEW offset0 \in Nat, offset0 < FIRST_4GB, NEW v \in HeapPages
  PROVE  /\ VirtPage(offset0) \div ENTRIES = offset0 \div PAGE_2M
         /\ v \div ENTRIES # VirtPage(offset0) \div ENTRIES
  <1>1. /\ PAGE_SIZE \in Nat \ {0} /\ ENTRIES \in Nat \ {0} /\ kernel_heap \in Nat
        /\ FIRST_4GB \in Nat /\ FIRST_4GB <= kernel_heap /\ kernel_heap < kernel_stack
        /\ kernel_stack \in Nat
    BY PagingSizesAssumption, HeapAssumption, HeapIsApartAssumption
  <1>2. PICK h \in Nat, p \in Nat : h = PageOf(kernel_heap) /\ p = PageOf(offset0) /\ p <= h
    <2>1. offset0 <= kernel_heap
      BY <1>1
    <2>2. PageOf(offset0) <= PageOf(kernel_heap)
      BY <1>1, <2>1, DivisionKeepsOrder DEF PageOf
    <2>3. PageOf(offset0) \in Nat /\ PageOf(kernel_heap) \in Nat
      BY <1>1, PageOfAddress
    <2> QED BY <2>2, <2>3
  <1>3. kernel_heap \in Heap
    BY <1>1 DEF Heap
  <1>4. h \in VIRT_PAGES
    BY <1>2, <1>3, HeapIsOnItsPages, HeapIsApartAssumption
  <1>5. p \in VIRT_PAGES
    <2>1. PICK n \in Int : n = ENTRIES * ENTRIES * ENTRIES * ENTRIES - 1
      BY <1>1
    <2>2. VIRT_PAGES = 0 .. n
      BY <2>1 DEF VIRT_PAGES
    <2> QED BY <1>2, <1>4, <2>2
  <1>6. VirtPage(offset0) = p
    BY <1>2, <1>5, PageOfAddress
  <1>7. ASSUME NEW a \in Nat
        PROVE  a \div PAGE_2M = (a \div PAGE_SIZE) \div ENTRIES
    BY <1>1, DivideTwice DEF PAGE_2M
  <1>8. VirtPage(offset0) \div ENTRIES = offset0 \div PAGE_2M
    BY <1>2, <1>6, <1>7 DEF PageOf
  <1>9. PICK d \in Nat \ {0} : d = PAGE_2M
    BY <1>1 DEF PAGE_2M
  <1>10. PICK t \in Nat, r \in Nat : t = FIRST_4GB \div d /\ r = FIRST_4GB % d /\ FIRST_4GB = d * t + r
    BY <1>1, QuotientAndRest
  <1>11. FIRST_4GB = d * t
    BY <1>9, <1>10, RegionsAreApartAssumption
  <1>12. offset0 \div d < t
    <2>1. PICK q \in Nat, s \in Nat : q = offset0 \div d /\ s = offset0 % d /\ offset0 = d * q + s
      BY QuotientAndRest
    <2>2. ASSUME q >= t
          PROVE  FALSE
      <3>1. d * q >= d * t
        BY <2>2
      <3> QED BY <1>11, <2>1, <3>1
    <2> QED BY <2>1, <2>2
  <1>13. v \in Nat /\ h <= v
    <2>1. kernel_stack - 1 \in Nat
      BY <1>1
    <2>2. PageOf(kernel_stack - 1) \in Nat
      BY <2>1, PageOfAddress
    <2> QED BY <1>2, <2>2 DEF HeapPages
  <1>14. t <= v \div ENTRIES
    <2>1. t <= kernel_heap \div d
      BY <1>1, <1>10, DivisionKeepsOrder
    <2>2. kernel_heap \div d = h \div ENTRIES
      BY <1>1, <1>2, <1>7, <1>9 DEF PageOf
    <2>3. h \div ENTRIES <= v \div ENTRIES
      BY <1>1, <1>13, DivisionKeepsOrder
    <2>4. h \div ENTRIES \in Nat /\ v \div ENTRIES \in Nat
      BY <1>1, <1>13, QuotientAndRest
    <2> QED BY <2>1, <2>2, <2>3, <2>4
  <1>15. v \div ENTRIES \in Nat /\ offset0 \div d \in Nat
    BY <1>1, <1>13, QuotientAndRest
  <1> QED BY <1>8, <1>9, <1>12, <1>14, <1>15

-----------------------------------------------------------------------------
(* The memory behind the heap                                              *)

Tr(m, v) == find_physaddr(m, v * PAGE_SIZE)

Backed(m, M) ==
  \A v \in HeapPages :
    /\ ~InLargePage(m, v * PAGE_SIZE)
    /\ Tr(m, v) # 0 =>
         /\ \E p \in M : Tr(m, v) = p * PAGE_SIZE /\ p \notin m.free /\ p \notin Names(m)
         /\ \A w \in HeapPages : v # w => Tr(m, w) # Tr(m, v)

HeapMapped(m, M) == Managed(m, M) /\ (\E lv : Tree(m, lv)) /\ Backed(m, M)

(* Only pages of P are translated anew, to pages that were free before.    *)
LocalTo(m, m2, P) ==
  /\ m2.free \subseteq m.free
  /\ \A w \in VIRT_PAGES :
       Tr(m2, w) # Tr(m, w) => w \in P /\ PageOf(Tr(m2, w)) \in m.free \ m2.free

LEMMA PhysAddress ==
  ASSUME NEW x \in Nat
  PROVE  /\ x * PAGE_SIZE \in Nat /\ (x * PAGE_SIZE) \div PAGE_SIZE = x
         /\ (x * PAGE_SIZE) % PAGE_SIZE = 0 /\ PageOf(x * PAGE_SIZE) = x
         /\ x * PAGE_SIZE = 0 <=> x = 0
  <1>1. PAGE_SIZE \in Nat \ {0}
    BY PagingSizesAssumption
  <1>2. PICK a \in Nat : a = x * PAGE_SIZE /\ a = PAGE_SIZE * x + 0
    BY <1>1
  <1>3. a \div PAGE_SIZE = x /\ a % PAGE_SIZE = 0
    BY <1>1, <1>2, QuotientIsUnique
  <1>4. x # 0 => x * PAGE_SIZE # 0
    <2>1. x >= 1 => x * PAGE_SIZE >= 1 * PAGE_SIZE
      BY <1>1
    <2> QED BY <1>1, <2>1
  <1>5. x = 0 => x * PAGE_SIZE = 0
    BY <1>1
  <1> QED BY <1>2, <1>3, <1>4, <1>5 DEF PageOf

LEMMA HeapPagesAreVirtual ==
  ASSUME NEW v \in HeapPages
  PROVE  v \in VIRT_PAGES /\ v \in Nat /\ v * PAGE_SIZE \in Nat /\ VirtPage(v * PAGE_SIZE) = v
         /\ (v * PAGE_SIZE) % PAGE_SIZE = 0
  <1>1. v \in VIRT_PAGES
    BY HeapIsApartAssumption
  <1> QED BY <1>1, PageAddress DEF VIRT_PAGES

(* The heap stays backed when at most one page of it is mapped, to a page  *)
(* that was free.                                                          *)
LEMMA BackedStays ==
  ASSUME NEW M \in SUBSET (Nat \ {0}), NEW m, Managed(m, M), Backed(m, M),
         NEW x \in Nat, x # 0 => x \in m.free,
         NEW m2, m2.free \subseteq m.free \ {x}, Names(m2) \subseteq Names(m) \cup (m.free \ {x}),
         x \notin Names(m) \/ x = 0,
         NEW v,
         \A w \in HeapPages : w # v =>
           Tr(m2, w) = Tr(m, w) /\ (InLargePage(m2, w * PAGE_SIZE) <=> InLargePage(m, w * PAGE_SIZE)),
         v \in HeapPages =>
           \/ Tr(m2, v) = Tr(m, v) /\ (InLargePage(m2, v * PAGE_SIZE) <=> InLargePage(m, v * PAGE_SIZE))
           \/ Tr(m2, v) = x * PAGE_SIZE /\ ~InLargePage(m2, v * PAGE_SIZE)
  PROVE  Backed(m2, M)
  <1>1. x # 0 => x \in M /\ x \notin m2.free /\ x \notin Names(m2)
    BY DEF Managed
  <1>2. \A w \in HeapPages : ~InLargePage(m2, w * PAGE_SIZE)
    BY DEF Backed
  <1>3. ASSUME NEW w \in HeapPages, Tr(m2, w) = Tr(m, w), Tr(m, w) # 0
        PROVE  /\ \E p \in M : Tr(m, w) = p * PAGE_SIZE /\ p \notin m2.free /\ p \notin Names(m2)
               /\ Tr(m, w) # x * PAGE_SIZE
    <2>1. PICK p \in M : Tr(m, w) = p * PAGE_SIZE /\ p \notin m.free /\ p \notin Names(m)
      BY <1>3 DEF Backed
    <2>2. p \notin m2.free /\ p \notin Names(m2)
      BY <2>1
    <2>3. p * PAGE_SIZE # x * PAGE_SIZE
      <3>1. p # x
        BY <2>1
      <3>2. PageOf(p * PAGE_SIZE) = p /\ PageOf(x * PAGE_SIZE) = x
        BY PhysAddress
      <3> QED BY <3>1, <3>2
    <2> QED BY <2>1, <2>2, <2>3
  <1>4. ASSUME NEW w \in HeapPages, Tr(m2, w) = x * PAGE_SIZE, Tr(m2, w) # 0
        PROVE  \E p \in M : Tr(m2, w) = p * PAGE_SIZE /\ p \notin m2.free /\ p \notin Names(m2)
    <2>1. x # 0
      BY <1>4, PhysAddress
    <2> QED BY <1>1, <1>4, <2>1
  <1>5. ASSUME NEW w \in HeapPages, Tr(m2, w) # 0
        PROVE  \E p \in M : Tr(m2, w) = p * PAGE_SIZE /\ p \notin m2.free /\ p \notin Names(m2)
    <2>1. Tr(m2, w) = Tr(m, w) \/ Tr(m2, w) = x * PAGE_SIZE
      OBVIOUS
    <2>2. CASE Tr(m2, w) = Tr(m, w)
      <3>1. Tr(m, w) # 0
        BY <1>5, <2>2
      <3> QED BY <1>3, <2>2, <3>1
    <2> QED BY <1>4, <1>5, <2>1, <2>2
  <1>6. ASSUME NEW w \in HeapPages, NEW u \in HeapPages, w # u, Tr(m2, w) # 0,
               Tr(m2, u) = Tr(m2, w)
        PROVE  FALSE
    <2>1. CASE Tr(m2, w) = Tr(m, w) /\ Tr(m2, u) = Tr(m, u)
      BY <1>6, <2>1 DEF Backed
    <2>2. CASE w = v /\ Tr(m2, w) = x * PAGE_SIZE
      <3>1. Tr(m2, u) = Tr(m, u) /\ Tr(m, u) # 0
        BY <1>6, <2>2
      <3>2. Tr(m, u) # x * PAGE_SIZE
        BY <1>3, <3>1
      <3> QED BY <1>6, <2>2, <3>1, <3>2
    <2>3. CASE u = v /\ Tr(m2, u) = x * PAGE_SIZE
      <3>1. Tr(m2, w) = Tr(m, w) /\ Tr(m, w) # 0
        BY <1>6, <2>3
      <3>2. Tr(m, w) # x * PAGE_SIZE
        BY <1>3, <3>1
      <3> QED BY <1>6, <2>3, <3>1, <3>2
    <2> QED BY <2>1, <2>2, <2>3
  <1> QED BY <1>2, <1>5, <1>6 DEF Backed

(* One round of malloc()'s mapping loop                                    *)
LEMMA MissingPageIsMapped ==
  ASSUME NEW M \in ManagedSets, NEW m, HeapMapped(m, M),
         NEW a \in Nat, NEW v \in HeapPages, v = PageOf(a),
         NEW m2, m2 = MapIfMissing(m, a)
  PROVE  /\ HeapMapped(m2, M)
         /\ LocalTo(m, m2, {v})
         /\ a % PAGE_SIZE = 0 /\ m2.free # {} => Tr(m2, v) # 0
  <1>1. M \in SUBSET (Nat \ {0}) /\ M \in SUBSET Nat
    BY ManagedSetsAssumption
  <1>2. Managed(m, M) /\ Backed(m, M) /\ m \in MemSet
    BY DEF HeapMapped, Managed
  <1>3. PICK lv : Tree(m, lv)
    BY DEF HeapMapped
  <1>4. PICK x \in Nat : /\ x = phys_page_alloc(m)
                         /\ m.free = {} => x = 0
                         /\ m.free # {} => x \in m.free
    BY <1>2, PageIsAllocated
  <1>5. /\ Names(m) \cap m.free = {} /\ 0 \notin m.free /\ PML4 \in Names(m)
    BY <1>3 DEF Tree, Apart, Levels
  <1>6. /\ VirtPage(a) = v /\ v \in VIRT_PAGES /\ VirtPage(v * PAGE_SIZE) = v
        /\ v * PAGE_SIZE \in Nat
        /\ a % PAGE_SIZE = 0 => a = v * PAGE_SIZE
    <2>1. v \in VIRT_PAGES /\ VirtPage(v * PAGE_SIZE) = v /\ v * PAGE_SIZE \in Nat
      BY HeapPagesAreVirtual
    <2>2. VirtPage(a) = v /\ a = v * PAGE_SIZE + (a % PAGE_SIZE)
      BY <2>1, PageOfAddress
    <2> QED BY <2>1, <2>2
  <1>7. CASE find_physaddr(m, a) # 0
    <2>1. m2 = m
      BY <1>7 DEF MapIfMissing
    <2>2. LocalTo(m, m2, {v})
      BY <2>1 DEF LocalTo
    <2>3. a % PAGE_SIZE = 0 => Tr(m, v) # 0
      BY <1>6, <1>7 DEF Tr
    <2> QED BY <2>1, <2>2, <2>3
  <1>8. CASE find_physaddr(m, a) = 0
    <2>1. PICK m1 : m1 = Without(m, x)
      OBVIOUS
    <2>2. /\ Tree(m1, lv) /\ Names(m1) = Names(m) /\ m1.free = m.free \ {x}
          /\ \A w \in Nat : SameWalk(m, m1, w)
      BY <1>3, <2>1, TakingKeepsTree DEF Grown
    <2>3. PICK phys \in Nat : phys = x * PAGE_SIZE
      BY PhysAddress
    <2>4. phys \div PAGE_SIZE = x /\ phys % PAGE_SIZE = 0
      BY <2>3, PhysAddress
    <2>5. m2 = map_page(m1, phys, a)
      BY <1>4, <1>8, <2>1, <2>3 DEF MapIfMissing
    <2>6. x \notin m1.free /\ (x \in Names(m1) => x = PML4)
      BY <1>4, <1>5, <2>2 DEF PML4
    <2>7. PICK lv2 : PageMapped(m1, m2, phys, a, lv2)
      BY <2>2, <2>4, <2>5, <2>6, MapPage
    <2>8. /\ Tree(m2, lv2) /\ m2.free \subseteq m.free \ {x}
          /\ Names(m2) \subseteq Names(m) \cup (m.free \ {x})
      BY <2>2, <2>7 DEF PageMapped, Kept
    <2>9. \A w \in VIRT_PAGES : w # v =>
            /\ Tr(m2, w) = Tr(m, w)
            /\ InLargePage(m2, w * PAGE_SIZE) <=> InLargePage(m, w * PAGE_SIZE)
      <3>1. ASSUME NEW w \in VIRT_PAGES, w # v
            PROVE  SameWalk(m, m1, w * PAGE_SIZE) /\ SameWalk(m1, m2, w * PAGE_SIZE)
        <4>1. w * PAGE_SIZE \in Nat /\ VirtPage(w * PAGE_SIZE) = w
          BY PageAddress
        <4> QED BY <1>6, <2>2, <2>7, <3>1, <4>1 DEF PageMapped
      <3> QED BY <3>1 DEF Tr, SameWalk
    <2>10. SameWalk(m, m1, v * PAGE_SIZE)
      BY <1>6, <2>2
    <2>11. ASSUME MapsTo(m1, m2, a, x)
           PROVE  Tr(m2, v) = x * PAGE_SIZE /\ ~InLargePage(m2, v * PAGE_SIZE)
      <3>1. (v * PAGE_SIZE) % PAGE_SIZE = 0
        BY HeapPagesAreVirtual
      <3>2. x * PAGE_SIZE + 0 = x * PAGE_SIZE
        BY <2>3
      <3> QED BY <1>6, <2>11, <3>1, <3>2 DEF MapsTo, Tr
    <2>12. \/ Tr(m2, v) = Tr(m, v) /\ (InLargePage(m2, v * PAGE_SIZE) <=> InLargePage(m, v * PAGE_SIZE))
           \/ /\ a = v * PAGE_SIZE
              /\ Tr(m2, v) = x * PAGE_SIZE /\ ~InLargePage(m2, v * PAGE_SIZE)
      <3>1. CASE \A w \in Nat : SameWalk(m1, m2, w)
        <4>1. SameWalk(m1, m2, v * PAGE_SIZE)
          BY <1>6, <3>1
        <4> QED BY <2>10, <4>1 DEF SameWalk, Tr
      <3>2. CASE a % PAGE_SIZE = 0 /\ MapsTo(m1, m2, a, x)
        BY <1>6, <2>11, <3>2
      <3> QED BY <2>4, <2>7, <3>1, <3>2 DEF PageMapped
    <2>13. x # 0 => x \in m.free
      BY <1>4
    <2>14. x \notin Names(m) \/ x = 0
      BY <1>5, <2>13
    <2>15. Backed(m2, M)
      <3>1. \A w \in HeapPages : w # v =>
              /\ Tr(m2, w) = Tr(m, w)
              /\ InLargePage(m2, w * PAGE_SIZE) <=> InLargePage(m, w * PAGE_SIZE)
        BY <2>9, HeapPagesAreVirtual
      <3>2. v \in HeapPages =>
              \/ Tr(m2, v) = Tr(m, v) /\ (InLargePage(m2, v * PAGE_SIZE) <=> InLargePage(m, v * PAGE_SIZE))
              \/ Tr(m2, v) = x * PAGE_SIZE /\ ~InLargePage(m2, v * PAGE_SIZE)
        BY <2>12
      <3> QED BY <1>1, <1>2, <2>8, <2>13, <2>14, <3>1, <3>2, BackedStays
    <2>16. Managed(m2, M)
      BY <1>1, <1>2, MapIfMissingIsManaged
    <2>17. LocalTo(m, m2, {v})
      <3>1. ASSUME Tr(m2, v) # Tr(m, v)
            PROVE  PageOf(Tr(m2, v)) \in m.free \ m2.free
        <4>1. a = v * PAGE_SIZE /\ Tr(m2, v) = x * PAGE_SIZE
          BY <2>12, <3>1
        <4>2. Tr(m, v) = 0
          BY <1>8, <4>1 DEF Tr
        <4>3. x # 0
          BY <3>1, <4>1, <4>2, PhysAddress
        <4>4. PageOf(Tr(m2, v)) = x
          BY <4>1, PhysAddress
        <4> QED BY <1>4, <2>8, <4>3, <4>4
      <3> QED BY <2>8, <2>9, <3>1 DEF LocalTo
    <2>18. ASSUME a % PAGE_SIZE = 0, m2.free # {}
           PROVE  Tr(m2, v) # 0
      <3>1. ~InLargePage(m1, a)
        <4>1. ~InLargePage(m, v * PAGE_SIZE)
          BY <1>2 DEF Backed
        <4> QED BY <1>6, <2>10, <2>18, <4>1 DEF SameWalk
      <3>2. MapsTo(m1, m2, a, x)
        BY <2>4, <2>7, <2>18, <3>1 DEF PageMapped
      <3>3. Tr(m2, v) = x * PAGE_SIZE
        BY <2>11, <3>2
      <3>4. x # 0
        BY <1>4, <1>5, <2>8, <2>18
      <3> QED BY <3>3, <3>4, PhysAddress
    <2> QED BY <2>8, <2>15, <2>16, <2>17, <2>18 DEF HeapMapped
  <1> QED BY <1>7, <1>8

-----------------------------------------------------------------------------
(* The loops of malloc() and free(): what every round passes on to the     *)
(* next one holds at their end.                                            *)

LEMMA MapPagesKeeps ==
  ASSUME NEW addr \in Nat, NEW size \in Nat \ {0}, NEW n, n = PagesTouched(addr, size),
         NEW U, NEW S, S[0] \subseteq U, mem \in S[0],
         \A m \in U, a \in Nat : MapIfMissing(m, a) \in U,
         \A k \in 1 .. n : S[k - 1] \subseteq U /\ \A m \in S[k - 1] :
           MapIfMissing(m, PageAddrs(addr, size)[k]) \in S[k]
  PROVE  MapPages(addr, size) \in S[n]
  <1> DEFINE A == PageAddrs(addr, size)
             after == CHOOSE f : f = [k \in 0 .. PagesTouched(addr, size) |->
                                        IF k = 0 THEN mem
                                        ELSE MapIfMissing(f[k - 1], PageAddrs(addr, size)[k])]
             step == [x \in U \X (1 .. n) |-> MapIfMissing(x[1], A[x[2]])]
  <1>1. n \in Nat \ {0} /\ \A k \in 1 .. n : A[k] \in Nat
    BY TouchedPages
  <1>2. MapPages(addr, size) = after[n]
    BY DEF MapPages
  <1> HIDE DEF A
  <1>3. step \in [U \X (1 .. n) -> U]
    BY <1>1
  <1>4. \A m \in U, k \in 1 .. n : step[<<m, k>>] = MapIfMissing(m, A[k])
    <2>1. ASSUME NEW m \in U, NEW k \in 1 .. n
          PROVE  step[<<m, k>>] = MapIfMissing(m, A[k])
      <3>1. <<m, k>> \in U \X (1 .. n) /\ <<m, k>>[1] = m /\ <<m, k>>[2] = k
        OBVIOUS
      <3> QED BY <3>1
    <2> QED BY <2>1
  <1>5. PICK g : Rounds(g, n, U, mem, step)
    <2>1. mem \in U /\ n \in Nat
      BY <1>1
    <2> HIDE DEF step
    <2> QED BY <1>3, <2>1, LoopHasValues
  <1> HIDE DEF step
  <1>6. g = [k \in 0 .. n |-> IF k = 0 THEN mem ELSE MapIfMissing(g[k - 1], A[k])]
    <2>1. g \in [0 .. n -> U] /\ g[0] = mem /\ \A k \in 1 .. n : g[k] = step[<<g[k - 1], k>>]
      BY <1>5 DEF Rounds
    <2>2. \A k \in 1 .. n : g[k - 1] \in U
      <3>1. \A k \in 1 .. n : k - 1 \in 0 .. n
        BY <1>1
      <3>2. \A k \in 0 .. n : g[k] \in U
        BY <2>1
      <3> QED BY <3>1, <3>2
    <2>3. \A k \in 1 .. n : g[k] = MapIfMissing(g[k - 1], A[k])
      BY <1>4, <2>1, <2>2
    <2>4. \A k \in 0 .. n : k # 0 => k \in 1 .. n
      BY <1>1
    <2> QED BY <2>1, <2>3, <2>4
  <1>7. after = [k \in 0 .. n |-> IF k = 0 THEN mem ELSE MapIfMissing(after[k - 1], A[k])]
    BY <1>6, Zenon DEF A
  <1> HIDE DEF after
  <1>8. after[0] = mem /\ \A k \in 1 .. n : after[k] = MapIfMissing(after[k - 1], A[k])
    <2>1. 0 \in 0 .. n /\ \A k \in 1 .. n : k \in 0 .. n /\ k # 0
      BY <1>1
    <2> QED BY <1>7, <2>1
  <1>9. \A k \in 1 .. n : after[k - 1] \in S[k - 1] => after[k] \in S[k]
    BY <1>8 DEF A
  <1>10. \A k \in 0 .. n : after[k] \in S[k]
    BY <1>1, <1>8, <1>9, LoopKeeps
  <1>11. after[n] \in S[n]
    BY <1>1, <1>10
  <1> QED BY <1>2, <1>11

LEMMA FreePagesKeeps ==
  ASSUME NEW addrs, NEW n \in Nat, n = Len(addrs), NEW S, mem \in S,
         \A k \in 1 .. n : \A m \in S :
           phys_page_free(m, find_physaddr(m, addrs[k])) \in S
  PROVE  FreePages(addrs) \in S
  <1> DEFINE after == CHOOSE f : f = [k \in 0 .. Len(addrs) |->
                                        IF k = 0 THEN mem
                                        ELSE phys_page_free(f[k - 1], find_physaddr(f[k - 1], addrs[k]))]
             step == [x \in S \X (1 .. n) |-> phys_page_free(x[1], find_physaddr(x[1], addrs[x[2]]))]
             T == [k \in 0 .. n |-> S]
  <1>1. FreePages(addrs) = after[n]
    BY DEF FreePages
  <1>2. step \in [S \X (1 .. n) -> S]
    OBVIOUS
  <1>3. \A m \in S, k \in 1 .. n : step[<<m, k>>] = phys_page_free(m, find_physaddr(m, addrs[k]))
    <2>1. ASSUME NEW m \in S, NEW k \in 1 .. n
          PROVE  step[<<m, k>>] = phys_page_free(m, find_physaddr(m, addrs[k]))
      <3>1. <<m, k>> \in S \X (1 .. n) /\ <<m, k>>[1] = m /\ <<m, k>>[2] = k
        OBVIOUS
      <3> QED BY <3>1
    <2> QED BY <2>1
  <1>4. PICK g : Rounds(g, n, S, mem, step)
    <2> HIDE DEF step
    <2> QED BY <1>2, LoopHasValues
  <1> HIDE DEF step
  <1>5. g = [k \in 0 .. n |-> IF k = 0 THEN mem
                              ELSE phys_page_free(g[k - 1], find_physaddr(g[k - 1], addrs[k]))]
    <2>1. g \in [0 .. n -> S] /\ g[0] = mem /\ \A k \in 1 .. n : g[k] = step[<<g[k - 1], k>>]
      BY <1>4 DEF Rounds
    <2>2. \A k \in 1 .. n : g[k - 1] \in S
      <3>1. \A k \in 1 .. n : k - 1 \in 0 .. n
        OBVIOUS
      <3>2. \A k \in 0 .. n : g[k] \in S
        BY <2>1
      <3> QED BY <3>1, <3>2
    <2>3. \A k \in 1 .. n : g[k] = phys_page_free(g[k - 1], find_physaddr(g[k - 1], addrs[k]))
      BY <1>3, <2>1, <2>2
    <2>4. \A k \in 0 .. n : k # 0 => k \in 1 .. n
      OBVIOUS
    <2> QED BY <2>1, <2>3, <2>4
  <1>6. after = [k \in 0 .. n |-> IF k = 0 THEN mem
                                  ELSE phys_page_free(after[k - 1], find_physaddr(after[k - 1], addrs[k]))]
    BY <1>5, Zenon
  <1> HIDE DEF after
  <1>7. /\ after[0] = mem
        /\ \A k \in 1 .. n : after[k] = phys_page_free(after[k - 1], find_physaddr(after[k - 1], addrs[k]))
    <2>1. 0 \in 0 .. n /\ \A k \in 1 .. n : k \in 0 .. n /\ k # 0
      OBVIOUS
    <2> QED BY <1>6, <2>1
  <1>8. T[0] = S /\ \A k \in 1 .. n : T[k - 1] = S /\ T[k] = S
    OBVIOUS
  <1> HIDE DEF T
  <1>9. \A k \in 0 .. n : after[k] \in T[k]
    <2>1. \A k \in 1 .. n : after[k - 1] \in T[k - 1] => after[k] \in T[k]
      BY <1>7, <1>8
    <2> QED BY <1>7, <1>8, <2>1, LoopKeeps
  <1>10. after[n] \in S
    <2>1. T[n] = S
      BY DEF T
    <2> QED BY <1>9, <2>1
  <1> QED BY <1>1, <1>10

-----------------------------------------------------------------------------
(* Boot: what init_paging() maps leaves the heap without memory.           *)

HeapUnmapped(m, M) == HeapMapped(m, M) /\ \A v \in HeapPages : Tr(m, v) = 0

LEMMA HeapStaysUnmapped ==
  ASSUME NEW M, NEW m, HeapUnmapped(m, M), NEW m2, Managed(m2, M), NEW lv, Tree(m2, lv),
         \A v \in HeapPages : SameWalk(m, m2, v * PAGE_SIZE)
  PROVE  HeapUnmapped(m2, M)
  <1>1. \A v \in HeapPages : Tr(m2, v) = 0 /\ ~InLargePage(m2, v * PAGE_SIZE)
    BY DEF HeapUnmapped, HeapMapped, Backed, SameWalk, Tr
  <1>2. Backed(m2, M)
    BY <1>1 DEF Backed
  <1> QED BY <1>1, <1>2 DEF HeapUnmapped, HeapMapped

LEMMA LowMemoryIsMapped ==
  ASSUME NEW M \in ManagedSets, NEW m, HeapUnmapped(m, M),
         NEW lv, Tree(m, lv), \A u \in Names(m) : lv[u] > 1,
         NEW o \in Nat, o < FIRST_4GB, NEW m2, m2 = map_2mb_page(m, o, o)
  PROVE  /\ HeapUnmapped(m2, M)
         /\ \E lv2 : LargePageMapped(m, m2, o, o, lv2)
         /\ \A v \in VIRT_PAGES : Tr(m2, v) # Tr(m, v) => v \div ENTRIES = o \div PAGE_2M
  <1>1. PICK lv2 : LargePageMapped(m, m2, o, o, lv2)
    BY MapLargePage
  <1>2. Managed(m2, M)
    BY ManagedSetsAssumption, MappingIsManaged DEF HeapUnmapped, HeapMapped
  <1>3. Tree(m2, lv2)
    BY <1>1 DEF LargePageMapped, Kept
  <1>4. ASSUME NEW v \in VIRT_PAGES, v \div ENTRIES # VirtPage(o) \div ENTRIES
        PROVE  SameWalk(m, m2, v * PAGE_SIZE)
    BY <1>1, <1>4, PageAddress DEF LargePageMapped
  <1>5. \A v \in HeapPages : SameWalk(m, m2, v * PAGE_SIZE)
    BY <1>4, LowMemoryIsBelowTheHeap, HeapPagesAreVirtual
  <1>6. HeapUnmapped(m2, M)
    BY <1>2, <1>3, <1>5, HeapStaysUnmapped
  <1>7. VirtPage(o) \div ENTRIES = o \div PAGE_2M
    <2>1. kernel_heap \in Heap
      BY HeapAssumption DEF Heap
    <2> QED BY <2>1, HeapIsOnItsPages, LowMemoryIsBelowTheHeap
  <1> QED BY <1>1, <1>4, <1>6, <1>7 DEF SameWalk, Tr

LEMMA ImagePageIsMapped ==
  ASSUME NEW M \in ManagedSets, NEW m, HeapUnmapped(m, M),
         NEW phys \in Nat, phys \div PAGE_SIZE \notin M,
         NEW v \in Nat, VirtPage(v) \notin HeapPages,
         NEW m2, m2 = map_page(m, phys, v)
  PROVE  /\ HeapUnmapped(m2, M)
         /\ \E lv2 : PageMapped(m, m2, phys, v, lv2)
         /\ \A w \in VIRT_PAGES : Tr(m2, w) # Tr(m, w) => w = VirtPage(v)
  <1>1. PICK lv : Tree(m, lv)
    BY DEF HeapUnmapped, HeapMapped
  <1>2. Managed(m, M)
    BY DEF HeapUnmapped, HeapMapped
  <1>3. phys \div PAGE_SIZE \notin m.free
        /\ (phys \div PAGE_SIZE \in Names(m) => phys \div PAGE_SIZE = PML4)
    BY <1>2 DEF Managed
  <1>4. PICK lv2 : PageMapped(m, m2, phys, v, lv2)
    BY <1>1, <1>3, MapPage
  <1>5. Managed(m2, M)
    BY <1>2, ManagedSetsAssumption, MappingIsManaged
  <1>6. Tree(m2, lv2)
    BY <1>4 DEF PageMapped, Kept
  <1>7. ASSUME NEW w \in VIRT_PAGES, w # VirtPage(v)
        PROVE  SameWalk(m, m2, w * PAGE_SIZE)
    BY <1>4, <1>7, PageAddress DEF PageMapped
  <1>8. \A w \in HeapPages : SameWalk(m, m2, w * PAGE_SIZE)
    BY <1>7, HeapPagesAreVirtual
  <1>9. HeapUnmapped(m2, M)
    BY <1>5, <1>6, <1>8, HeapStaysUnmapped
  <1> QED BY <1>4, <1>7, <1>9 DEF SameWalk, Tr

-----------------------------------------------------------------------------
(* malloc(): the loop maps pages of the block only.                        *)

LEMMA LocalTwice ==
  ASSUME NEW m, NEW m2, NEW m3, NEW P, LocalTo(m, m2, P),
         NEW v \in P, LocalTo(m2, m3, {v})
  PROVE  LocalTo(m, m3, P)
  <1>1. m3.free \subseteq m.free /\ m3.free \subseteq m2.free /\ m2.free \subseteq m.free
    BY DEF LocalTo
  <1>2. ASSUME NEW w \in VIRT_PAGES, Tr(m3, w) # Tr(m, w)
        PROVE  w \in P /\ PageOf(Tr(m3, w)) \in m.free \ m3.free
    <2>1. CASE Tr(m3, w) # Tr(m2, w)
      BY <1>1, <2>1 DEF LocalTo
    <2>2. CASE Tr(m3, w) = Tr(m2, w)
      BY <1>1, <1>2, <2>2 DEF LocalTo
    <2> QED BY <2>1, <2>2
  <1> QED BY <1>1, <1>2 DEF LocalTo

(* What is mapped stays mapped.                                            *)
LEMMA LocalKeeps ==
  ASSUME NEW M \in ManagedSets, NEW m, Managed(m, M), NEW m2, NEW P, LocalTo(m, m2, P),
         NEW v \in VIRT_PAGES, Tr(m, v) # 0
  PROVE  Tr(m2, v) # 0
  <1>1. SUFFICES ASSUME Tr(m2, v) = 0
                 PROVE  FALSE
    OBVIOUS
  <1>2. PageOf(0) = 0
    BY PhysAddress, PagingSizesAssumption, QuotientIsUnique DEF PageOf
  <1>3. 0 \notin M
    BY ManagedSetsAssumption
  <1> QED BY <1>1, <1>2, <1>3 DEF LocalTo, Managed

LEMMA BlockIsMapped ==
  ASSUME NEW M \in ManagedSets, HeapMapped(mem, M),
         NEW block \in mem_t, block.size # 0, Bytes(block) \subseteq Heap,
         NEW m2, m2 = MapPages(block.addr, block.size)
  PROVE  /\ HeapMapped(m2, M)
         /\ LocalTo(mem, m2, VirtPagesOf(block))
         /\ block.addr % PAGE_SIZE = 0 /\ m2.free # {} =>
              \A v \in VirtPagesOf(block) : Tr(m2, v) # 0
  <1> DEFINE addr == block.addr
             A == PageAddrs(block.addr, block.size)
             P == VirtPagesOf(block)
             U == {m \in MemSet : Managed(m, M)}
             S == [k \in Nat |-> {m \in U :
                     /\ HeapMapped(m, M)
                     /\ LocalTo(mem, m, P)
                     /\ addr % PAGE_SIZE = 0 /\ m.free # {} =>
                          \A j \in 1 .. k : Tr(m, PageOf(addr) + j - 1) # 0}]
  <1>1. addr \in Nat /\ block.size \in Nat \ {0} /\ addr + block.size - 1 = End(block) - 1
    BY DEF mem_t, End
  <1>2. PICK n \in Nat \ {0} : n = PagesTouched(block.addr, block.size)
    BY <1>1, TouchedPages
  <1>3. /\ LastPage(block) = PageOf(addr) + n - 1
        /\ \A k \in 1 .. n : /\ A[k] = addr + (k - 1) * PAGE_SIZE
                             /\ A[k] \in Nat
                             /\ PageOf(A[k]) = PageOf(addr) + k - 1
    <2>1. PICK a \in Nat, s \in Nat \ {0} : a = block.addr /\ s = block.size
      BY <1>1
    <2>2. n = PagesTouched(a, s)
      BY <1>2, <2>1
    <2>3. /\ PageOf(a + s - 1) = PageOf(a) + n - 1
          /\ \A k \in 1 .. n : /\ PageAddrs(a, s)[k] = a + (k - 1) * PAGE_SIZE
                               /\ PageAddrs(a, s)[k] \in Nat
                               /\ PageOf(PageAddrs(a, s)[k]) = PageOf(a) + k - 1
      BY <2>2, TouchedPages
    <2>4. LastPage(block) = PageOf(a + s - 1)
      BY <2>1 DEF LastPage, End
    <2> QED BY <2>1, <2>3, <2>4
  <1>4. PageOf(addr) \in Nat /\ P = PageOf(addr) .. LastPage(block) /\ P \subseteq HeapPages
    BY BlockIsOnHeapPages DEF VirtPagesOf
  <1> HIDE DEF A, P
  <1>5. \A m \in U : \A a \in Nat : MapIfMissing(m, a) \in U
    BY ManagedSetsAssumption, MapIfMissingIsManaged DEF Managed
  <1>6. mem \in S[0]
    <2>1. Managed(mem, M) /\ mem \in MemSet /\ LocalTo(mem, mem, P)
      BY DEF HeapMapped, Managed, LocalTo
    <2> QED BY <2>1
  <1>7. \A k \in Nat : S[k] \subseteq U
    OBVIOUS
  <1>8. ASSUME NEW k \in 1 .. n, NEW m \in S[k - 1]
        PROVE  MapIfMissing(m, A[k]) \in S[k]
    <2>1. /\ m \in U /\ HeapMapped(m, M) /\ LocalTo(mem, m, P)
          /\ addr % PAGE_SIZE = 0 /\ m.free # {} =>
               \A j \in 1 .. (k - 1) : Tr(m, PageOf(addr) + j - 1) # 0
      OBVIOUS
    <2>2. PICK v : v = PageOf(addr) + k - 1
      OBVIOUS
    <2>3. A[k] \in Nat /\ v = PageOf(A[k]) /\ v \in P /\ v \in HeapPages
      BY <1>3, <1>4, <2>2
    <2>4. PICK m3 : m3 = MapIfMissing(m, A[k])
      OBVIOUS
    <2>5. /\ HeapMapped(m3, M) /\ LocalTo(m, m3, {v})
          /\ A[k] % PAGE_SIZE = 0 /\ m3.free # {} => Tr(m3, v) # 0
      BY <2>1, <2>3, <2>4, MissingPageIsMapped
    <2>6. LocalTo(mem, m3, P)
      BY <2>1, <2>3, <2>5, LocalTwice
    <2>7. ASSUME addr % PAGE_SIZE = 0, m3.free # {}, NEW j \in 1 .. k
          PROVE  Tr(m3, PageOf(addr) + j - 1) # 0
      <3>1. CASE j = k
        <4>1. A[k] % PAGE_SIZE = 0
          <5>1. PICK q \in Nat : q = PageOf(addr) /\ addr = q * PAGE_SIZE
            <6>1. PageOf(addr) \in Nat /\ addr = PageOf(addr) * PAGE_SIZE + 0
              BY <1>1, <2>7, PageOfAddress
            <6>2. PageOf(addr) * PAGE_SIZE \in Nat
              BY <6>1, PhysAddress
            <6> QED BY <6>1, <6>2
          <5>2. PICK r \in Nat : r = q + (k - 1) /\ A[k] = r * PAGE_SIZE
            <6>1. q * PAGE_SIZE + (k - 1) * PAGE_SIZE = (q + (k - 1)) * PAGE_SIZE
              BY PagingSizesAssumption
            <6> QED BY <1>3, <5>1, <6>1
          <5> QED BY <5>2, PhysAddress
        <4> QED BY <2>2, <2>5, <2>7, <3>1, <4>1
      <3>2. CASE j # k
        <4>1. j \in 1 .. (k - 1) /\ m.free # {}
          BY <2>5, <2>7, <3>2 DEF LocalTo
        <4>2. Tr(m, PageOf(addr) + j - 1) # 0
          BY <2>1, <2>7, <4>1
        <4>3. PageOf(addr) + j - 1 \in VIRT_PAGES
          BY <1>2, <1>3, <1>4, HeapIsApartAssumption
        <4> QED BY <2>1, <2>5, <4>2, <4>3, LocalKeeps
      <3> QED BY <3>1, <3>2
    <2>8. m3 \in U
      BY <2>5 DEF HeapMapped, Managed
    <2>9. m3 \in S[k]
      BY <2>5, <2>6, <2>7, <2>8
    <2> QED BY <2>4, <2>9
  <1> HIDE DEF S, U
  <1>9. m2 \in S[n]
    <2>1. \A k \in 1 .. n : S[k - 1] \subseteq U
      BY <1>7
    <2> QED BY <1>1, <1>2, <1>5, <1>6, <1>7, <1>8, <2>1, MapPagesKeeps DEF A
  <1>10. /\ HeapMapped(m2, M) /\ LocalTo(mem, m2, P)
         /\ addr % PAGE_SIZE = 0 /\ m2.free # {} =>
              \A j \in 1 .. n : Tr(m2, PageOf(addr) + j - 1) # 0
    BY <1>9 DEF S
  <1>11. ASSUME NEW v \in P
         PROVE  \E j \in 1 .. n : v = PageOf(addr) + j - 1
    <2>1. PICK p \in Nat : p = PageOf(addr) /\ v \in p .. (p + n - 1)
      BY <1>3, <1>4
    <2>2. v - p + 1 \in 1 .. n /\ v = p + (v - p + 1) - 1
      BY <2>1
    <2> QED BY <2>1, <2>2
  <1> QED BY <1>10, <1>11 DEF P

-----------------------------------------------------------------------------
(* free(): it touches no table, and the pages it gives back are those      *)
(* behind the addresses it looks up.                                       *)

LEMMA PageIsFreed ==
  ASSUME managed \in SUBSET Nat, NEW m, Managed(m, managed), NEW addr,
         NEW m2, m2 = phys_page_free(m, addr)
  PROVE  /\ Managed(m2, managed) /\ m2.tables = m.tables /\ m.free \subseteq m2.free
         /\ \A p \in m2.free \ m.free :
              p \in managed /\ addr % PAGE_SIZE = 0 /\ p = addr \div PAGE_SIZE
  <1>1. /\ m.free \subseteq Nat /\ Names(m) \subseteq Nat
        /\ m.tables \in [Names(m) -> Rows]
        /\ m = [free |-> m.free, tables |-> m.tables]
    BY MemType DEF Managed
  <1>2. CASE addr % PAGE_SIZE = 0 /\ addr \div PAGE_SIZE \in managed
    <2>1. PICK p : p = addr \div PAGE_SIZE
      OBVIOUS
    <2>2. m2 = [free |-> m.free \cup {p}, tables |-> m.tables]
      BY <1>1, <1>2, <2>1 DEF phys_page_free
    <2>3. m.free \cup {p} \in SUBSET Nat /\ p \in managed
      BY <1>1, <1>2, <2>1
    <2>4. m2 \in MemSet /\ m2.free = m.free \cup {p} /\ m2.tables = m.tables /\ Names(m2) = Names(m)
      BY <1>1, <2>2, <2>3, IsMem
    <2> QED BY <1>2, <2>1, <2>3, <2>4 DEF Managed
  <1>3. CASE ~(addr % PAGE_SIZE = 0 /\ addr \div PAGE_SIZE \in managed)
    BY <1>3 DEF phys_page_free
  <1> QED BY <1>2, <1>3

LEMMA PagesAreFreed ==
  ASSUME managed \in SUBSET Nat, Managed(mem, managed),
         NEW addrs, Len(addrs) \in Nat, NEW m2, m2 = FreePages(addrs)
  PROVE  /\ Managed(m2, managed) /\ m2.tables = mem.tables /\ mem.free \subseteq m2.free
         /\ \A p \in m2.free \ mem.free :
              \E k \in 1 .. Len(addrs) :
                /\ p \in managed /\ p = find_physaddr(mem, addrs[k]) \div PAGE_SIZE
                /\ find_physaddr(mem, addrs[k]) % PAGE_SIZE = 0
  <1> DEFINE Given(p) == \E k \in 1 .. Len(addrs) :
                           /\ p \in managed /\ p = find_physaddr(mem, addrs[k]) \div PAGE_SIZE
                           /\ find_physaddr(mem, addrs[k]) % PAGE_SIZE = 0
             S == {m \in MemSet :
                     /\ Managed(m, managed) /\ m.tables = mem.tables /\ mem.free \subseteq m.free
                     /\ \A p \in m.free \ mem.free : Given(p)}
  <1>1. mem \in S
    BY DEF Managed
  <1>2. ASSUME NEW k \in 1 .. Len(addrs), NEW m \in S
        PROVE  phys_page_free(m, find_physaddr(m, addrs[k])) \in S
    <2>1. PICK a : a = find_physaddr(m, addrs[k]) /\ a = find_physaddr(mem, addrs[k])
      BY DEF find_physaddr
    <2>2. PICK m3 : m3 = phys_page_free(m, a)
      OBVIOUS
    <2>3. Managed(m, managed) /\ m.tables = mem.tables /\ mem.free \subseteq m.free
      OBVIOUS
    <2>4. /\ Managed(m3, managed) /\ m3.tables = m.tables /\ m.free \subseteq m3.free
          /\ \A p \in m3.free \ m.free :
               p \in managed /\ a % PAGE_SIZE = 0 /\ p = a \div PAGE_SIZE
      BY <2>2, <2>3, PageIsFreed
    <2>5. ASSUME NEW p \in m3.free \ mem.free
          PROVE  Given(p)
      <3>1. CASE p \in m.free
        BY <3>1
      <3>2. CASE p \notin m.free
        BY <2>1, <2>4, <3>2
      <3> QED BY <3>1, <3>2
    <2>6. m3 \in MemSet
      BY <2>4 DEF Managed
    <2> HIDE DEF Given
    <2>7. m3 \in S
      BY <2>3, <2>4, <2>5, <2>6
    <2> QED BY <2>1, <2>2, <2>7
  <1> HIDE DEF S
  <1>3. m2 \in S
    BY <1>1, <1>2, FreePagesKeeps
  <1> QED BY <1>3 DEF S

(* The page behind an address of the heap is the page behind its page.     *)
LEMMA FreedPageBacksItsPage ==
  ASSUME NEW M \in ManagedSets, NEW m, HeapMapped(m, M),
         NEW a \in Nat, NEW v \in HeapPages, v = PageOf(a),
         NEW p \in M, p = find_physaddr(m, a) \div PAGE_SIZE,
         find_physaddr(m, a) % PAGE_SIZE = 0
  PROVE  Tr(m, v) = p * PAGE_SIZE /\ Tr(m, v) # 0
  <1>1. PICK lv : Tree(m, lv)
    BY DEF HeapMapped
  <1>2. v \in VIRT_PAGES /\ VirtPage(v * PAGE_SIZE) = v /\ v * PAGE_SIZE \in Nat
        /\ (v * PAGE_SIZE) % PAGE_SIZE = 0
    BY HeapPagesAreVirtual
  <1>3. VirtPage(a) = v
    BY <1>2, PageOfAddress
  <1>4. PICK b \in Nat : b = v * PAGE_SIZE
    BY <1>2
  <1>5. /\ Index(a, 1) = Index(b, 1) /\ Index(a, 2) = Index(b, 2)
        /\ Index(a, 3) = Index(b, 3) /\ Index(a, 4) = Index(b, 4)
    BY <1>2, <1>3, <1>4, PageHasItsIndices
  <1>6. E4(m, a) = E4(m, b) /\ E3(m, a) = E3(m, b) /\ E2(m, a) = E2(m, b) /\ E1(m, a) = E1(m, b)
    BY <1>5 DEF E4, E3, E2, E1
  <1>7. ~InLargePage(m, b)
    BY <1>4 DEF HeapMapped, Backed
  <1>8. p \in Nat /\ p # 0
    BY ManagedSetsAssumption
  <1>9. find_physaddr(m, a) # 0
    <2>1. 0 \div PAGE_SIZE = 0
      BY PagingSizesAssumption, QuotientIsUnique
    <2> QED BY <1>8, <2>1
  <1>10. At1(m, a) /\ At1(m, b) /\ E1(m, a).present
    <2>1. ~InLargePage(m, a)
      BY <1>6, <1>7 DEF InLargePage, At2, At3
    <2>2. At1(m, a)
      BY <1>9, <2>1, WalkFinds DEF At1, InLargePage
    <2> QED BY <1>6, <1>9, <2>2, WalkFinds DEF At1, At2, At3
  <1>11. PICK e \in Nat : e = E1(m, a).page
    <2>1. E1(m, a) \in Entry
      BY <1>1, <1>10, WalkLevels
    <2> QED BY <2>1 DEF Entry
  <1>12. PICK r \in Nat : r = a % PAGE_SIZE /\ r < PAGE_SIZE
    BY PageOfAddress
  <1>13. find_physaddr(m, a) = e * PAGE_SIZE + r /\ find_physaddr(m, b) = e * PAGE_SIZE + (b % PAGE_SIZE)
    BY <1>6, <1>10, <1>11, <1>12, WalkFinds
  <1>14. PICK f \in Nat : f = find_physaddr(m, a) /\ f = PAGE_SIZE * e + r
    BY <1>13, PagingSizesAssumption
  <1>15. f \div PAGE_SIZE = e /\ f % PAGE_SIZE = r
    BY <1>12, <1>14, PagingSizesAssumption, QuotientIsUnique
  <1>16. e = p
    BY <1>14, <1>15
  <1>17. Tr(m, v) = p * PAGE_SIZE
    <2>1. e * PAGE_SIZE + 0 = e * PAGE_SIZE
      BY PagingSizesAssumption
    <2> QED BY <1>2, <1>4, <1>13, <1>16, <2>1 DEF Tr
  <1> QED BY <1>8, <1>17, PhysAddress

(* The addresses free() looks up: the block's first one and its last one,  *)
(* if no other block needs their pages, and those in between.              *)
LEMMA LookedUpAddresses ==
  ASSUME NEW block \in mem_t, block.size # 0, NEW table,
         NEW addrs, addrs = AddrsToFree(block, table)
  PROVE  /\ Len(addrs) \in Nat
         /\ \A k \in 1 .. Len(addrs) :
              \/ addrs[k] = block.addr /\ ~sused(block, table)
              \/ addrs[k] = End(block) - 1 /\ ~eused(block, table)
              \/ \E j \in 2 .. (PagesTouched(block.addr, block.size) - 1) :
                   addrs[k] = PageAddrs(block.addr, block.size)[j]
  <1>1. PICK a \in Nat, s \in Nat \ {0} : a = block.addr /\ s = block.size
    BY DEF mem_t
  <1>2. PICK n \in Nat \ {0} : n = PagesTouched(a, s)
    BY TouchedPages
  <1> DEFINE A == PageAddrs(a, s)
  <1>3. A \in Seq(Nat) /\ Len(A) = n
    <2>1. \A k \in 1 .. n : A[k] \in Nat
      BY <1>2, TouchedPages
    <2>2. A = [k \in 1 .. n |-> a + (k - 1) * PAGE_SIZE]
      BY <1>2 DEF PageAddrs
    <2> QED BY <2>1, <2>2
  <1> HIDE DEF A
  <1>4. PICK p1 : p1 = IF sused(block, table) THEN << >> ELSE <<block.addr>>
    OBVIOUS
  <1>5. PICK p2 : p2 = IF eused(block, table) THEN << >> ELSE <<End(block) - 1>>
    OBVIOUS
  <1>6. PICK p3 : p3 = SubSeq(A, 2, n - 1)
    OBVIOUS
  <1>7. /\ p1 \in Seq(Nat) /\ Len(p1) \in Nat
        /\ \A k \in 1 .. Len(p1) : p1[k] = block.addr /\ ~sused(block, table)
    BY <1>1, <1>4
  <1>8. /\ p2 \in Seq(Nat) /\ Len(p2) \in Nat
        /\ \A k \in 1 .. Len(p2) : p2[k] = End(block) - 1 /\ ~eused(block, table)
    BY <1>1, <1>5 DEF End
  <1>9. /\ p3 \in Seq(Nat) /\ Len(p3) \in Nat
        /\ \A k \in 1 .. Len(p3) : \E j \in 2 .. (n - 1) : p3[k] = A[j]
    BY <1>3, <1>6
  <1>10. PICK q : q = p1 \o p2 /\ addrs = q \o p3
    BY <1>1, <1>2, <1>4, <1>5, <1>6 DEF AddrsToFree, A
  <1>11. /\ q \in Seq(Nat) /\ Len(q) = Len(p1) + Len(p2)
         /\ \A k \in 1 .. Len(q) : q[k] = IF k <= Len(p1) THEN p1[k] ELSE p2[k - Len(p1)]
    BY <1>7, <1>8, <1>10
  <1>12. /\ Len(addrs) = Len(q) + Len(p3)
         /\ \A k \in 1 .. Len(addrs) : addrs[k] = IF k <= Len(q) THEN q[k] ELSE p3[k - Len(q)]
    BY <1>9, <1>10, <1>11
  <1>13. ASSUME NEW k \in 1 .. Len(addrs)
         PROVE  \/ addrs[k] = block.addr /\ ~sused(block, table)
                \/ addrs[k] = End(block) - 1 /\ ~eused(block, table)
                \/ \E j \in 2 .. (n - 1) : addrs[k] = A[j]
    <2>1. CASE k <= Len(p1)
      BY <1>7, <1>8, <1>11, <1>12, <2>1
    <2>2. CASE k > Len(p1) /\ k <= Len(q)
      <3>1. k - Len(p1) \in 1 .. Len(p2) /\ addrs[k] = p2[k - Len(p1)]
        BY <1>7, <1>8, <1>11, <1>12, <2>2
      <3> QED BY <1>8, <3>1
    <2>3. CASE k > Len(q)
      <3>1. k - Len(q) \in 1 .. Len(p3) /\ addrs[k] = p3[k - Len(q)]
        BY <1>7, <1>8, <1>9, <1>11, <1>12, <2>3
      <3> QED BY <1>9, <3>1
    <2> QED BY <1>7, <1>8, <1>11, <2>1, <2>2, <2>3
  <1>14. Len(addrs) \in Nat
    BY <1>7, <1>8, <1>9, <1>11, <1>12
  <1> QED BY <1>1, <1>2, <1>13, <1>14 DEF A

-----------------------------------------------------------------------------
(* While memory lasts, every page of a block that starts on a page         *)
(* boundary is mapped.                                                     *)
BlocksAreMapped ==
  ~freed /\ mem.free # {} =>
    \A k \in 1 .. ALLOCATIONS :
      allocations[k].size # 0 /\ allocations[k].addr % PAGE_SIZE = 0 =>
        \A v \in VirtPagesOf(allocations[k]) : Tr(mem, v) # 0

(* The inductive invariant of memory, beside that of the two tables: the   *)
(* variables keep their types, and until free() gives back the first page  *)
(* the page tables are a tree and the heap is backed by pages of its own,  *)
(* by none before init_malloc().                                           *)
MapInv ==
  /\ HeapInv
  /\ BlocksAreMapped
  /\ managed \in ManagedSets /\ Managed(mem, managed)
  /\ fb_addr \in {FB_PHYS, FB_VIRT} /\ loaded \in BOOLEAN /\ offset \in Nat
  /\ pc \in {"identity", "kernel", "framebuffer", "up", "heap"}
  /\ ret \in Nat /\ freed \in BOOLEAN
  /\ \A k \in 1 .. ALLOCATIONS : allocations[k].size = 0 => allocations[k] = NoMem
  /\ pc # "heap" => ~freed /\ HeapUnmapped(mem, managed)
  /\ ~freed => HeapMapped(mem, managed)
  /\ pc = "identity" => \E lv : Tree(mem, lv) /\ \A t \in Names(mem) : lv[t] > 1

LEMMA RemappedPages ==
  \A v : v \in Remapped <=> v \in VIRT_PAGES /\ Tr(mem', v) # Tr(mem, v)
  BY DEF Remapped, Translation, Tr

(* What the properties say of a step *)
BootIsLocal ==
  /\ MapIdentity => \A v \in Remapped : v \div ENTRIES = offset \div PAGE_2M
  /\ MapKernel => Remapped \subseteq {VirtPage(KERNEL_VADDR + offset)}
  /\ MapFramebuffer => Remapped \subseteq {VirtPage(FB_VIRT + offset)}

HeapIsLocal ==
  pc = "heap" /\ ~freed =>
    \A v \in Remapped :
      /\ \E block \in Live' \ Live : v \in VirtPagesOf(block)
      /\ PageOf(Translation(mem')[v]) \in mem.free \ mem'.free

KeepsSharedPages ==
  \A block \in Live' :
    ~freed /\ block \in Live /\ PageOf(block.addr) = LastPage(block)
      => Backing(block) \cap (mem'.free \ mem.free) = {}

LEMMA MemoryStarts ==
  ASSUME NEW M \in ManagedSets,
         NEW m, m = [free |-> M, tables |-> [t \in {PML4} |-> EmptyTable]]
  PROVE  /\ HeapUnmapped(m, M)
         /\ \E lv : Tree(m, lv) /\ \A t \in Names(m) : lv[t] > 1
  <1>1. M \in SUBSET Nat /\ 0 \notin M /\ PML4 = 0
    BY ManagedSetsAssumption DEF PML4
  <1>2. PICK tables : tables = [t \in {PML4} |-> EmptyTable]
    OBVIOUS
  <1>3. tables \in [{PML4} -> Rows] /\ tables[PML4] = EmptyTable
    BY <1>2, EntryTypes
  <1>4. m \in MemSet /\ m.free = M /\ m.tables = tables /\ Names(m) = {PML4}
    BY <1>1, <1>2, <1>3, IsMem
  <1>5. \A t \in Names(m), i \in Idx : ~m.tables[t][i].present /\ ~m.tables[t][i].ps
    BY <1>3, <1>4, EntryTypes
  <1>6. PICK lv : lv = [t \in {PML4} |-> 4]
    OBVIOUS
  <1>7. Levels(m, lv)
    BY <1>4, <1>5, <1>6 DEF Levels, IsLink
  <1>8. Hangs(m, lv)
    BY <1>4, <1>5 DEF Hangs, IsLink
  <1>9. Apart(m, lv)
    BY <1>1, <1>4, <1>5 DEF Apart
  <1>10. Tree(m, lv)
    BY <1>4, <1>7, <1>8, <1>9 DEF Tree
  <1>11. \A v \in HeapPages : Tr(m, v) = 0 /\ ~InLargePage(m, v * PAGE_SIZE)
    <2>1. ASSUME NEW v \in HeapPages
          PROVE  ~At3(m, v * PAGE_SIZE)
      <3>1. Index(v * PAGE_SIZE, 4) \in Idx
        BY HeapPagesAreVirtual, IndexFits
      <3> QED BY <1>4, <1>5, <3>1 DEF At3, E4
    <2> QED BY <2>1, WalkFinds DEF Tr, At2, InLargePage
  <1>12. Managed(m, M) /\ Backed(m, M)
    BY <1>4, <1>11 DEF Managed, Backed
  <1>13. HeapUnmapped(m, M)
    BY <1>10, <1>11, <1>12 DEF HeapUnmapped, HeapMapped
  <1> QED BY <1>4, <1>6, <1>10, <1>13

LEMMA MapStarts == Init => MapInv
  <1> SUFFICES ASSUME Init
               PROVE  MapInv
    OBVIOUS
  <1>1. /\ managed \in ManagedSets
        /\ mem = [free |-> managed, tables |-> [t \in {PML4} |-> EmptyTable]]
        /\ fb_addr = FB_PHYS /\ loaded = FALSE /\ pc = "identity" /\ offset = 0
        /\ ret = 0 /\ freed = FALSE
        /\ allocations = [k \in 1 .. ALLOCATIONS |-> NoMem]
    BY DEF Init, PagingInit
  <1>2. /\ HeapUnmapped(mem, managed)
        /\ \E lv : Tree(mem, lv) /\ \A t \in Names(mem) : lv[t] > 1
    BY <1>1, MemoryStarts
  <1>3. BlocksAreMapped
    BY <1>1 DEF BlocksAreMapped, NoMem
  <1> QED BY <1>1, <1>2, <1>3, HeapStarts DEF MapInv, HeapUnmapped, HeapMapped

-----------------------------------------------------------------------------
(* The steps                                                               *)

(* A step that leaves memory alone                                         *)
LEMMA MapStutters ==
  ASSUME MapInv, HeapInv', UNCHANGED <<managed, mem, allocations, freed>>,
         pc' # "heap" => pc # "heap",
         pc' = "identity" => pc = "identity",
         pc' \in {"identity", "kernel", "framebuffer", "up", "heap"},
         fb_addr' \in {FB_PHYS, FB_VIRT}, loaded' \in BOOLEAN, offset' \in Nat, ret' \in Nat
  PROVE  MapInv' /\ HeapIsLocal /\ KeepsSharedPages
  <1>1. BlocksAreMapped'
    BY DEF MapInv, BlocksAreMapped
  <1>2. MapInv'
    BY <1>1 DEF MapInv
  <1>3. Remapped = {} /\ mem'.free \ mem.free = {}
    BY RemappedPages
  <1> QED BY <1>2, <1>3 DEF HeapIsLocal, KeepsSharedPages

(* A step of init_paging() that maps                                       *)
LEMMA BootMaps ==
  ASSUME MapInv, HeapInv', pc # "heap", HeapUnmapped(mem', managed),
         mem'.free \subseteq mem.free,
         UNCHANGED <<managed, fb_addr, loaded, pc, allocations, ret, freed>>, offset' \in Nat,
         pc = "identity" => \E lv : Tree(mem', lv) /\ \A t \in Names(mem') : lv[t] > 1
  PROVE  MapInv' /\ HeapIsLocal /\ KeepsSharedPages
  <1>1. HeapMapped(mem', managed) /\ Managed(mem', managed)
    BY DEF HeapUnmapped, HeapMapped
  <1>2. \A k \in 1 .. ALLOCATIONS : allocations'[k].size = 0
    BY DEF HeapInv, NoMem
  <1>3. BlocksAreMapped'
    BY <1>2 DEF BlocksAreMapped
  <1>4. MapInv'
    BY <1>1, <1>3 DEF MapInv
  <1> QED BY <1>4 DEF HeapIsLocal, KeepsSharedPages

LEMMA IdentityKeeps ==
  ASSUME MapInv, MapIdentity
  PROVE  /\ HeapUnmapped(mem', managed) /\ mem'.free \subseteq mem.free /\ offset' \in Nat
         /\ \E lv : Tree(mem', lv) /\ \A t \in Names(mem') : lv[t] > 1
         /\ \A v \in Remapped : v \div ENTRIES = offset \div PAGE_2M
  <1>1. /\ managed \in ManagedSets /\ HeapUnmapped(mem, managed)
        /\ offset \in Nat /\ offset < FIRST_4GB /\ mem' = map_2mb_page(mem, offset, offset)
        /\ offset' = offset + PAGE_2M
    BY DEF MapInv, MapIdentity
  <1>2. PICK lv : Tree(mem, lv) /\ \A t \in Names(mem) : lv[t] > 1
    BY DEF MapInv, MapIdentity
  <1>3. PICK m2 : m2 = mem'
    OBVIOUS
  <1>4. /\ HeapUnmapped(m2, managed)
        /\ \E lv2 : LargePageMapped(mem, m2, offset, offset, lv2)
        /\ \A v \in VIRT_PAGES : Tr(m2, v) # Tr(mem, v) => v \div ENTRIES = offset \div PAGE_2M
    BY <1>1, <1>2, <1>3, LowMemoryIsMapped
  <1>5. PICK lv2 : LargePageMapped(mem, m2, offset, offset, lv2)
    BY <1>4
  <1>6. offset' \in Nat
    BY <1>1, PagingSizesAssumption DEF PAGE_2M
  <1>7. m2.free \subseteq mem.free /\ Tree(m2, lv2) /\ \A t \in Names(m2) : lv2[t] > 1
    BY <1>5 DEF LargePageMapped, Kept
  <1> QED BY <1>3, <1>4, <1>6, <1>7, RemappedPages

(* map_page() for the kernel's image and for the framebuffer               *)
LEMMA ImageKeeps ==
  ASSUME MapInv, pc # "heap",
         NEW phys \in Nat, phys \div PAGE_SIZE \notin managed,
         NEW v \in Nat, VirtPage(v) \notin HeapPages, mem' = map_page(mem, phys, v)
  PROVE  /\ HeapUnmapped(mem', managed) /\ mem'.free \subseteq mem.free
         /\ Remapped \subseteq {VirtPage(v)}
  <1>1. managed \in ManagedSets /\ HeapUnmapped(mem, managed)
    BY DEF MapInv
  <1>2. PICK m2 : m2 = mem'
    OBVIOUS
  <1>3. /\ HeapUnmapped(m2, managed)
        /\ \E lv2 : PageMapped(mem, m2, phys, v, lv2)
        /\ \A w \in VIRT_PAGES : Tr(m2, w) # Tr(mem, w) => w = VirtPage(v)
    BY <1>1, <1>2, ImagePageIsMapped
  <1>4. m2.free \subseteq mem.free
    BY <1>3 DEF PageMapped, Kept
  <1> QED BY <1>2, <1>3, <1>4, RemappedPages

LEMMA KernelKeeps ==
  ASSUME MapInv, MapKernel
  PROVE  /\ HeapUnmapped(mem', managed) /\ mem'.free \subseteq mem.free /\ offset' \in Nat
         /\ Remapped \subseteq {VirtPage(KERNEL_VADDR + offset)}
  <1>1. /\ pc # "heap" /\ offset < KERNEL_SIZE /\ offset' = offset + PAGE_SIZE
        /\ mem' = map_page(mem, KERNEL_PADDR + offset, KERNEL_VADDR + offset)
    BY DEF MapKernel
  <1>2. offset \in Nat /\ managed \in ManagedSets
    BY DEF MapInv
  <1>3. PICK phys \in Nat, v \in Nat : phys = KERNEL_PADDR + offset /\ v = KERNEL_VADDR + offset
    BY <1>2, PagingSizesAssumption
  <1>4. offset \in 0 .. (KERNEL_SIZE - 1)
    BY <1>1, <1>2, PagingSizesAssumption
  <1>5. phys \div PAGE_SIZE \notin managed /\ VirtPage(v) \notin HeapPages
    BY <1>2, <1>3, <1>4, NotManagedAssumption, HeapIsApartAssumption
  <1>6. offset' \in Nat
    BY <1>1, <1>2, PagingSizesAssumption
  <1> QED BY <1>1, <1>3, <1>5, <1>6, ImageKeeps

LEMMA FramebufferKeeps ==
  ASSUME MapInv, MapFramebuffer
  PROVE  /\ HeapUnmapped(mem', managed) /\ mem'.free \subseteq mem.free /\ offset' \in Nat
         /\ Remapped \subseteq {VirtPage(FB_VIRT + offset)}
  <1>1. /\ pc # "heap" /\ offset < FB_SIZE /\ offset' = offset + PAGE_SIZE /\ FB_PHYS # 0
        /\ mem' = map_page(mem, FB_PHYS + offset, FB_VIRT + offset)
    BY DEF MapFramebuffer
  <1>2. offset \in Nat /\ managed \in ManagedSets
    BY DEF MapInv
  <1>3. PICK phys \in Nat, v \in Nat : phys = FB_PHYS + offset /\ v = FB_VIRT + offset
    BY <1>2, PagingSizesAssumption
  <1>4. offset \in 0 .. (FB_SIZE - 1)
    BY <1>1, <1>2, PagingSizesAssumption
  <1>5. phys \div PAGE_SIZE \notin managed /\ VirtPage(v) \notin HeapPages
    BY <1>1, <1>2, <1>3, <1>4, NotManagedAssumption, HeapIsApartAssumption
  <1>6. offset' \in Nat
    BY <1>1, <1>2, PagingSizesAssumption
  <1> QED BY <1>1, <1>3, <1>5, <1>6, ImageKeeps

LEMMA BootIsLocalToItsPage ==
  ASSUME MapInv
  PROVE  BootIsLocal
  BY IdentityKeeps, KernelKeeps, FramebufferKeeps DEF BootIsLocal

LEMMA BootKeepsMap ==
  ASSUME MapInv, HeapInv', init_paging, UNCHANGED <<freespace, allocations, ret, freed>>
  PROVE  MapInv' /\ HeapIsLocal /\ KeepsSharedPages
  <1>1. CASE MapIdentity
    <2>1. pc # "heap" /\ UNCHANGED <<managed, fb_addr, loaded, pc>>
      BY <1>1 DEF MapIdentity
    <2> QED BY <1>1, <2>1, IdentityKeeps, BootMaps
  <1>2. CASE MapKernel
    <2>1. pc # "heap" /\ pc # "identity" /\ UNCHANGED <<managed, fb_addr, loaded, pc>>
      BY <1>2 DEF MapKernel
    <2> QED BY <1>2, <2>1, KernelKeeps, BootMaps
  <1>3. CASE MapFramebuffer
    <2>1. pc # "heap" /\ pc # "identity" /\ UNCHANGED <<managed, fb_addr, loaded, pc>>
      BY <1>3 DEF MapFramebuffer
    <2> QED BY <1>3, <2>1, FramebufferKeeps, BootMaps
  <1>4. CASE IdentityDone \/ KernelDone \/ FramebufferDone
    <2>1. /\ pc # "heap" /\ pc' \in {"kernel", "framebuffer", "up"} /\ offset' = 0
          /\ UNCHANGED <<managed, mem>>
          /\ fb_addr' \in {FB_VIRT, fb_addr} /\ loaded' \in BOOLEAN \cup {loaded}
      BY <1>4 DEF IdentityDone, KernelDone, FramebufferDone, NextLoop
    <2>2. fb_addr' \in {FB_PHYS, FB_VIRT} /\ loaded' \in BOOLEAN /\ ret' \in Nat
      BY <2>1 DEF MapInv
    <2> QED BY <2>1, <2>2, MapStutters
  <1> QED BY <1>1, <1>2, <1>3, <1>4 DEF init_paging

LEMMA TypesOfTables ==
  ASSUME HeapInv
  PROVE  /\ allocations \in AllocTables /\ freespace \in FreeTables
         /\ OneHand(allocations, freespace)
         /\ \A k \in 1 .. ALLOCATIONS :
              /\ allocations[k] \in mem_t /\ Bytes(allocations[k]) \subseteq Heap
              /\ \A l \in 1 .. ALLOCATIONS :
                   k # l => Bytes(allocations[k]) \cap Bytes(allocations[l]) = {}
         /\ \A k \in 1 .. FREE_SPACES : freespace[k] \in mem_t
  BY DEF HeapInv, AllocTables, FreeTables, OneHand

LEMMA LiveBlocks ==
  ASSUME HeapInv
  PROVE  \A block : block \in Live <=>
           \E k \in 1 .. ALLOCATIONS : allocations[k].size # 0 /\ block = allocations[k]
  BY DEF Live

LEMMA MemoryIsRecord ==
  ASSUME NEW m, NEW m2, NEW M, Managed(m, M), Managed(m2, M), m.free = m2.free, m.tables = m2.tables
  PROVE  m = m2
  BY MemType DEF Managed

(* A block that malloc() has cut off and put into a slot                   *)
LEMMA AllocateKeepsMap ==
  ASSUME MapInv, HeapInv', pc = "heap",
         UNCHANGED <<managed, fb_addr, loaded, pc, offset, freed>>,
         NEW size \in Nat \ {0}, NEW space \in 1 .. FREE_SPACES, size <= freespace[space].size,
         NEW block, block = [addr |-> freespace[space].addr, size |-> size],
         NEW alloc \in 1 .. ALLOCATIONS, allocations' = Changed(allocations, alloc, block),
         mem' = MapPages(block.addr, block.size), ret' = block.addr
  PROVE  MapInv' /\ HeapIsLocal /\ KeepsSharedPages
  <1>1. HeapInv
    BY DEF MapInv
  <1>2. /\ allocations \in AllocTables /\ freespace[space] \in mem_t
        /\ OneHand(allocations, freespace)
    BY <1>1, TypesOfTables
  <1>3. block \in mem_t /\ Bytes(block) \subseteq Bytes(freespace[space]) /\ block.size = size
    <2>1. PICK rest : rest = [addr |-> freespace[space].addr + size,
                              size |-> freespace[space].size - size]
      OBVIOUS
    <2> QED BY <1>2, <2>1, CutSplits
  <1>4. Bytes(block) \subseteq Heap
    BY <1>2, <1>3 DEF OneHand
  <1>5. /\ allocations'[alloc] = block
        /\ \A k \in 1 .. ALLOCATIONS : k # alloc => allocations'[k] = allocations[k]
    BY <1>2 DEF Changed, AllocTables
  <1>6. block \in Live' \ Live
    <2>1. block \in Live'
      BY <1>3, <1>5 DEF Live
    <2>2. block.addr \in Bytes(block)
      BY <1>3 DEF mem_t, Bytes, End
    <2>3. ASSUME NEW k \in 1 .. ALLOCATIONS
          PROVE  block # allocations[k]
      <3>1. Bytes(allocations[k]) \cap Bytes(freespace[space]) = {}
        BY <1>2 DEF OneHand
      <3> QED BY <1>3, <2>2, <3>1
    <2> QED BY <1>1, <2>1, <2>3, LiveBlocks
  <1>7. managed \in ManagedSets /\ Managed(mem, managed) /\ managed \in SUBSET Nat
    BY ManagedSetsAssumption DEF MapInv
  <1>8. PICK m2 : m2 = mem' /\ m2 = MapPages(block.addr, block.size)
    OBVIOUS
  <1>9. Managed(m2, managed)
    <2> DEFINE U == {m \in MemSet : Managed(m, managed)}
               S == [k \in Nat |-> U]
    <2>1. PICK a \in Nat, n \in Nat : a = block.addr /\ n = PagesTouched(a, size)
      BY <1>3, TouchedPages DEF mem_t
    <2>2. \A m \in U, b \in Nat : MapIfMissing(m, b) \in U
      BY <1>7, MapIfMissingIsManaged DEF Managed
    <2>3. mem \in U
      BY <1>7 DEF Managed
    <2> HIDE DEF U
    <2>4. \A k \in Nat : S[k] = U
      OBVIOUS
    <2> HIDE DEF S
    <2>5. \A k \in 1 .. n : S[k - 1] \subseteq U /\ \A m \in S[k - 1] :
            MapIfMissing(m, PageAddrs(a, size)[k]) \in S[k]
      <3>1. n = PagesTouched(a, size) /\ size \in Nat \ {0}
        BY <1>3, <2>1 DEF mem_t
      <3>2. /\ PageOf(a + size - 1) = PageOf(a) + n - 1
            /\ \A k \in 1 .. n : /\ PageAddrs(a, size)[k] = a + (k - 1) * PAGE_SIZE
                                 /\ PageAddrs(a, size)[k] \in Nat
                                 /\ PageOf(PageAddrs(a, size)[k]) = PageOf(a) + k - 1
        BY <3>1, TouchedPages
      <3>3. \A k \in 1 .. n : PageAddrs(a, size)[k] \in Nat
        BY <3>2
      <3>4. \A k \in 1 .. n : k - 1 \in Nat /\ k \in Nat
        OBVIOUS
      <3> QED BY <2>2, <2>4, <3>3, <3>4
    <2>6. MapPages(a, size) \in S[n]
      BY <2>1, <2>2, <2>3, <2>4, <2>5, MapPagesKeeps
    <2> QED BY <1>3, <1>8, <2>1, <2>4, <2>6 DEF U
  <1>10. ASSUME ~freed
         PROVE  /\ HeapMapped(m2, managed) /\ LocalTo(mem, m2, VirtPagesOf(block))
                /\ block.addr % PAGE_SIZE = 0 /\ m2.free # {} =>
                     \A v \in VirtPagesOf(block) : Tr(m2, v) # 0
    <2>1. HeapMapped(mem, managed)
      BY <1>10 DEF MapInv
    <2> QED BY <1>3, <1>4, <1>7, <1>8, <2>1, BlockIsMapped
  <1>11. MapInv'
    <2>1. ret' \in Nat
      BY <1>3 DEF mem_t
    <2>2. \A k \in 1 .. ALLOCATIONS : allocations'[k].size = 0 => allocations'[k] = NoMem
      BY <1>3, <1>5 DEF MapInv
    <2>3. BlocksAreMapped'
      <3>1. SUFFICES ASSUME ~freed, m2.free # {}, NEW k \in 1 .. ALLOCATIONS,
                            allocations'[k].size # 0, allocations'[k].addr % PAGE_SIZE = 0,
                            NEW v \in VirtPagesOf(allocations'[k])
                     PROVE  Tr(m2, v) # 0
        BY <1>8 DEF BlocksAreMapped
      <3>2. CASE k = alloc
        BY <1>5, <1>10, <3>1, <3>2
      <3>3. CASE k # alloc
        <4>1. PICK other : other = allocations[k] /\ other = allocations'[k]
          BY <1>5, <3>3
        <4>2. other \in mem_t /\ other.size # 0 /\ Bytes(other) \subseteq Heap
          BY <1>1, <3>1, <4>1, TypesOfTables
        <4>3. v \in VIRT_PAGES
          BY <3>1, <4>1, <4>2, BlockIsOnHeapPages, HeapPagesAreVirtual DEF VirtPagesOf
        <4>4. LocalTo(mem, m2, VirtPagesOf(block))
          BY <1>10, <3>1
        <4>5. mem.free # {}
          BY <3>1, <4>4 DEF LocalTo
        <4>6. Tr(mem, v) # 0
          BY <3>1, <4>1, <4>2, <4>5 DEF MapInv, BlocksAreMapped
        <4> QED BY <1>7, <4>3, <4>4, <4>6, LocalKeeps
      <3> QED BY <3>2, <3>3
    <2> QED BY <1>8, <1>9, <1>10, <2>1, <2>2, <2>3 DEF MapInv
  <1>12. HeapIsLocal
    <2>1. ASSUME ~freed, NEW v \in Remapped
          PROVE  v \in VirtPagesOf(block) /\ PageOf(Translation(mem')[v]) \in mem.free \ mem'.free
      <3>1. v \in VIRT_PAGES /\ Tr(m2, v) # Tr(mem, v)
        BY <1>8, RemappedPages
      <3>2. Translation(mem')[v] = Tr(m2, v)
        BY <1>8, <3>1 DEF Translation, Tr
      <3> QED BY <1>8, <1>10, <2>1, <3>1, <3>2 DEF LocalTo
    <2> QED BY <1>6, <2>1 DEF HeapIsLocal
  <1>13. KeepsSharedPages
    BY <1>8, <1>10 DEF KeepsSharedPages, LocalTo
  <1> QED BY <1>11, <1>12, <1>13

LEMMA MallocKeepsMap ==
  ASSUME MapInv, HeapInv', NEW size \in Sizes, malloc(size)
  PROVE  MapInv' /\ HeapIsLocal /\ KeepsSharedPages
  <1>1. size \in Nat /\ pc = "heap" /\ UNCHANGED <<managed, fb_addr, loaded, pc, offset, freed>>
    BY HeapAssumption DEF malloc
  <1>2. CASE ret' = 0 /\ UNCHANGED <<allocations, mem>>
    <2>1. /\ fb_addr' \in {FB_PHYS, FB_VIRT} /\ loaded' \in BOOLEAN /\ offset' \in Nat
          /\ pc' \in {"identity", "kernel", "framebuffer", "up", "heap"}
      BY <1>1 DEF MapInv
    <2> QED BY <1>1, <1>2, <2>1, MapStutters
  <1>3. CASE size # 0 /\ \E space \in 1 .. FREE_SPACES, alloc \in 1 .. ALLOCATIONS :
               /\ freespace[space].size >= size
               /\ allocations' = [allocations EXCEPT ![alloc] =
                                    [addr |-> freespace[space].addr, size |-> size]]
               /\ mem' = MapPages(freespace[space].addr, size)
               /\ ret' = freespace[space].addr
    <2>1. PICK space \in 1 .. FREE_SPACES, alloc \in 1 .. ALLOCATIONS :
               /\ freespace[space].size >= size
               /\ allocations' = [allocations EXCEPT ![alloc] =
                                    [addr |-> freespace[space].addr, size |-> size]]
               /\ mem' = MapPages(freespace[space].addr, size)
               /\ ret' = freespace[space].addr
      BY <1>3
    <2> DEFINE block == [addr |-> freespace[space].addr, size |-> size]
    <2>2. block.addr = freespace[space].addr /\ block.size = size
      OBVIOUS
    <2>3. allocations' = Changed(allocations, alloc, block)
      BY <2>1 DEF Changed
    <2>4. size \in Nat \ {0} /\ size <= freespace[space].size
      <3>1. freespace[space] \in mem_t
        BY TypesOfTables DEF MapInv
      <3>2. freespace[space].size \in Nat
        BY <3>1 DEF mem_t
      <3> QED BY <1>1, <1>3, <2>1, <3>2
    <2>5. mem' = MapPages(block.addr, block.size) /\ ret' = block.addr
      BY <2>1, <2>2
    <2> QED BY <1>1, <2>2, <2>3, <2>4, <2>5, AllocateKeepsMap
  <1> QED BY <1>2, <1>3 DEF malloc, Allocate, IsFirst

(* free() of a block                                                       *)
LEMMA FreedPagesAreNotShared ==
  ASSUME MapInv, ~freed, NEW alloc \in 1 .. ALLOCATIONS, allocations[alloc].size # 0,
         NEW table, table = Changed(allocations, alloc, NoMem),
         NEW m2, m2 = FreePages(AddrsToFree(allocations[alloc], table)),
         NEW l \in 1 .. ALLOCATIONS, l # alloc, allocations[l].size # 0,
         PageOf(allocations[l].addr) = LastPage(allocations[l])
  PROVE  Backing(allocations[l]) \cap (m2.free \ mem.free) = {}
  <1>1. PICK block, other : block = allocations[alloc] /\ other = allocations[l]
    OBVIOUS
  <1>2. /\ managed \in ManagedSets /\ managed \in SUBSET Nat
        /\ HeapMapped(mem, managed) /\ Managed(mem, managed) /\ HeapInv
    BY ManagedSetsAssumption DEF MapInv
  <1>3. /\ block \in mem_t /\ Bytes(block) \subseteq Heap /\ block.size # 0
        /\ other \in mem_t /\ Bytes(other) \subseteq Heap /\ other.size # 0
        /\ Bytes(block) \cap Bytes(other) = {} /\ allocations \in AllocTables
    BY <1>1, <1>2, TypesOfTables
  <1>4. table[l] = other
    BY <1>1, <1>3 DEF Changed, AllocTables
  <1>5. PICK a \in Nat, s \in Nat \ {0}, o \in Nat :
          /\ a = block.addr /\ s = block.size /\ o = other.addr
    BY <1>3 DEF mem_t
  <1>6. PICK p \in Nat, q \in Nat, u \in Nat :
          /\ p = PageOf(a) /\ q = LastPage(block) /\ u = PageOf(o) /\ p <= q
    BY <1>3, <1>5, BlockIsOnHeapPages
  <1>7. u = LastPage(other)
    BY <1>1, <1>5, <1>6
  <1> DEFINE n == PagesTouched(a, s)
  <1>8. /\ n \in Nat \ {0} /\ n = PagesTouched(a, s) /\ q = p + n - 1
        /\ \A j \in 1 .. n : /\ PageAddrs(a, s)[j] \in Nat
                             /\ PageOf(PageAddrs(a, s)[j]) = p + j - 1
    <2>1. q = PageOf(a + s - 1)
      BY <1>5, <1>6 DEF LastPage, End
    <2> HIDE DEF n
    <2>2. n = PagesTouched(a, s)
      BY DEF n
    <2>3. /\ n \in Nat \ {0}
          /\ PageOf(a + s - 1) = PageOf(a) + n - 1
          /\ \A j \in 1 .. n : /\ PageAddrs(a, s)[j] = a + (j - 1) * PAGE_SIZE
                               /\ PageAddrs(a, s)[j] \in Nat
                               /\ PageOf(PageAddrs(a, s)[j]) = PageOf(a) + j - 1
      BY <2>2, TouchedPages
    <2> QED BY <1>6, <2>1, <2>2, <2>3
  <1> HIDE DEF n
  <1>9. ~(p < u /\ u < q)
    <2>1. SUFFICES ASSUME p < u, u < q
                   PROVE  FALSE
      OBVIOUS
    <2>2. a <= o
      <3>1. ~(o <= a)
        <4>1. o <= a => u <= p
          BY <1>5, <1>6, DivisionKeepsOrder, PagingSizesAssumption DEF PageOf
        <4> QED BY <2>1, <4>1
      <3> QED BY <3>1
    <2>3. o < a + s
      <3>1. PICK e \in Nat : e = a + s - 1 /\ q = PageOf(e)
        BY <1>5, <1>6 DEF LastPage, End
      <3>2. e <= o => q <= u
        BY <1>5, <1>6, <3>1, DivisionKeepsOrder, PagingSizesAssumption DEF PageOf
      <3> QED BY <2>1, <3>1, <3>2
    <2>4. o \in Bytes(block)
      BY <1>3, <1>5, <2>2, <2>3, BytesMember
    <2>5. o \in Bytes(other)
      BY <1>3, <1>5 DEF mem_t, Bytes, End
    <2> QED BY <1>3, <2>4, <2>5
  <1>10. PICK addrs : addrs = AddrsToFree(block, table)
    OBVIOUS
  <1>11. /\ Len(addrs) \in Nat
         /\ \A k \in 1 .. Len(addrs) :
              \/ addrs[k] = block.addr /\ ~sused(block, table)
              \/ addrs[k] = End(block) - 1 /\ ~eused(block, table)
              \/ \E j \in 2 .. (n - 1) : addrs[k] = PageAddrs(a, s)[j]
    <2>1. /\ Len(addrs) \in Nat
          /\ \A k \in 1 .. Len(addrs) :
               \/ addrs[k] = block.addr /\ ~sused(block, table)
               \/ addrs[k] = End(block) - 1 /\ ~eused(block, table)
               \/ \E j \in 2 .. (PagesTouched(block.addr, block.size) - 1) :
                    addrs[k] = PageAddrs(block.addr, block.size)[j]
      BY <1>3, <1>10, LookedUpAddresses
    <2>2. n = PagesTouched(block.addr, block.size)
          /\ PageAddrs(block.addr, block.size) = PageAddrs(a, s)
      BY <1>5, <1>8
    <2> QED BY <2>1, <2>2
  <1>12. ASSUME NEW k \in 1 .. Len(addrs)
         PROVE  addrs[k] \in Nat /\ PageOf(addrs[k]) \in HeapPages /\ PageOf(addrs[k]) # u
    <2>1. VirtPagesOf(block) \subseteq HeapPages /\ p .. q = VirtPagesOf(block)
      BY <1>3, <1>5, <1>6, BlockIsOnHeapPages DEF VirtPagesOf
    <2>2. CASE addrs[k] = block.addr /\ ~sused(block, table)
      <3>1. u # p
        BY <1>3, <1>4, <1>5, <1>6, <1>7, <2>2 DEF sused
      <3>2. p \in HeapPages
        BY <1>6, <2>1
      <3> QED BY <1>5, <1>6, <2>2, <3>1, <3>2
    <2>3. CASE addrs[k] = End(block) - 1 /\ ~eused(block, table)
      <3>1. u # q
        BY <1>3, <1>4, <1>5, <1>6, <2>3 DEF eused
      <3>2. q \in HeapPages /\ q = PageOf(End(block) - 1)
        BY <1>6, <2>1 DEF LastPage
      <3>3. End(block) - 1 \in Nat
        BY <1>5 DEF End
      <3> QED BY <2>3, <3>1, <3>2, <3>3
    <2>4. CASE \E j \in 2 .. (n - 1) : addrs[k] = PageAddrs(a, s)[j]
      <3>1. PICK j \in 2 .. (n - 1) : addrs[k] = PageAddrs(a, s)[j]
        BY <2>4
      <3>2. j \in 1 .. n /\ p < p + j - 1 /\ p + j - 1 < q
        BY <1>8
      <3>3. addrs[k] \in Nat /\ PageOf(addrs[k]) = p + j - 1
        BY <1>8, <3>1, <3>2
      <3>4. PageOf(addrs[k]) \in p .. q
        BY <3>2, <3>3
      <3> QED BY <1>9, <2>1, <3>2, <3>3, <3>4
    <2> QED BY <1>11, <2>2, <2>3, <2>4
  <1>13. \A r \in m2.free \ mem.free :
           \E k \in 1 .. Len(addrs) :
             /\ r \in managed /\ r = find_physaddr(mem, addrs[k]) \div PAGE_SIZE
             /\ find_physaddr(mem, addrs[k]) % PAGE_SIZE = 0
    <2>1. m2 = FreePages(addrs)
      BY <1>1, <1>10
    <2> QED BY <1>2, <1>11, <2>1, PagesAreFreed
  <1>14. ASSUME NEW r \in m2.free \ mem.free, r \in Backing(other)
         PROVE  FALSE
    <2>1. PICK k \in 1 .. Len(addrs) :
             /\ r \in managed /\ r = find_physaddr(mem, addrs[k]) \div PAGE_SIZE
             /\ find_physaddr(mem, addrs[k]) % PAGE_SIZE = 0
      BY <1>13, <1>14
    <2>2. PICK v : v = PageOf(addrs[k])
      OBVIOUS
    <2>3. v \in HeapPages /\ v # u /\ addrs[k] \in Nat
      BY <1>12, <2>2
    <2>4. Tr(mem, v) = r * PAGE_SIZE /\ Tr(mem, v) # 0
      BY <1>2, <2>1, <2>2, <2>3, FreedPageBacksItsPage
    <2>5. VirtPagesOf(other) = {u}
      BY <1>5, <1>6, <1>7 DEF VirtPagesOf
    <2>6. r = PageOf(Tr(mem, u)) /\ Tr(mem, u) # 0
      BY <1>14, <2>5 DEF Backing, Tr
    <2>7. u \in HeapPages
      BY <1>3, <2>5, BlockIsOnHeapPages
    <2>8. PICK x \in managed : Tr(mem, u) = x * PAGE_SIZE
      BY <1>2, <2>6, <2>7 DEF HeapMapped, Backed
    <2>9. x = r
      BY <1>2, <2>6, <2>8, PhysAddress
    <2>10. Tr(mem, v) = Tr(mem, u)
      BY <2>4, <2>8, <2>9
    <2> QED BY <1>2, <2>3, <2>6, <2>7, <2>10 DEF HeapMapped, Backed
  <1> QED BY <1>1, <1>14

LEMMA FreeKeepsMap ==
  ASSUME MapInv, HeapInv', NEW addr, free(addr)
  PROVE  MapInv' /\ HeapIsLocal /\ KeepsSharedPages
  <1>1. pc = "heap" /\ UNCHANGED <<managed, fb_addr, loaded, pc, offset, ret>>
    BY DEF free
  <1>2. /\ fb_addr' \in {FB_PHYS, FB_VIRT} /\ loaded' \in BOOLEAN /\ offset' \in Nat /\ ret' \in Nat
        /\ pc' \in {"identity", "kernel", "framebuffer", "up", "heap"}
        /\ freed \in BOOLEAN
    BY <1>1 DEF MapInv
  <1>3. CASE UNCHANGED <<freespace, allocations, mem, freed>>
    BY <1>1, <1>2, <1>3, MapStutters
  <1>4. ASSUME NEW alloc \in 1 .. ALLOCATIONS,
               addr \in Heap, allocations[alloc].addr = addr,
               allocations' = Changed(allocations, alloc, NoMem),
               mem' = FreePages(AddrsToFree(allocations[alloc], allocations')) \/ mem' = mem,
               freed' = (freed \/ mem'.free # mem.free)
        PROVE  MapInv' /\ HeapIsLocal /\ KeepsSharedPages
    <2>1. /\ managed \in ManagedSets /\ managed \in SUBSET Nat
          /\ Managed(mem, managed) /\ HeapInv
      BY ManagedSetsAssumption DEF MapInv
    <2>2. PICK block : block = allocations[alloc]
      OBVIOUS
    <2>3. block \in mem_t /\ block.size # 0 /\ allocations \in AllocTables
      <3>1. block \in mem_t /\ allocations \in AllocTables
        BY <2>1, <2>2, TypesOfTables
      <3>2. addr # 0
        BY <1>4, HeapAssumption DEF Heap
      <3>3. block # NoMem
        BY <1>4, <2>2, <3>2 DEF NoMem
      <3> QED BY <2>2, <3>1, <3>3 DEF MapInv
    <2>4. /\ allocations'[alloc] = NoMem
          /\ \A k \in 1 .. ALLOCATIONS : k # alloc => allocations'[k] = allocations[k]
      BY <1>4, <2>3 DEF Changed, AllocTables
    <2>5. PICK m2 : m2 = mem'
      OBVIOUS
    <2>6. Managed(m2, managed) /\ m2.tables = mem.tables /\ mem.free \subseteq m2.free
      <3>1. CASE m2 = mem
        BY <2>1, <3>1
      <3>2. CASE m2 = FreePages(AddrsToFree(block, allocations'))
        <4>1. PICK table, addrs : table = allocations' /\ addrs = AddrsToFree(block, table)
          OBVIOUS
        <4>2. Len(addrs) \in Nat
          BY <2>3, <4>1, LookedUpAddresses
        <4> QED BY <2>1, <3>2, <4>1, <4>2, PagesAreFreed
      <3> QED BY <1>4, <2>2, <2>5, <3>1, <3>2
    <2>7. ~freed' => ~freed /\ m2 = mem
      BY <1>4, <2>1, <2>5, <2>6, MemoryIsRecord
    <2>8. freed' \in BOOLEAN
      BY <1>2, <1>4
    <2>9. \A k \in 1 .. ALLOCATIONS : allocations'[k].size = 0 => allocations'[k] = NoMem
      BY <2>4 DEF MapInv
    <2>10. BlocksAreMapped'
      <3>1. SUFFICES ASSUME ~freed', mem'.free # {}, NEW k \in 1 .. ALLOCATIONS,
                            allocations'[k].size # 0, allocations'[k].addr % PAGE_SIZE = 0
                     PROVE  \A v \in VirtPagesOf(allocations'[k]) : Tr(m2, v) # 0
        BY <2>5 DEF BlocksAreMapped
      <3>2. allocations'[k] = allocations[k]
        BY <2>4, <3>1 DEF NoMem
      <3> QED BY <2>5, <2>7, <3>1, <3>2 DEF MapInv, BlocksAreMapped
    <2>11. MapInv'
      BY <1>1, <1>2, <2>1, <2>5, <2>6, <2>7, <2>8, <2>9, <2>10 DEF MapInv
    <2>12. HeapIsLocal
      <3>1. \A v : Tr(m2, v) = Tr(mem, v)
        BY <2>6 DEF Tr, find_physaddr
      <3> QED BY <2>5, <3>1, RemappedPages DEF HeapIsLocal
    <2>13. KeepsSharedPages
      <3>1. SUFFICES ASSUME NEW other \in Live', ~freed, other \in Live,
                            PageOf(other.addr) = LastPage(other)
                     PROVE  Backing(other) \cap (m2.free \ mem.free) = {}
        BY <2>5 DEF KeepsSharedPages
      <3>2. CASE m2 = mem
        BY <3>2
      <3>3. CASE m2 = FreePages(AddrsToFree(block, allocations'))
        <4>1. PICK l \in 1 .. ALLOCATIONS : allocations'[l].size # 0 /\ other = allocations'[l]
          BY <3>1 DEF Live
        <4>2. l # alloc /\ other = allocations[l] /\ allocations[l].size # 0
          BY <2>4, <4>1 DEF NoMem
        <4>3. PICK table : table = allocations'
          OBVIOUS
        <4>4. /\ table = Changed(allocations, alloc, NoMem)
              /\ m2 = FreePages(AddrsToFree(allocations[alloc], table))
              /\ allocations[alloc].size # 0
          BY <1>4, <2>2, <2>3, <3>3, <4>3
        <4> QED BY <3>1, <4>2, <4>4, FreedPagesAreNotShared
      <3> QED BY <1>4, <2>2, <2>5, <3>2, <3>3
    <2> QED BY <2>11, <2>12, <2>13
  <1>5. \/ UNCHANGED <<freespace, allocations, mem, freed>>
        \/ /\ addr \in Heap
           /\ freed' = (freed \/ mem'.free # mem.free)
           /\ \E alloc \in 1 .. ALLOCATIONS :
                /\ allocations[alloc].addr = addr
                /\ allocations' = Changed(allocations, alloc, NoMem)
                /\ \/ mem' = FreePages(AddrsToFree(allocations[alloc], allocations'))
                   \/ mem' = mem
    BY DEF free, IsFirst, Changed, Heap
  <1> QED BY <1>3, <1>4, <1>5

-----------------------------------------------------------------------------
LEMMA MapPreserved == MapInv /\ [Next]_vars => MapInv' /\ BootIsLocal /\ HeapIsLocal /\ KeepsSharedPages
  <1> SUFFICES ASSUME MapInv, [Next]_vars
               PROVE  MapInv' /\ BootIsLocal /\ HeapIsLocal /\ KeepsSharedPages
    OBVIOUS
  <1>1. HeapInv'
    BY HeapPreserved DEF MapInv
  <1>2. CASE init_paging /\ UNCHANGED <<freespace, allocations, ret, freed>>
    BY <1>1, <1>2, BootKeepsMap, BootIsLocalToItsPage
  <1>3. CASE init_malloc
    <2>1. /\ pc # "heap" /\ pc' = "heap"
          /\ UNCHANGED <<managed, mem, fb_addr, loaded, offset, allocations, ret, freed>>
      BY <1>3 DEF init_malloc
    <2>2. BlocksAreMapped'
      BY <2>1 DEF MapInv, BlocksAreMapped
    <2>3. MapInv'
      BY <1>1, <2>1, <2>2 DEF MapInv
    <2>4. mem'.free \ mem.free = {}
      BY <2>1
    <2> QED BY <2>1, <2>3, <2>4, BootIsLocalToItsPage DEF HeapIsLocal, KeepsSharedPages
  <1>4. CASE \E size \in Sizes : malloc(size)
    BY <1>1, <1>4, MallocKeepsMap, BootIsLocalToItsPage
  <1>5. CASE \E addr \in FreedAddrs : free(addr)
    BY <1>1, <1>5, FreeKeepsMap, BootIsLocalToItsPage
  <1>6. CASE UNCHANGED vars
    <2>1. UNCHANGED <<managed, mem, fb_addr, loaded, pc, offset, freespace, allocations, ret, freed>>
      BY <1>6 DEF vars, pagingVars
    <2>2. /\ fb_addr' \in {FB_PHYS, FB_VIRT} /\ loaded' \in BOOLEAN /\ offset' \in Nat /\ ret' \in Nat
          /\ pc' \in {"identity", "kernel", "framebuffer", "up", "heap"}
      BY <2>1 DEF MapInv
    <2> QED BY <1>1, <2>1, <2>2, MapStutters, BootIsLocalToItsPage
  <1> QED BY <1>2, <1>3, <1>4, <1>5, <1>6 DEF Next, init_memory

LEMMA MapInvGivesOneUse ==
  ASSUME MapInv
  PROVE  EveryPageHasOneUse
  <1>1. /\ managed \in ManagedSets /\ Managed(mem, managed) /\ HeapInv
        /\ IsFiniteSet(managed) /\ 0 \notin managed
    BY ManagedSetsAssumption DEF MapInv
  <1>2. TypeOK
    <2>1. freespace \in [1 .. FREE_SPACES -> mem_t] /\ allocations \in [1 .. ALLOCATIONS -> mem_t]
      BY <1>1 DEF HeapInv, AllocTables, FreeTables
    <2>2. \A t \in DOMAIN mem.tables : mem.tables[t] \in [0 .. (ENTRIES - 1) -> Entry]
      BY <1>1, MemType DEF Managed, Names, Rows, Idx
    <2> QED BY <1>1, <2>1, <2>2 DEF TypeOK, MapInv, Managed, Names
  <1>3. ASSUME ~freed
        PROVE  TablesFormATree
    <2>1. PICK lv : Tree(mem, lv)
      BY <1>3 DEF MapInv, HeapMapped
    <2>2. IsFiniteSet(Names(mem))
      <3>1. IsFiniteSet(managed \cup {PML4})
        BY <1>1, FS_AddElement
      <3> QED BY <1>1, <3>1, FS_Subset DEF Managed
    <2> QED BY <2>1, <2>2, TreeIsATree
  <1>4. ASSUME ~freed
        PROVE  /\ \A v, w \in HeapPages : v # w /\ Tr(mem, v) # 0 => Tr(mem, v) # Tr(mem, w)
               /\ \A v \in HeapPages : PageOf(Tr(mem, v)) \notin mem.free \cup (Names(mem) \ {PML4})
    <2>1. Backed(mem, managed)
      BY <1>4 DEF MapInv, HeapMapped
    <2>2. ASSUME NEW v \in HeapPages
          PROVE  PageOf(Tr(mem, v)) \notin mem.free \cup (Names(mem) \ {PML4})
      <3>1. CASE Tr(mem, v) = 0
        <4>1. PageOf(0) = 0
          BY PhysAddress, PagingSizesAssumption, QuotientIsUnique DEF PageOf
        <4> QED BY <1>1, <3>1, <4>1 DEF Managed, PML4
      <3>2. CASE Tr(mem, v) # 0
        <4>1. PICK p \in managed : Tr(mem, v) = p * PAGE_SIZE /\ p \notin mem.free /\ p \notin Names(mem)
          BY <2>1, <3>2 DEF Backed
        <4>2. PageOf(Tr(mem, v)) = p
          BY <1>1, <4>1, PhysAddress, ManagedSetsAssumption
        <4> QED BY <4>1, <4>2
      <3> QED BY <3>1, <3>2
    <2> QED BY <2>1, <2>2 DEF Backed
  <1>5. BackingIsExclusive
    BY <1>4 DEF BackingIsExclusive, Tr, Names
  <1> QED BY <1>2, <1>3, <1>5 DEF EveryPageHasOneUse, TablesStayATree

(* Every page of memory has one use, until free() gives its first page     *)
(* back: it is free, or one table of the tree of page tables, or behind    *)
(* one page of the heap; wherever memory ran out while init_paging() and   *)
(* malloc() were mapping, and in whatever order they made tables.          *)
THEOREM PagesHaveOneUse == Spec => []EveryPageHasOneUse
  <1> QED BY MapStarts, MapPreserved, MapInvGivesOneUse, PTL DEF Spec

(* No step of init_paging(), malloc() or free() changes the translation of *)
(* a page other than those it is about, whatever tables it had to make on  *)
(* the way and wherever that failed.                                       *)
THEOREM MappingStaysLocal == Spec => MappingIsLocal
  <1> QED BY MapStarts, MapPreserved, PTL DEF Spec, MappingIsLocal, BootIsLocal, HeapIsLocal

(* The first call of free() that gives pages back gives none back that is  *)
(* behind another block in use, if that block fits into one page.          *)
THEOREM SharedPagesAreKept == Spec => FreeKeepsSharedPages
  <1> QED BY MapStarts, MapPreserved, PTL DEF Spec, FreeKeepsSharedPages, KeepsSharedPages

-----------------------------------------------------------------------------
(* What the loops of init_paging() map                                     *)

LowIsMapped(m, size) == \A v \in VIRT_PAGES : v * PAGE_SIZE < size => Tr(m, v) = v * PAGE_SIZE

(* Bytes of a region of size bytes are mapped as far as the loop has got.  *)
RegionIsMapped(m, virt, phys, size, done) ==
  \A o \in 0 .. (size - 1) : o < done => find_physaddr(m, virt + o) = phys + o

(* Only low memory lies in large pages.                                    *)
HighIsSmall(m) ==
  \A w \in Nat : FIRST_4GB <= VirtPage(w) * PAGE_SIZE => ~InLargePage(m, w)

(* A region whose bytes share a page only when they should                 *)
Region(virt, phys, size) ==
  /\ virt % PAGE_SIZE = 0 /\ phys % PAGE_SIZE = 0
  /\ \A o \in 0 .. (size - 1) : FIRST_4GB <= VirtPage(virt + o) * PAGE_SIZE
  /\ \A o, q \in 0 .. (size - 1) :
       VirtPage(virt + o) = VirtPage(virt + q) => o \div PAGE_SIZE = q \div PAGE_SIZE

LEMMA MultiplesAdd ==
  ASSUME NEW d \in Nat \ {0}, NEW a \in Nat, a % d = 0, NEW b \in Nat, b % d = 0
  PROVE  \E s \in Nat : a + b = d * s
  <1>1. \A n \in Nat : n % d = 0 => \E q \in Nat : n = d * q
    <2>1. ASSUME NEW n \in Nat, n % d = 0
          PROVE  \E q \in Nat : n = d * q
      <3>1. PICK q \in Nat, r \in Nat : q = n \div d /\ r = n % d /\ r < d /\ n = d * q + r
        BY QuotientAndRest
      <3>2. r = 0 /\ d * q \in Nat
        BY <2>1, <3>1
      <3>3. n = d * q
        BY <3>1, <3>2
      <3> QED BY <3>3
    <2> QED BY <2>1
  <1>2. PICK p \in Nat : a = d * p
    BY <1>1
  <1>3. PICK q \in Nat : b = d * q
    BY <1>1
  <1>4. d * (p + q) = d * p + d * q /\ p + q \in Nat
    OBVIOUS
  <1> QED BY <1>2, <1>3, <1>4

LEMMA PageStart ==
  ASSUME NEW d \in Nat \ {0}, NEW s \in Nat, NEW a \in Nat, a = d * s
  PROVE  a \div d = s /\ a % d = 0 /\ (a \div d) * d = a
  <1>1. a = d * s + 0 /\ s * d = a
    OBVIOUS
  <1>2. a \div d = s /\ a % d = 0
    BY <1>1, QuotientIsUnique
  <1> QED BY <1>1, <1>2

(* One round of a loop maps the next page of its region.                   *)
LEMMA RegionGrows ==
  ASSUME NEW virt \in Nat, NEW phys \in Nat, NEW size \in Nat, Region(virt, phys, size),
         NEW o \in Nat, o < size, o % PAGE_SIZE = 0,
         NEW m, NEW m2, NEW lv2, PageMapped(m, m2, phys + o, virt + o, lv2),
         HighIsSmall(m), m2.free # {},
         RegionIsMapped(m, virt, phys, size, o)
  PROVE  RegionIsMapped(m2, virt, phys, size, o + PAGE_SIZE)
  <1>1. PAGE_SIZE \in Nat \ {0} /\ o \in 0 .. (size - 1)
    BY PagingSizesAssumption
  <1>2. virt % PAGE_SIZE = 0 /\ phys % PAGE_SIZE = 0
    BY DEF Region
  <1>3. PICK v \in Nat, p \in Nat, page \in Nat :
          v = virt + o /\ p = phys + o /\ page = p \div PAGE_SIZE
    BY <1>1
  <1>7. PICK s \in Nat : v = PAGE_SIZE * s
    <2>1. PICK s \in Nat : virt + o = PAGE_SIZE * s
      BY <1>1, <1>2, MultiplesAdd
    <2> QED BY <1>3, <2>1, Zenon
  <1>8. PICK t \in Nat : p = PAGE_SIZE * t
    <2>1. PICK t \in Nat : phys + o = PAGE_SIZE * t
      BY <1>1, <1>2, MultiplesAdd
    <2> QED BY <1>3, <2>1, Zenon
  <1>9. v % PAGE_SIZE = 0 /\ p % PAGE_SIZE = 0 /\ page * PAGE_SIZE = p
    <2>1. v % PAGE_SIZE = 0
      BY <1>1, <1>7, PageStart
    <2>2. p % PAGE_SIZE = 0 /\ (p \div PAGE_SIZE) * PAGE_SIZE = p
      BY <1>1, <1>8, PageStart
    <2> QED BY <1>3, <2>1, <2>2
  <1>4. ~InLargePage(m, v)
    BY <1>1, <1>3 DEF Region, HighIsSmall
  <1>5. MapsTo(m, m2, v, page)
    BY <1>3, <1>4, <1>9 DEF PageMapped
  <1>6. ASSUME NEW x \in 0 .. (size - 1), x < o + PAGE_SIZE
        PROVE  find_physaddr(m2, virt + x) = phys + x
    <2>1. virt + x \in Nat /\ phys + x \in Nat /\ x \in Nat
      OBVIOUS
    <2>2. CASE x < o
      <3>1. x \div PAGE_SIZE # o \div PAGE_SIZE
        <4>1. PICK q \in Nat, r \in Nat :
                q = o \div PAGE_SIZE /\ r = o % PAGE_SIZE /\ o = PAGE_SIZE * q + r
          BY <1>1, QuotientAndRest
        <4>2. PICK i \in Nat, j \in Nat :
                i = x \div PAGE_SIZE /\ j = x % PAGE_SIZE /\ x = PAGE_SIZE * i + j
          BY <1>1, <2>1, QuotientAndRest
        <4> QED BY <1>1, <2>2, <4>1, <4>2
      <3>2. VirtPage(virt + x) # VirtPage(v)
        BY <1>1, <1>3, <3>1 DEF Region
      <3>3. SameWalk(m, m2, virt + x)
        BY <1>3, <2>1, <3>2 DEF PageMapped
      <3> QED BY <2>2, <3>3 DEF SameWalk, RegionIsMapped
    <2>3. CASE ~(x < o)
      <3>1. PICK r \in Nat : x = o + r /\ r < PAGE_SIZE
        <4>1. x - o \in Nat /\ x = o + (x - o) /\ x - o < PAGE_SIZE
          BY <1>1, <1>6, <2>1, <2>3
        <4> QED BY <4>1
      <3>2. PICK w \in Nat : w = virt + x /\ w = v + r /\ phys + x = p + r
        BY <1>3, <3>1
      <3>3. w \div PAGE_SIZE = v \div PAGE_SIZE /\ w % PAGE_SIZE = r
        <4>1. w \div PAGE_SIZE = s /\ w % PAGE_SIZE = r
          <5>1. w = PAGE_SIZE * s + r /\ r < PAGE_SIZE
            BY <1>7, <3>1, <3>2
          <5> QED BY <1>1, <5>1, QuotientIsUnique
        <4>2. v \div PAGE_SIZE = s
          BY <1>1, <1>7, PageStart
        <4> QED BY <4>1, <4>2
      <3>4. VirtPage(w) = VirtPage(v)
        BY <3>3 DEF VirtPage
      <3>5. find_physaddr(m2, w) = page * PAGE_SIZE + (w % PAGE_SIZE)
        BY <1>5, <3>4 DEF MapsTo
      <3> QED BY <1>9, <3>2, <3>3, <3>5
    <2> QED BY <2>2, <2>3
  <1> QED BY <1>6 DEF RegionIsMapped

(* ... and leaves what is mapped elsewhere.                                *)
LEMMA RegionStays ==
  ASSUME NEW virt \in Nat, NEW phys \in Nat, NEW size \in Nat, NEW done,
         NEW v \in Nat, NEW m, NEW m2, NEW lv2, NEW p, PageMapped(m, m2, p, v, lv2),
         \A o \in 0 .. (size - 1) : VirtPage(virt + o) # VirtPage(v),
         RegionIsMapped(m, virt, phys, size, done)
  PROVE  RegionIsMapped(m2, virt, phys, size, done)
  <1>1. \A o \in 0 .. (size - 1) : virt + o \in Nat
    OBVIOUS
  <1> QED BY <1>1 DEF PageMapped, SameWalk, RegionIsMapped

LEMMA LowStays ==
  ASSUME NEW v \in Nat, FIRST_4GB <= VirtPage(v) * PAGE_SIZE,
         NEW m, NEW m2, NEW lv2, NEW p, PageMapped(m, m2, p, v, lv2),
         LowIsMapped(m, FIRST_4GB)
  PROVE  LowIsMapped(m2, FIRST_4GB)
  <1>1. ASSUME NEW u \in VIRT_PAGES, u * PAGE_SIZE < FIRST_4GB
        PROVE  Tr(m2, u) = Tr(m, u)
    <2>1. u * PAGE_SIZE \in Nat /\ VirtPage(u * PAGE_SIZE) = u
      BY PageAddress
    <2>2. u # VirtPage(v)
      <3>1. PICK x \in Nat, f \in Nat : x = u * PAGE_SIZE /\ f = FIRST_4GB
        BY <2>1, PagingSizesAssumption
      <3>2. x < f /\ (u = VirtPage(v) => f <= x)
        BY <1>1, <3>1
      <3> QED BY <3>1, <3>2
    <2> QED BY <2>1, <2>2 DEF PageMapped, SameWalk, Tr
  <1> QED BY <1>1 DEF LowIsMapped

LEMMA SmallStays ==
  ASSUME NEW v \in Nat, NEW m, NEW m2, NEW lv2, NEW p, PageMapped(m, m2, p, v, lv2),
         HighIsSmall(m)
  PROVE  HighIsSmall(m2)
  <1>1. ASSUME NEW w \in Nat, ~InLargePage(m, w)
        PROVE  ~InLargePage(m2, w)
    BY <1>1 DEF PageMapped, MapsTo, SameWalk
  <1> QED BY <1>1 DEF HighIsSmall

(* Large pages *)
LEMMA LargePageOf ==
  ASSUME NEW v \in VIRT_PAGES
  PROVE  v * PAGE_SIZE \in Nat /\ v \div ENTRIES = (v * PAGE_SIZE) \div PAGE_2M
  <1>1. PAGE_SIZE \in Nat \ {0} /\ ENTRIES \in Nat \ {0}
    BY PagingSizesAssumption
  <1>2. PICK a \in Nat : a = v * PAGE_SIZE /\ a \div PAGE_SIZE = v
    BY PageAddress
  <1>3. a \div PAGE_2M = (a \div PAGE_SIZE) \div ENTRIES
    BY <1>1, DivideTwice DEF PAGE_2M
  <1> QED BY <1>2, <1>3

(* A round of the first loop maps the next large page one to one.          *)
LEMMA LowGrows ==
  ASSUME NEW o \in Nat, o < FIRST_4GB, o % PAGE_2M = 0,
         NEW m, NEW m2, NEW lv2, LargePageMapped(m, m2, o, o, lv2), m2.free # {},
         LowIsMapped(m, o)
  PROVE  LowIsMapped(m2, o + PAGE_2M)
  <1>1. PICK d \in Nat \ {0} : d = PAGE_2M
    BY PagingSizesAssumption DEF PAGE_2M
  <1>2. VirtPage(o) \div ENTRIES = o \div d
    <2>1. kernel_heap \in Heap
      BY HeapAssumption DEF Heap
    <2> QED BY <1>1, <2>1, HeapIsOnItsPages, LowMemoryIsBelowTheHeap
  <1>3. PICK t \in Nat : t = o \div d /\ o = d * t
    <2>1. PICK t \in Nat, r \in Nat : t = o \div d /\ r = o % d /\ r < d /\ o = d * t + r
      BY QuotientAndRest
    <2>2. r = 0 /\ d * t \in Nat
      BY <1>1, <2>1
    <2>3. o = d * t
      BY <2>1, <2>2
    <2> QED BY <2>1, <2>3
  <1>4. (o \div PAGE_SIZE) * PAGE_SIZE = o
    <2>1. PICK n \in Nat : n = ENTRIES * t
      BY PagingSizesAssumption
    <2>2. o = PAGE_SIZE * n
      BY <1>1, <1>3, <2>1, PagingSizesAssumption DEF PAGE_2M
    <2> QED BY <2>1, <2>2, PageStart, PagingSizesAssumption
  <1>5. ASSUME NEW v \in VIRT_PAGES, v * PAGE_SIZE < o + d
        PROVE  Tr(m2, v) = v * PAGE_SIZE
    <2>1. PICK a \in Nat : a = v * PAGE_SIZE /\ v \div ENTRIES = a \div d /\ VirtPage(a) = v
      BY <1>1, LargePageOf, PageAddress
    <2>2. PICK s \in Nat, r \in Nat : s = a \div d /\ r = a % d /\ r < d /\ a = d * s + r
      BY QuotientAndRest
    <2>3. CASE s = t
      <3>1. find_physaddr(m2, a) = (o \div PAGE_SIZE) * PAGE_SIZE + (a % PAGE_2M)
        BY <1>1, <1>2, <1>3, <2>1, <2>2, <2>3 DEF LargePageMapped
      <3>2. find_physaddr(m2, a) = o + r
        BY <1>1, <1>4, <2>2, <3>1
      <3>3. o + r = a
        BY <1>3, <2>2, <2>3
      <3> QED BY <2>1, <3>2, <3>3 DEF Tr
    <2>4. CASE s # t
      <3>1. SameWalk(m, m2, a)
        BY <1>2, <1>3, <2>1, <2>2, <2>4 DEF LargePageMapped
      <3>2. a < o
        <4>1. s > t => d * s >= d * (t + 1)
          BY <1>1
        <4>2. d * (t + 1) = d * t + d
          BY <1>1
        <4>3. s < t => d * t >= d * (s + 1)
          BY <1>1
        <4>4. d * (s + 1) = d * s + d
          BY <1>1
        <4>5. a < o + d
          BY <1>5, <2>1
        <4>6. ~(s > t)
          BY <1>1, <1>3, <2>2, <4>1, <4>2, <4>5
        <4> QED BY <1>1, <1>3, <2>2, <2>4, <4>3, <4>4, <4>6
      <3> QED BY <2>1, <3>1, <3>2 DEF SameWalk, Tr, LowIsMapped
    <2> QED BY <2>3, <2>4
  <1> QED BY <1>1, <1>5 DEF LowIsMapped

LEMMA SmallStaysAbove ==
  ASSUME NEW o \in Nat, o < FIRST_4GB,
         NEW m, NEW m2, NEW lv2, LargePageMapped(m, m2, o, o, lv2), HighIsSmall(m)
  PROVE  HighIsSmall(m2)
  <1>1. PICK d \in Nat \ {0} : d = PAGE_2M
    BY PagingSizesAssumption DEF PAGE_2M
  <1>2. VirtPage(o) \div ENTRIES = o \div d
    <2>1. kernel_heap \in Heap
      BY HeapAssumption DEF Heap
    <2> QED BY <1>1, <2>1, HeapIsOnItsPages, LowMemoryIsBelowTheHeap
  <1>3. PICK t \in Nat : FIRST_4GB = d * t
    <2>1. FIRST_4GB \in Nat /\ FIRST_4GB % d = 0
      BY <1>1, PagingSizesAssumption, RegionsAreApartAssumption
    <2>2. PICK t \in Nat, r \in Nat : t = FIRST_4GB \div d /\ r = FIRST_4GB % d /\ FIRST_4GB = d * t + r
      BY <2>1, QuotientAndRest
    <2>3. r = 0 /\ d * t \in Nat
      BY <1>1, <2>1, <2>2
    <2> QED BY <2>2, <2>3
  <1>4. ASSUME NEW w \in Nat, FIRST_4GB <= VirtPage(w) * PAGE_SIZE
        PROVE  ~InLargePage(m2, w)
    <2>1. VirtPage(w) \in VIRT_PAGES
      <3>1. PICK n \in Nat \ {0} : n = ENTRIES * ENTRIES * ENTRIES * ENTRIES
        BY PagingSizesAssumption
      <3>2. w \div PAGE_SIZE \in Nat
        BY PagingSizesAssumption, QuotientAndRest
      <3>3. VirtPage(w) \in 0 .. (n - 1)
        BY <3>1, <3>2, QuotientAndRest DEF VirtPage
      <3> QED BY <3>1, <3>3 DEF VIRT_PAGES
    <2>2. PICK a \in Nat : a = VirtPage(w) * PAGE_SIZE /\ VirtPage(w) \div ENTRIES = a \div d
      BY <1>1, <2>1, LargePageOf
    <2>3. PICK s \in Nat, r \in Nat : s = a \div d /\ r = a % d /\ r < d /\ a = d * s + r
      BY QuotientAndRest
    <2>4. PICK u \in Nat, q \in Nat : u = o \div d /\ q = o % d /\ q < d /\ o = d * u + q
      BY QuotientAndRest
    <2>5. s # u
      <3>1. u >= t => d * u >= d * t
        BY <1>1
      <3>2. u < t => d * t >= d * (u + 1)
        BY <1>1
      <3>3. d * (u + 1) = d * u + d
        BY <1>1
      <3>4. o < d * t /\ d * t <= a
        BY <1>3, <1>4, <2>2
      <3>5. u < t
        BY <1>1, <1>3, <2>4, <3>1, <3>4
      <3>6. s = u => a < d * u + d
        BY <1>1, <2>3
      <3> QED BY <1>1, <1>3, <3>2, <3>3, <3>4, <3>5, <3>6
    <2>6. SameWalk(m, m2, w)
      BY <1>2, <2>2, <2>3, <2>4, <2>5 DEF LargePageMapped
    <2> QED BY <1>4, <2>6 DEF SameWalk, HighIsSmall
  <1> QED BY <1>4 DEF HighIsSmall

(* What init_paging() has mapped at each of its steps, unless the memory   *)
(* for tables ran out                                                      *)
ScreenSize == IF FB_PHYS # 0 THEN FB_SIZE ELSE 0

BootMapped(m, low, kernel, screen) ==
  m.free # {} =>
    /\ LowIsMapped(m, low)
    /\ RegionIsMapped(m, KERNEL_VADDR, KERNEL_PADDR, KERNEL_SIZE, kernel)
    /\ RegionIsMapped(m, FB_VIRT, FB_PHYS, FB_SIZE, screen)

BootInv ==
  /\ pc # "heap" => HighIsSmall(mem)
  /\ pc \in {"identity", "kernel", "framebuffer"} => fb_addr = FB_PHYS
  /\ pc = "identity" => offset % PAGE_2M = 0 /\ BootMapped(mem, offset, 0, 0)
  /\ pc = "kernel" => offset % PAGE_SIZE = 0 /\ BootMapped(mem, FIRST_4GB, offset, 0)
  /\ pc = "framebuffer" =>
       offset % PAGE_SIZE = 0 /\ BootMapped(mem, FIRST_4GB, KERNEL_SIZE, offset)
  /\ pc = "up" =>
       /\ BootMapped(mem, FIRST_4GB, KERNEL_SIZE, ScreenSize)
       /\ mem.free # {} => loaded
       /\ fb_addr = FB_VIRT => FB_PHYS # 0

LEMMA Regions ==
  /\ Region(KERNEL_VADDR, KERNEL_PADDR, KERNEL_SIZE)
  /\ Region(FB_VIRT, FB_PHYS, FB_SIZE)
  BY RegionsAreApartAssumption DEF Region

LEMMA NextOffset ==
  ASSUME NEW d \in Nat \ {0}, NEW o \in Nat, o % d = 0
  PROVE  o + d \in Nat /\ (o + d) % d = 0
  <1>1. PICK q \in Nat, r \in Nat : q = o \div d /\ r = o % d /\ r < d /\ o = d * q + r
    BY QuotientAndRest
  <1>2. PICK s \in Nat : s = q + 1 /\ d * s = d * q + d
    OBVIOUS
  <1>3. PICK n \in Nat : n = o + d /\ n = d * s
    BY <1>1, <1>2
  <1>4. n % d = 0
    BY <1>3, PageStart
  <1> QED BY <1>3, <1>4

LEMMA BootInvStarts == Init => BootInv
  <1> SUFFICES ASSUME Init
               PROVE  BootInv
    OBVIOUS
  <1>1. /\ managed \in ManagedSets
        /\ mem = [free |-> managed, tables |-> [t \in {PML4} |-> EmptyTable]]
        /\ fb_addr = FB_PHYS /\ pc = "identity" /\ offset = 0
    BY DEF Init, PagingInit
  <1>2. BootMapped(mem, 0, 0, 0)
    BY PageAddress DEF BootMapped, LowIsMapped, RegionIsMapped
  <1>3. HighIsSmall(mem)
    <2>1. ASSUME NEW w \in Nat
          PROVE  ~InLargePage(mem, w)
      <3>1. Index(w, 4) \in Idx
        BY IndexFits
      <3>2. mem.tables[PML4] = EmptyTable
        BY <1>1
      <3>3. ~E4(mem, w).present
        BY <3>1, <3>2, EntryTypes DEF E4
      <3> QED BY <3>3 DEF InLargePage, At2, At3
    <2> QED BY <2>1 DEF HighIsSmall
  <1>4. 0 % PAGE_2M = 0
    BY PagingSizesAssumption DEF PAGE_2M
  <1> QED BY <1>1, <1>2, <1>3, <1>4 DEF BootInv

(* The three loops *)
LEMMA LowRound ==
  ASSUME MapInv, BootInv, MapIdentity
  PROVE  BootInv'
  <1>1. /\ pc = "identity" /\ pc' = "identity" /\ offset < FIRST_4GB
        /\ mem' = map_2mb_page(mem, offset, offset) /\ offset' = offset + PAGE_2M
        /\ fb_addr' = fb_addr
    BY DEF MapIdentity
  <1>2. managed \in ManagedSets /\ HeapUnmapped(mem, managed) /\ offset \in Nat
    BY <1>1 DEF MapInv
  <1>3. PICK lv : Tree(mem, lv) /\ \A t \in Names(mem) : lv[t] > 1
    BY <1>1 DEF MapInv
  <1>4. PICK m2 : m2 = mem'
    OBVIOUS
  <1>5. PICK lv2 : LargePageMapped(mem, m2, offset, offset, lv2)
    <2>1. \E lv2 : LargePageMapped(mem, m2, offset, offset, lv2)
      BY <1>1, <1>2, <1>3, <1>4, LowMemoryIsMapped
    <2> QED BY <2>1
  <1>6. HighIsSmall(m2)
    BY <1>1, <1>2, <1>5, SmallStaysAbove DEF BootInv
  <1>7. m2.free # {} => LowIsMapped(m2, offset + PAGE_2M)
    <2>1. SUFFICES ASSUME m2.free # {}
                   PROVE  LowIsMapped(m2, offset + PAGE_2M)
      OBVIOUS
    <2>2. mem.free # {}
      BY <1>5, <2>1 DEF LargePageMapped, Kept
    <2>3. LowIsMapped(mem, offset) /\ offset % PAGE_2M = 0
      BY <1>1, <2>2 DEF BootInv, BootMapped
    <2> QED BY <1>1, <1>2, <1>5, <2>1, <2>3, LowGrows
  <1>8. offset' % PAGE_2M = 0
    <2>1. PICK d \in Nat \ {0} : d = PAGE_2M
      BY PagingSizesAssumption DEF PAGE_2M
    <2> QED BY <1>1, <1>2, <2>1, NextOffset DEF BootInv
  <1>9. \A virt, phys, size : RegionIsMapped(m2, virt, phys, size, 0)
    BY DEF RegionIsMapped
  <1>10. BootMapped(m2, offset', 0, 0)
    BY <1>1, <1>7, <1>9 DEF BootMapped
  <1> QED BY <1>1, <1>4, <1>6, <1>8, <1>10 DEF BootInv

LEMMA KernelRound ==
  ASSUME MapInv, BootInv, MapKernel
  PROVE  BootInv'
  <1>1. /\ pc = "kernel" /\ pc' = "kernel" /\ offset < KERNEL_SIZE /\ offset' = offset + PAGE_SIZE
        /\ mem' = map_page(mem, KERNEL_PADDR + offset, KERNEL_VADDR + offset)
        /\ fb_addr' = fb_addr
    BY DEF MapKernel
  <1>2. managed \in ManagedSets /\ HeapUnmapped(mem, managed) /\ offset \in Nat
    BY <1>1 DEF MapInv
  <1>3. PICK phys \in Nat, v \in Nat : phys = KERNEL_PADDR + offset /\ v = KERNEL_VADDR + offset
    BY <1>2, PagingSizesAssumption
  <1>4. offset \in 0 .. (KERNEL_SIZE - 1) /\ KERNEL_SIZE \in Nat
    BY <1>1, <1>2, PagingSizesAssumption
  <1>5. /\ phys \div PAGE_SIZE \notin managed /\ VirtPage(v) \notin HeapPages
        /\ FIRST_4GB <= VirtPage(v) * PAGE_SIZE
    BY <1>2, <1>3, <1>4, NotManagedAssumption, HeapIsApartAssumption, RegionsAreApartAssumption
  <1>6. PICK m2 : m2 = mem'
    OBVIOUS
  <1>7. PICK lv2 : PageMapped(mem, m2, phys, v, lv2)
    <2>1. m2 = map_page(mem, phys, v)
      BY <1>1, <1>3, <1>6
    <2>2. \E lv2 : PageMapped(mem, m2, phys, v, lv2)
      BY <1>2, <1>5, <2>1, ImagePageIsMapped
    <2> QED BY <2>2
  <1>8. HighIsSmall(mem) /\ offset % PAGE_SIZE = 0 /\ BootMapped(mem, FIRST_4GB, offset, 0)
    BY <1>1 DEF BootInv
  <1>9. HighIsSmall(m2)
    BY <1>7, <1>8, SmallStays
  <1>10. BootMapped(m2, FIRST_4GB, offset + PAGE_SIZE, 0)
    <2>1. SUFFICES ASSUME m2.free # {}
                   PROVE  BootMapped(m2, FIRST_4GB, offset + PAGE_SIZE, 0)
      BY DEF BootMapped
    <2>2. mem.free # {}
      BY <1>7, <2>1 DEF PageMapped, Kept
    <2>3. /\ LowIsMapped(mem, FIRST_4GB)
          /\ RegionIsMapped(mem, KERNEL_VADDR, KERNEL_PADDR, KERNEL_SIZE, offset)
      BY <1>8, <2>2 DEF BootMapped
    <2>4. LowIsMapped(m2, FIRST_4GB)
      BY <1>5, <1>7, <2>3, LowStays
    <2>5. RegionIsMapped(m2, KERNEL_VADDR, KERNEL_PADDR, KERNEL_SIZE, offset + PAGE_SIZE)
      <3>1. KERNEL_VADDR \in Nat /\ KERNEL_PADDR \in Nat
        BY PagingSizesAssumption
      <3>2. PageMapped(mem, m2, KERNEL_PADDR + offset, KERNEL_VADDR + offset, lv2)
        BY <1>3, <1>7
      <3> QED BY <1>1, <1>2, <1>4, <1>8, <2>1, <2>3, <3>1, <3>2, Regions, RegionGrows
    <2>6. RegionIsMapped(m2, FB_VIRT, FB_PHYS, FB_SIZE, 0)
      BY DEF RegionIsMapped
    <2> QED BY <2>4, <2>5, <2>6 DEF BootMapped
  <1>11. offset' % PAGE_SIZE = 0
    BY <1>1, <1>2, <1>8, NextOffset, PagingSizesAssumption
  <1> QED BY <1>1, <1>6, <1>9, <1>10, <1>11 DEF BootInv

LEMMA ScreenRound ==
  ASSUME MapInv, BootInv, MapFramebuffer
  PROVE  BootInv'
  <1>1. /\ pc = "framebuffer" /\ pc' = "framebuffer" /\ FB_PHYS # 0 /\ offset < FB_SIZE
        /\ offset' = offset + PAGE_SIZE
        /\ mem' = map_page(mem, FB_PHYS + offset, FB_VIRT + offset)
        /\ fb_addr' = fb_addr
    BY DEF MapFramebuffer
  <1>2. managed \in ManagedSets /\ HeapUnmapped(mem, managed) /\ offset \in Nat
    BY <1>1 DEF MapInv
  <1>3. PICK phys \in Nat, v \in Nat : phys = FB_PHYS + offset /\ v = FB_VIRT + offset
    BY <1>2, PagingSizesAssumption
  <1>4. offset \in 0 .. (FB_SIZE - 1) /\ FB_SIZE \in Nat
    BY <1>1, <1>2, PagingSizesAssumption
  <1>5. /\ phys \div PAGE_SIZE \notin managed /\ VirtPage(v) \notin HeapPages
        /\ FIRST_4GB <= VirtPage(v) * PAGE_SIZE
    BY <1>1, <1>2, <1>3, <1>4, NotManagedAssumption, HeapIsApartAssumption,
       RegionsAreApartAssumption
  <1>6. PICK m2 : m2 = mem'
    OBVIOUS
  <1>7. PICK lv2 : PageMapped(mem, m2, phys, v, lv2)
    <2>1. m2 = map_page(mem, phys, v)
      BY <1>1, <1>3, <1>6
    <2>2. \E lv2 : PageMapped(mem, m2, phys, v, lv2)
      BY <1>2, <1>5, <2>1, ImagePageIsMapped
    <2> QED BY <2>2
  <1>8. HighIsSmall(mem) /\ offset % PAGE_SIZE = 0 /\ BootMapped(mem, FIRST_4GB, KERNEL_SIZE, offset)
    BY <1>1 DEF BootInv
  <1>9. HighIsSmall(m2)
    BY <1>7, <1>8, SmallStays
  <1>10. BootMapped(m2, FIRST_4GB, KERNEL_SIZE, offset + PAGE_SIZE)
    <2>1. SUFFICES ASSUME m2.free # {}
                   PROVE  BootMapped(m2, FIRST_4GB, KERNEL_SIZE, offset + PAGE_SIZE)
      BY DEF BootMapped
    <2>2. mem.free # {}
      BY <1>7, <2>1 DEF PageMapped, Kept
    <2>3. /\ LowIsMapped(mem, FIRST_4GB)
          /\ RegionIsMapped(mem, KERNEL_VADDR, KERNEL_PADDR, KERNEL_SIZE, KERNEL_SIZE)
          /\ RegionIsMapped(mem, FB_VIRT, FB_PHYS, FB_SIZE, offset)
      BY <1>8, <2>2 DEF BootMapped
    <2>4. LowIsMapped(m2, FIRST_4GB)
      BY <1>5, <1>7, <2>3, LowStays
    <2>5. RegionIsMapped(m2, KERNEL_VADDR, KERNEL_PADDR, KERNEL_SIZE, KERNEL_SIZE)
      <3>1. \A o \in 0 .. (KERNEL_SIZE - 1) : VirtPage(KERNEL_VADDR + o) # VirtPage(v)
        BY <1>3, <1>4, RegionsAreApartAssumption
      <3>2. KERNEL_VADDR \in Nat /\ KERNEL_PADDR \in Nat /\ KERNEL_SIZE \in Nat
        BY PagingSizesAssumption
      <3> QED BY <1>7, <2>3, <3>1, <3>2, RegionStays
    <2>6. RegionIsMapped(m2, FB_VIRT, FB_PHYS, FB_SIZE, offset + PAGE_SIZE)
      <3>1. FB_VIRT \in Nat /\ FB_PHYS \in Nat
        BY PagingSizesAssumption
      <3>2. PageMapped(mem, m2, FB_PHYS + offset, FB_VIRT + offset, lv2)
        BY <1>3, <1>7
      <3> QED BY <1>1, <1>2, <1>4, <1>8, <2>1, <2>3, <3>1, <3>2, Regions, RegionGrows
    <2> QED BY <2>4, <2>5, <2>6 DEF BootMapped
  <1>11. offset' % PAGE_SIZE = 0
    BY <1>1, <1>2, <1>8, NextOffset, PagingSizesAssumption
  <1> QED BY <1>1, <1>6, <1>9, <1>10, <1>11 DEF BootInv

(* Their ends *)
LEMMA MappedFurther ==
  ASSUME NEW m, NEW done \in Nat, NEW less \in Nat, less <= done
  PROVE  /\ LowIsMapped(m, done) => LowIsMapped(m, less)
         /\ \A virt, phys, size :
              RegionIsMapped(m, virt, phys, size, done) => RegionIsMapped(m, virt, phys, size, less)
  <1>1. ASSUME NEW x \in Nat, x < less
        PROVE  x < done
    BY <1>1
  <1>2. \A v \in VIRT_PAGES : v * PAGE_SIZE \in Nat
    BY PageAddress
  <1>3. LowIsMapped(m, done) => LowIsMapped(m, less)
    BY <1>1, <1>2 DEF LowIsMapped
  <1>4. ASSUME NEW size, NEW o \in 0 .. (size - 1), o < less
        PROVE  o < done
    BY <1>4
  <1> QED BY <1>3, <1>4 DEF RegionIsMapped

LEMMA LoopEnds ==
  ASSUME MapInv, BootInv, IdentityDone \/ KernelDone \/ FramebufferDone
  PROVE  BootInv'
  <1>1. /\ offset \in Nat /\ FIRST_4GB \in Nat /\ KERNEL_SIZE \in Nat /\ KERNEL_VADDR \in Nat
        /\ KERNEL_PADDR \in Nat
        /\ ScreenSize \in Nat /\ PAGE_SIZE \in Nat \ {0} /\ 0 % PAGE_SIZE = 0
    BY PagingSizesAssumption DEF MapInv, ScreenSize
  <1>2. CASE IdentityDone
    <2>1. /\ pc = "identity" /\ pc' = "kernel" /\ offset' = 0 /\ FIRST_4GB <= offset
          /\ UNCHANGED <<mem, fb_addr>>
      BY <1>1, <1>2 DEF IdentityDone, NextLoop
    <2>2. BootMapped(mem, FIRST_4GB, 0, 0)
      BY <1>1, <2>1, MappedFurther DEF BootInv, BootMapped
    <2> QED BY <1>1, <2>1, <2>2 DEF BootInv
  <1>3. CASE KernelDone
    <2>1. /\ pc = "kernel" /\ pc' = "framebuffer" /\ offset' = 0 /\ KERNEL_SIZE <= offset
          /\ UNCHANGED <<mem, fb_addr>>
      BY <1>1, <1>3 DEF KernelDone, NextLoop
    <2>2. BootMapped(mem, FIRST_4GB, KERNEL_SIZE, 0)
      BY <1>1, <2>1, MappedFurther DEF BootInv, BootMapped
    <2> QED BY <1>1, <2>1, <2>2 DEF BootInv
  <1>4. CASE FramebufferDone
    <2>1. /\ pc = "framebuffer" /\ pc' = "up" /\ ScreenSize <= offset /\ UNCHANGED mem
          /\ fb_addr' = (IF FB_PHYS # 0 /\ FB_SIZE # 0 THEN FB_VIRT ELSE fb_addr)
          /\ loaded' = (find_physaddr(mem, KERNEL_VADDR) # 0)
      BY <1>1, <1>4 DEF FramebufferDone, NextLoop, ScreenSize
    <2>2. BootMapped(mem, FIRST_4GB, KERNEL_SIZE, ScreenSize)
      BY <1>1, <2>1, MappedFurther DEF BootInv, BootMapped
    <2>3. mem.free # {} => loaded'
      <3>1. SUFFICES ASSUME mem.free # {}
                     PROVE  find_physaddr(mem, KERNEL_VADDR) # 0
        BY <2>1
      <3>2. RegionIsMapped(mem, KERNEL_VADDR, KERNEL_PADDR, KERNEL_SIZE, KERNEL_SIZE)
        BY <2>2, <3>1 DEF BootMapped
      <3>3. KERNEL_PADDR # 0 /\ 0 \in 0 .. (KERNEL_SIZE - 1) /\ 0 < KERNEL_SIZE
        BY <1>1, RegionsAreApartAssumption
      <3>4. find_physaddr(mem, KERNEL_VADDR + 0) = KERNEL_PADDR + 0
        BY <3>2, <3>3 DEF RegionIsMapped
      <3>5. KERNEL_VADDR + 0 = KERNEL_VADDR /\ KERNEL_PADDR + 0 = KERNEL_PADDR
        BY <1>1
      <3> QED BY <3>3, <3>4, <3>5
    <2>4. fb_addr' = FB_VIRT => FB_PHYS # 0
      BY <2>1, RegionsAreApartAssumption DEF BootInv
    <2> QED BY <2>1, <2>2, <2>3, <2>4 DEF BootInv
  <1> QED BY <1>2, <1>3, <1>4

LEMMA BootInvPreserved == MapInv /\ BootInv /\ [Next]_vars => BootInv'
  <1> SUFFICES ASSUME MapInv, BootInv, [Next]_vars
               PROVE  BootInv'
    OBVIOUS
  <1>1. CASE init_paging
    BY <1>1, LowRound, KernelRound, ScreenRound, LoopEnds DEF init_paging
  <1>2. CASE init_malloc \/ (\E size \in Sizes : malloc(size)) \/ (\E addr \in FreedAddrs : free(addr))
    <2>1. pc' = "heap"
      BY <1>2 DEF init_malloc, malloc, free
    <2> QED BY <2>1 DEF BootInv
  <1>3. CASE UNCHANGED vars
    <2>1. UNCHANGED <<mem, fb_addr, loaded, pc, offset>>
      BY <1>3 DEF vars, pagingVars
    <2> QED BY <2>1 DEF BootInv
  <1> QED BY <1>1, <1>2, <1>3 DEF Next, init_memory

LEMMA BootInvGivesMapping == MapInv /\ BootInv => MappedWhileMemoryLasts
  <1> SUFFICES ASSUME MapInv, BootInv
               PROVE  MappedWhileMemoryLasts
    OBVIOUS
  <1>1. BootMapsEverything
    <2>1. SUFFICES ASSUME pc = "up", mem.free # {}
                   PROVE  /\ loaded
                          /\ \A v \in VIRT_PAGES : v * PAGE_SIZE < FIRST_4GB =>
                               find_physaddr(mem, v * PAGE_SIZE) = v * PAGE_SIZE
                          /\ \A o \in 0 .. (KERNEL_SIZE - 1) :
                               find_physaddr(mem, KERNEL_VADDR + o) = KERNEL_PADDR + o
                          /\ fb_addr = FB_VIRT =>
                               \A o \in 0 .. (FB_SIZE - 1) :
                                 find_physaddr(mem, FB_VIRT + o) = FB_PHYS + o
      BY DEF BootMapsEverything
    <2>2. /\ loaded /\ (fb_addr = FB_VIRT => FB_PHYS # 0)
          /\ LowIsMapped(mem, FIRST_4GB)
          /\ RegionIsMapped(mem, KERNEL_VADDR, KERNEL_PADDR, KERNEL_SIZE, KERNEL_SIZE)
          /\ RegionIsMapped(mem, FB_VIRT, FB_PHYS, FB_SIZE, ScreenSize)
      BY <2>1 DEF BootInv, BootMapped
    <2>3. KERNEL_SIZE \in Nat /\ FB_SIZE \in Nat /\ (FB_PHYS # 0 => ScreenSize = FB_SIZE)
      BY PagingSizesAssumption DEF ScreenSize
    <2>4. ASSUME NEW size \in Nat, NEW o \in 0 .. (size - 1)
          PROVE  o < size
      OBVIOUS
    <2> QED BY <2>2, <2>3, <2>4 DEF LowIsMapped, RegionIsMapped, Tr
  <1>2. AlignedBlocksAreMapped
    <2>1. SUFFICES ASSUME ~freed, mem.free # {}, NEW block \in Live,
                          block.addr % PAGE_SIZE = 0, NEW v \in VirtPagesOf(block)
                   PROVE  Tr(mem, v) # 0
      BY DEF AlignedBlocksAreMapped, Tr
    <2>2. PICK k \in 1 .. ALLOCATIONS : allocations[k].size # 0 /\ block = allocations[k]
      BY DEF Live
    <2> QED BY <2>1, <2>2 DEF MapInv, BlocksAreMapped
  <1> QED BY <1>1, <1>2 DEF MappedWhileMemoryLasts

(* When init_paging() is done the low memory, the whole kernel and the     *)
(* whole framebuffer are mapped to where they are, and malloc() maps every *)
(* page of a block that starts on a page boundary, unless the last free    *)
(* page was used up; for every machine and every order of calls.           *)
THEOREM MemoryIsMapped == Spec => []MappedWhileMemoryLasts
  <1> QED BY MapStarts, MapPreserved, BootInvStarts, BootInvPreserved, BootInvGivesMapping,
            PTL DEF Spec

=============================================================================
