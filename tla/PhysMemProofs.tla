--------------------------- MODULE PhysMemProofs ---------------------------
(***************************************************************************)
(* Proofs about the physical page allocator, for every page size, every    *)
(* size of the region tables and every memory map of disjoint entries.     *)
(***************************************************************************)
EXTENDS PhysMem, SequenceTheorems, FiniteSetTheorems, TLAPS

-----------------------------------------------------------------------------
(* What inserting into and removing from a table does, element by element  *)

(* RemoveAt closes the gap, as the shifting loops of the code do.          *)
LEMMA RemoveAtProps ==
  ASSUME NEW S, NEW s \in Seq(S), NEW n \in 1 .. Len(s)
  PROVE  /\ RemoveAt(s, n) \in Seq(S)
         /\ Len(RemoveAt(s, n)) = Len(s) - 1
         /\ \A k \in 1 .. (Len(s) - 1) :
              RemoveAt(s, n)[k] = IF k < n THEN s[k] ELSE s[k + 1]
  <1> DEFINE a == SubSeq(s, 1, n - 1)
             b == SubSeq(s, n + 1, Len(s))
  <1>1. /\ a \in Seq(S)
        /\ Len(a) = n - 1
        /\ \A k \in 1 .. (n - 1) : a[k] = s[k]
    BY SubSeqProperties
  <1>2. /\ b \in Seq(S)
        /\ Len(b) = Len(s) - n
        /\ \A k \in 1 .. (Len(s) - n) : b[k] = s[n + k]
    BY SubSeqProperties
  <1>3. RemoveAt(s, n) = a \o b
    BY DEF RemoveAt
  <1> HIDE DEF a, b
  <1>4. /\ a \o b \in Seq(S)
        /\ Len(a \o b) = Len(a) + Len(b)
        /\ \A k \in 1 .. (Len(a) + Len(b)) :
             (a \o b)[k] = IF k <= Len(a) THEN a[k] ELSE b[k - Len(a)]
    BY <1>1, <1>2, ConcatProperties
  <1> QED BY <1>1, <1>2, <1>3, <1>4

(* ReplaceAt writes one slot.                                              *)
LEMMA ReplaceAtProps ==
  ASSUME NEW S, NEW s \in Seq(S), NEW e \in S, NEW n \in 1 .. Len(s)
  PROVE  /\ ReplaceAt(s, n, e) \in Seq(S)
         /\ Len(ReplaceAt(s, n, e)) = Len(s)
         /\ \A k \in 1 .. Len(s) : ReplaceAt(s, n, e)[k] = IF k = n THEN e ELSE s[k]
  BY ExceptSeq DEF ReplaceAt

(* InsertAt opens a gap at n and fills it.                                 *)
LEMMA InsertAtProps ==
  ASSUME NEW S, NEW s \in Seq(S), NEW e \in S, NEW n \in 1 .. (Len(s) + 1)
  PROVE  /\ InsertAt(s, n, e) \in Seq(S)
         /\ Len(InsertAt(s, n, e)) = Len(s) + 1
         /\ \A k \in 1 .. (Len(s) + 1) :
              InsertAt(s, n, e)[k] = IF k < n THEN s[k]
                                     ELSE IF k = n THEN e ELSE s[k - 1]
  <1> DEFINE a == SubSeq(s, 1, n - 1)
             b == SubSeq(s, n, Len(s))
             c == a \o <<e>>
  <1>1. /\ a \in Seq(S)
        /\ Len(a) = n - 1
        /\ \A k \in 1 .. (n - 1) : a[k] = s[k]
    BY SubSeqProperties
  <1>2. /\ b \in Seq(S)
        /\ Len(b) = Len(s) - n + 1
        /\ \A k \in 1 .. (Len(s) - n + 1) : b[k] = s[n + k - 1]
    BY SubSeqProperties
  <1>3. /\ <<e>> \in Seq(S)
        /\ Len(<<e>>) = 1
        /\ <<e>>[1] = e
    OBVIOUS
  <1> HIDE DEF a, b
  <1>4. /\ c \in Seq(S)
        /\ Len(c) = n
        /\ \A k \in 1 .. n : c[k] = IF k < n THEN s[k] ELSE e
    <2>1. /\ a \o <<e>> \in Seq(S)
          /\ Len(a \o <<e>>) = Len(a) + Len(<<e>>)
          /\ \A k \in 1 .. (Len(a) + Len(<<e>>)) :
               (a \o <<e>>)[k] = IF k <= Len(a) THEN a[k] ELSE <<e>>[k - Len(a)]
      BY <1>1, <1>3, ConcatProperties
    <2> QED BY <1>1, <1>3, <2>1
  <1>5. InsertAt(s, n, e) = c \o b
    BY DEF InsertAt, a, b
  <1> HIDE DEF c
  <1>6. /\ c \o b \in Seq(S)
        /\ Len(c \o b) = Len(c) + Len(b)
        /\ \A k \in 1 .. (Len(c) + Len(b)) :
             (c \o b)[k] = IF k <= Len(c) THEN c[k] ELSE b[k - Len(c)]
    BY <1>2, <1>4, ConcatProperties
  <1> QED BY <1>2, <1>4, <1>5, <1>6

-----------------------------------------------------------------------------
(* A round of the insertion sort permutes j .. n and nothing else.         *)
LEMMA MoveDownProps ==
  ASSUME NEW S, NEW s \in Seq(S), NEW n \in 1 .. Len(s), NEW j \in 1 .. n
  PROVE  /\ MoveDown(s, n, j) \in Seq(S)
         /\ Len(MoveDown(s, n, j)) = Len(s)
         /\ \A k \in 1 .. Len(s) :
              MoveDown(s, n, j)[k] = IF k < j \/ k > n THEN s[k]
                                     ELSE IF k = j THEN s[n] ELSE s[k - 1]
  <1> DEFINE r == RemoveAt(s, n)
  <1>1. /\ r \in Seq(S)
        /\ Len(r) = Len(s) - 1
        /\ \A k \in 1 .. (Len(s) - 1) : r[k] = IF k < n THEN s[k] ELSE s[k + 1]
    BY RemoveAtProps
  <1>2. s[n] \in S /\ j \in 1 .. (Len(r) + 1)
    BY <1>1
  <1> HIDE DEF r
  <1>3. /\ InsertAt(r, j, s[n]) \in Seq(S)
        /\ Len(InsertAt(r, j, s[n])) = Len(r) + 1
        /\ \A k \in 1 .. (Len(r) + 1) :
              InsertAt(r, j, s[n])[k] = IF k < j THEN r[k]
                                        ELSE IF k = j THEN s[n] ELSE r[k - 1]
    <2> DEFINE e == s[n]
    <2>1. r \in Seq(S) /\ e \in S /\ j \in 1 .. (Len(r) + 1)
      BY <1>1, <1>2
    <2> HIDE DEF e
    <2>2. /\ InsertAt(r, j, e) \in Seq(S)
          /\ Len(InsertAt(r, j, e)) = Len(r) + 1
          /\ \A k \in 1 .. (Len(r) + 1) :
                InsertAt(r, j, e)[k] = IF k < j THEN r[k]
                                       ELSE IF k = j THEN e ELSE r[k - 1]
      BY <2>1, InsertAtProps
    <2> QED BY <2>2 DEF e
  <1>4. MoveDown(s, n, j) = InsertAt(r, j, s[n])
    BY DEF MoveDown, r
  <1>5. ASSUME NEW k \in 1 .. Len(s)
        PROVE  MoveDown(s, n, j)[k] = IF k < j \/ k > n THEN s[k]
                                      ELSE IF k = j THEN s[n] ELSE s[k - 1]
    <2>1. CASE k < j
      BY <1>1, <1>3, <1>4, <2>1
    <2>2. CASE k = j
      BY <1>1, <1>3, <1>4, <2>2
    <2>3. CASE k > j
      <3>1. MoveDown(s, n, j)[k] = r[k - 1] /\ k - 1 \in 1 .. (Len(s) - 1)
        BY <1>1, <1>3, <1>4, <2>3
      <3>2. r[k - 1] = IF k - 1 < n THEN s[k - 1] ELSE s[k - 1 + 1]
        BY <1>1, <3>1
      <3> QED BY <2>3, <3>1, <3>2
    <2> QED BY <2>1, <2>2, <2>3
  <1> QED BY <1>1, <1>3, <1>4, <1>5

-----------------------------------------------------------------------------
(* Division by the page size                                               *)

LEMMA DivNat ==
  ASSUME NEW a \in Nat, NEW c \in Nat \ {0}
  PROVE  a \div c \in Nat
  OBVIOUS

LEMMA DivBounds ==
  ASSUME NEW a \in Nat, NEW c \in Nat \ {0}
  PROVE  c * (a \div c) <= a /\ a < c * (a \div c) + c
  OBVIOUS

LEMMA TimesMonotonic ==
  ASSUME NEW a \in Nat, NEW b \in Nat, NEW c \in Nat \ {0}, a <= b
  PROVE  c * a <= c * b
  OBVIOUS

LEMMA DivMonotonic ==
  ASSUME NEW a \in Nat, NEW b \in Nat, NEW c \in Nat \ {0}, a <= b
  PROVE  a \div c <= b \div c
  <1> DEFINE x == a \div c
             y == b \div c
  <1>1. x \in Nat /\ y \in Nat /\ c * x <= a /\ b < c * y + c
    BY DivNat, DivBounds
  <1> HIDE DEF x, y
  <1>2. SUFFICES ASSUME y + 1 <= x
                 PROVE  FALSE
    BY <1>1 DEF x, y
  <1>3. c * (y + 1) <= c * x
    BY <1>1, <1>2, TimesMonotonic
  <1>4. c * (y + 1) = c * y + c
    BY <1>1
  <1> QED BY <1>1, <1>3, <1>4

(* The region of an entry that is kept is a region, without page 0.        *)
LEMMA EntryRegionProps ==
  ASSUME NEW e \in MemMapEntry, Kept(e)
  PROVE  /\ EntryRegion(e) \in Region
         /\ EntryRegion(e).base = FirstPage(e)
         /\ EntryRegion(e).base > 0
         /\ EntryRegion(e).pages > 0
         /\ End(EntryRegion(e)) = EndPage(e)
  <1>1. e.base + PAGE_SIZE - 1 \in Nat /\ e.base + e.length \in Nat
    BY PageSizeAssumption DEF MemMapEntry
  <1>2. (e.base + PAGE_SIZE - 1) \div PAGE_SIZE \in Nat
    BY <1>1, DivNat, PageSizeAssumption
  <1>3. FirstPage(e) \in Nat /\ FirstPage(e) > 0
    BY <1>2 DEF FirstPage
  <1>4. EndPage(e) \in Nat
    BY <1>1, DivNat, PageSizeAssumption DEF EndPage
  <1> QED BY <1>3, <1>4 DEF EntryRegion, Kept, Region, End

(* Entries that do not overlap have regions that do not overlap: an entry's *)
(* end is rounded down and the next one's base is rounded up.              *)
LEMMA EntryRegionsApart ==
  ASSUME NEW e \in MemMapEntry, NEW f \in MemMapEntry, Kept(e), Kept(f),
         e.base + e.length <= f.base \/ f.base + f.length <= e.base
  PROVE  Apart(EntryRegion(e), EntryRegion(f))
  <1>1. ASSUME NEW g \in MemMapEntry, NEW h \in MemMapEntry, Kept(g), Kept(h),
               g.base + g.length <= h.base
        PROVE  EndPage(g) <= FirstPage(h)
    <2>1. /\ g.base + g.length \in Nat
          /\ h.base + PAGE_SIZE - 1 \in Nat
          /\ g.base + g.length <= h.base + PAGE_SIZE - 1
      BY <1>1, PageSizeAssumption DEF MemMapEntry
    <2>2. (g.base + g.length) \div PAGE_SIZE <= (h.base + PAGE_SIZE - 1) \div PAGE_SIZE
      BY <2>1, DivMonotonic, PageSizeAssumption
    <2>3. (h.base + PAGE_SIZE - 1) \div PAGE_SIZE <= FirstPage(h)
      BY <2>1, DivNat, PageSizeAssumption DEF FirstPage
    <2>4. /\ (g.base + g.length) \div PAGE_SIZE \in Nat
          /\ (h.base + PAGE_SIZE - 1) \div PAGE_SIZE \in Nat
      BY <2>1, DivNat, PageSizeAssumption
    <2> QED BY <2>2, <2>3, <2>4 DEF EndPage, FirstPage
  <1>2. /\ EntryRegion(e).base = FirstPage(e) /\ End(EntryRegion(e)) = EndPage(e)
        /\ EntryRegion(f).base = FirstPage(f) /\ End(EntryRegion(f)) = EndPage(f)
    BY EntryRegionProps
  <1> QED BY <1>1, <1>2 DEF Apart

-----------------------------------------------------------------------------
(* Tables of regions                                                       *)

LEMMA RegionFields ==
  ASSUME NEW s \in Seq(Region), NEW k \in 1 .. Len(s)
  PROVE  /\ s[k] \in Region
         /\ s[k].base \in Nat
         /\ s[k].pages \in Nat
         /\ End(s[k]) = s[k].base + s[k].pages
         /\ End(s[k]) \in Nat
  <1>1. s[k] \in Region
    BY ElementOfSeq
  <1> QED BY <1>1 DEF Region, End

LEMMA PagesOfMember ==
  ASSUME NEW s \in Seq(Region), NEW p
  PROVE  p \in PagesOf(s) <=>
           \E k \in 1 .. Len(s) : p \in Nat /\ s[k].base <= p /\ p < End(s[k])
  <1>1. \A k \in 1 .. Len(s) : s[k].base \in Nat /\ End(s[k]) \in Nat
    BY RegionFields
  <1>2. \A k \in 1 .. Len(s) :
          p \in Pages(s[k]) <=> p \in Nat /\ s[k].base <= p /\ p < End(s[k])
    BY <1>1 DEF Pages
  <1> QED BY <1>2 DEF PagesOf

(* The tables that are sorted, merged and without page 0                   *)
Table == {s \in Seq(Region) : Coalesced(s) /\ Proper(s)}

LEMMA TableFacts ==
  ASSUME NEW s \in Table
  PROVE  /\ s \in Seq(Region) /\ Len(s) \in Nat
         /\ \A k \in 1 .. Len(s) :
              /\ s[k] \in Region /\ s[k].base \in Nat /\ s[k].pages \in Nat
              /\ s[k].base > 0 /\ s[k].pages > 0
              /\ End(s[k]) = s[k].base + s[k].pages /\ End(s[k]) \in Nat
         /\ \A k, l \in 1 .. Len(s) : k < l => End(s[k]) < s[l].base
         /\ \A p : p \in PagesOf(s) <=>
              \E k \in 1 .. Len(s) : p \in Nat /\ s[k].base <= p /\ p < End(s[k])
  <1>1. s \in Seq(Region) /\ Coalesced(s) /\ Proper(s)
    BY DEF Table
  <1>2. \A k \in 1 .. Len(s) : s[k].base > 0 /\ s[k].pages > 0
    BY <1>1 DEF Proper
  <1>3. \A k, l \in 1 .. Len(s) : k < l => End(s[k]) < s[l].base
    BY <1>1 DEF Coalesced
  <1> QED BY <1>1, <1>2, <1>3, RegionFields, PagesOfMember, LenProperties

LEMMA TableIntro ==
  ASSUME NEW s \in Seq(Region),
         \A k \in 1 .. Len(s) : s[k].base > 0 /\ s[k].pages > 0,
         \A k, l \in 1 .. Len(s) : k < l => End(s[k]) < s[l].base
  PROVE  s \in Table
  BY DEF Table, Coalesced, Proper

LEMMA PagesMember ==
  ASSUME NEW r \in Region, NEW p
  PROVE  p \in Pages(r) <=> p \in Nat /\ r.base <= p /\ p < End(r)
  BY DEF Pages, Region, End

(* Removing a region removes its pages and no other.                       *)
LEMMA RemoveRegion ==
  ASSUME NEW s \in Table, NEW n \in 1 .. Len(s)
  PROVE  /\ RemoveAt(s, n) \in Table
         /\ Len(RemoveAt(s, n)) = Len(s) - 1
         /\ PagesOf(RemoveAt(s, n)) = PagesOf(s) \ Pages(s[n])
  <1> DEFINE t == RemoveAt(s, n)
  <1>1. /\ t \in Seq(Region) /\ Len(t) = Len(s) - 1
        /\ \A k \in 1 .. (Len(s) - 1) : t[k] = IF k < n THEN s[k] ELSE s[k + 1]
    BY TableFacts, RemoveAtProps
  <1> HIDE DEF t
  <1>2. Len(s) \in Nat
    BY TableFacts
  <1>3. ASSUME NEW k \in 1 .. Len(t)
        PROVE  /\ t[k] = s[IF k < n THEN k ELSE k + 1]
               /\ (IF k < n THEN k ELSE k + 1) \in 1 .. Len(s)
    BY <1>1, <1>2
  <1>4. t \in Table
    <2>1. ASSUME NEW k \in 1 .. Len(t)
          PROVE  t[k].base > 0 /\ t[k].pages > 0
      BY <1>3, TableFacts
    <2>2. ASSUME NEW k \in 1 .. Len(t), NEW l \in 1 .. Len(t), k < l
          PROVE  End(t[k]) < t[l].base
      <3> DEFINE a == IF k < n THEN k ELSE k + 1
                 b == IF l < n THEN l ELSE l + 1
      <3>1. a \in 1 .. Len(s) /\ b \in 1 .. Len(s) /\ a < b /\ t[k] = s[a] /\ t[l] = s[b]
        BY <1>3, <2>2
      <3> HIDE DEF a, b
      <3> QED BY <3>1, TableFacts
    <2> QED BY <1>1, <2>1, <2>2, TableIntro
  <1>5. ASSUME NEW p \in PagesOf(t)
        PROVE  p \in PagesOf(s) /\ p \notin Pages(s[n])
    <2>1. PICK k \in 1 .. Len(t) : p \in Nat /\ t[k].base <= p /\ p < End(t[k])
      BY <1>4, TableFacts
    <2>2. PICK m \in 1 .. Len(s) : m # n /\ t[k] = s[m]
      BY <1>3
    <2>3. p \in PagesOf(s)
      BY <2>1, <2>2, TableFacts
    <2>4. End(s[m]) < s[n].base \/ End(s[n]) < s[m].base
      BY <2>2, TableFacts
    <2>5. ~(s[n].base <= p /\ p < End(s[n]))
      <3>1. /\ p \in Nat /\ s[m].base <= p /\ p < End(s[m])
            /\ s[m].base \in Nat /\ End(s[m]) \in Nat
            /\ s[n].base \in Nat /\ End(s[n]) \in Nat
        BY <2>1, <2>2, TableFacts
      <3> QED BY <2>4, <3>1
    <2> QED BY <2>3, <2>5, PagesMember, TableFacts
  <1>6. ASSUME NEW p \in PagesOf(s), p \notin Pages(s[n])
        PROVE  p \in PagesOf(t)
    <2>1. PICK m \in 1 .. Len(s) : p \in Nat /\ s[m].base <= p /\ p < End(s[m])
      BY TableFacts
    <2>2. m # n
      BY <1>6, <2>1, PagesMember, TableFacts
    <2> DEFINE k == IF m < n THEN m ELSE m - 1
    <2>3. k \in 1 .. Len(t) /\ t[k] = s[m]
      BY <1>1, <1>2, <2>2
    <2> HIDE DEF k
    <2> QED BY <1>4, <2>1, <2>3, TableFacts
  <1>7. PagesOf(t) = PagesOf(s) \ Pages(s[n])
    BY <1>5, <1>6
  <1> QED BY <1>1, <1>4, <1>7 DEF t

(* Writing a slot with a region that fits between its neighbours exchanges *)
(* the pages of the two regions and touches no other page.                 *)
LEMMA ReplaceRegion ==
  ASSUME NEW s \in Table, NEW n \in 1 .. Len(s),
         NEW r \in Region, r.base > 0, r.pages > 0,
         n > 1 => End(s[n - 1]) < r.base,
         n < Len(s) => End(r) < s[n + 1].base
  PROVE  /\ ReplaceAt(s, n, r) \in Table
         /\ Len(ReplaceAt(s, n, r)) = Len(s)
         /\ PagesOf(ReplaceAt(s, n, r)) = (PagesOf(s) \ Pages(s[n])) \cup Pages(r)
  <1> DEFINE t == ReplaceAt(s, n, r)
  <1>1. /\ t \in Seq(Region) /\ Len(t) = Len(s)
        /\ \A k \in 1 .. Len(s) : t[k] = IF k = n THEN r ELSE s[k]
    BY TableFacts, ReplaceAtProps
  <1> HIDE DEF t
  <1>2. Len(s) \in Nat /\ r.base \in Nat /\ r.pages \in Nat /\ End(r) = r.base + r.pages
    BY TableFacts DEF Region, End
  <1>3. ASSUME NEW k \in 1 .. Len(s), k < n
        PROVE  End(s[k]) < r.base
    <2>1. n - 1 \in 1 .. Len(s) /\ (k = n - 1 \/ k < n - 1)
      BY <1>2, <1>3
    <2>2. k = n - 1 \/ End(s[k]) < s[n - 1].base
      BY <2>1, TableFacts
    <2>3. /\ End(s[n - 1]) = s[n - 1].base + s[n - 1].pages
          /\ s[n - 1].base \in Nat /\ s[n - 1].pages \in Nat /\ End(s[k]) \in Nat
      BY <2>1, TableFacts
    <2>4. End(s[n - 1]) < r.base
      BY <1>3, <2>1
    <2> QED BY <1>2, <2>2, <2>3, <2>4
  <1>4. ASSUME NEW k \in 1 .. Len(s), n < k
        PROVE  End(r) < s[k].base
    <2>1. n + 1 \in 1 .. Len(s) /\ (k = n + 1 \/ n + 1 < k) /\ n < Len(s)
      BY <1>2, <1>4
    <2>2. k = n + 1 \/ End(s[n + 1]) < s[k].base
      BY <2>1, TableFacts
    <2>3. /\ End(s[n + 1]) = s[n + 1].base + s[n + 1].pages
          /\ s[n + 1].base \in Nat /\ s[n + 1].pages \in Nat /\ s[k].base \in Nat
      BY <2>1, TableFacts
    <2>4. End(r) < s[n + 1].base
      BY <2>1
    <2> QED BY SMTT(30), <1>2, <2>2, <2>3, <2>4
  <1>5. t \in Table
    <2>1. ASSUME NEW k \in 1 .. Len(t)
          PROVE  t[k].base > 0 /\ t[k].pages > 0
      BY <1>1, TableFacts
    <2>2. ASSUME NEW k \in 1 .. Len(t), NEW l \in 1 .. Len(t), k < l
          PROVE  End(t[k]) < t[l].base
      <3>1. CASE k = n
        BY <1>1, <1>4, <2>2, <3>1
      <3>2. CASE l = n
        BY <1>1, <1>3, <2>2, <3>2
      <3>3. CASE k # n /\ l # n
        BY <1>1, <2>2, <3>3, TableFacts
      <3> QED BY <3>1, <3>2, <3>3
    <2> QED BY <1>1, <2>1, <2>2, TableIntro
  <1>6. ASSUME NEW p \in PagesOf(t)
        PROVE  p \in (PagesOf(s) \ Pages(s[n])) \cup Pages(r)
    <2>1. PICK k \in 1 .. Len(t) : p \in Nat /\ t[k].base <= p /\ p < End(t[k])
      BY <1>5, TableFacts
    <2>2. CASE k = n
      BY <1>1, <2>1, <2>2, PagesMember
    <2>3. CASE k # n
      <3>1. /\ k \in 1 .. Len(s) /\ s[k].base <= p /\ p < End(s[k])
            /\ s[k].base \in Nat /\ End(s[k]) \in Nat
            /\ s[n].base \in Nat /\ End(s[n]) \in Nat
        BY <1>1, <2>1, <2>3, TableFacts
      <3>2. End(s[k]) < s[n].base \/ End(s[n]) < s[k].base
        BY <2>3, <3>1, TableFacts
      <3>3. p \in PagesOf(s)
        BY <2>1, <3>1, TableFacts
      <3>4. ~(s[n].base <= p /\ p < End(s[n]))
        BY <2>1, <3>1, <3>2
      <3> QED BY <3>3, <3>4, PagesMember, TableFacts
    <2> QED BY <2>2, <2>3
  <1>7. ASSUME NEW p, p \in PagesOf(s), p \notin Pages(s[n])
        PROVE  p \in PagesOf(t)
    <2>1. PICK k \in 1 .. Len(s) : p \in Nat /\ s[k].base <= p /\ p < End(s[k])
      BY <1>7, TableFacts
    <2>2. k # n
      BY <1>7, <2>1, PagesMember, TableFacts
    <2>3. k \in 1 .. Len(t) /\ t[k] = s[k]
      BY <1>1, <2>2
    <2> QED BY <1>5, <2>1, <2>3, TableFacts
  <1>8. ASSUME NEW p, p \in Pages(r)
        PROVE  p \in PagesOf(t)
    <2>1. p \in Nat /\ r.base <= p /\ p < End(r)
      BY <1>8, PagesMember
    <2>2. n \in 1 .. Len(t) /\ t[n] = r
      BY <1>1
    <2> QED BY <1>5, <2>1, <2>2, TableFacts
  <1>9. PagesOf(t) = (PagesOf(s) \ Pages(s[n])) \cup Pages(r)
    BY <1>6, <1>7, <1>8
  <1> QED BY <1>1, <1>5, <1>9 DEF t

(* Inserting a region that fits between its neighbours adds its pages.     *)
LEMMA InsertRegion ==
  ASSUME NEW s \in Table, NEW n \in 1 .. (Len(s) + 1),
         NEW r \in Region, r.base > 0, r.pages > 0,
         \A k \in 1 .. Len(s) : k < n => End(s[k]) < r.base,
         \A k \in 1 .. Len(s) : k >= n => End(r) < s[k].base
  PROVE  /\ InsertAt(s, n, r) \in Table
         /\ Len(InsertAt(s, n, r)) = Len(s) + 1
         /\ PagesOf(InsertAt(s, n, r)) = PagesOf(s) \cup Pages(r)
  <1> DEFINE t == InsertAt(s, n, r)
  <1>1. /\ t \in Seq(Region) /\ Len(t) = Len(s) + 1
        /\ \A k \in 1 .. (Len(s) + 1) :
             t[k] = IF k < n THEN s[k] ELSE IF k = n THEN r ELSE s[k - 1]
    BY TableFacts, InsertAtProps
  <1> HIDE DEF t
  <1>2. Len(s) \in Nat
    BY TableFacts
  <1>3. ASSUME NEW k \in 1 .. Len(t), k # n
        PROVE  /\ t[k] = s[IF k < n THEN k ELSE k - 1]
               /\ (IF k < n THEN k ELSE k - 1) \in 1 .. Len(s)
    BY <1>1, <1>2, <1>3
  <1>4. t[n] = r
    BY <1>1, <1>2
  <1>5. t \in Table
    <2>1. ASSUME NEW k \in 1 .. Len(t)
          PROVE  t[k].base > 0 /\ t[k].pages > 0
      <3>1. CASE k = n
        BY <1>4, <3>1
      <3>2. CASE k # n
        BY <1>3, <3>2, TableFacts
      <3> QED BY <3>1, <3>2
    <2>2. ASSUME NEW k \in 1 .. Len(t), NEW l \in 1 .. Len(t), k < l
          PROVE  End(t[k]) < t[l].base
      <3> DEFINE a == IF k < n THEN k ELSE k - 1
                 b == IF l < n THEN l ELSE l - 1
      <3>1. k # n => a \in 1 .. Len(s) /\ t[k] = s[a]
        BY <1>3
      <3>2. l # n => b \in 1 .. Len(s) /\ t[l] = s[b]
        BY <1>3
      <3>3. /\ k = n => b >= n
            /\ l = n => a < n
            /\ k # n /\ l # n => a < b
        BY <2>2
      <3> HIDE DEF a, b
      <3>4. CASE k = n
        BY <1>4, <2>2, <3>2, <3>3, <3>4
      <3>5. CASE l = n
        BY <1>4, <2>2, <3>1, <3>3, <3>5
      <3>6. CASE k # n /\ l # n
        BY <3>1, <3>2, <3>3, <3>6, TableFacts
      <3> QED BY <3>4, <3>5, <3>6
    <2> QED BY <1>1, <2>1, <2>2, TableIntro
  <1>6. ASSUME NEW p \in PagesOf(t)
        PROVE  p \in PagesOf(s) \cup Pages(r)
    <2>1. PICK k \in 1 .. Len(t) : p \in Nat /\ t[k].base <= p /\ p < End(t[k])
      BY <1>5, TableFacts
    <2>2. CASE k = n
      BY <1>4, <2>1, <2>2, PagesMember
    <2>3. CASE k # n
      BY <1>3, <2>1, <2>3, TableFacts
    <2> QED BY <2>2, <2>3
  <1>7. ASSUME NEW p, p \in PagesOf(s)
        PROVE  p \in PagesOf(t)
    <2>1. PICK k \in 1 .. Len(s) : p \in Nat /\ s[k].base <= p /\ p < End(s[k])
      BY <1>7, TableFacts
    <2> DEFINE m == IF k < n THEN k ELSE k + 1
    <2>2. m \in 1 .. Len(t) /\ t[m] = s[k]
      BY <1>1, <1>2
    <2> HIDE DEF m
    <2> QED BY <1>5, <2>1, <2>2, TableFacts
  <1>8. ASSUME NEW p, p \in Pages(r)
        PROVE  p \in PagesOf(t)
    <2>1. p \in Nat /\ r.base <= p /\ p < End(r)
      BY <1>8, PagesMember
    <2>2. n \in 1 .. Len(t)
      BY <1>1, <1>2
    <2> QED BY <1>4, <1>5, <2>1, <2>2, TableFacts
  <1>9. PagesOf(t) = PagesOf(s) \cup Pages(r)
    BY <1>6, <1>7, <1>8
  <1> QED BY <1>1, <1>5, <1>9 DEF t

-----------------------------------------------------------------------------
(* The operations on the free table                                        *)

(* phys_page_alloc() takes the lowest free page and that page only.        *)
LEMMA TakePageStep ==
  ASSUME free_regions \in Table, TakePage
  PROVE  /\ free_regions' \in Table
         /\ Len(free_regions') <= Len(free_regions)
         /\ ret' \in FreePages
         /\ \A q \in FreePages : ret' <= q
         /\ FreePages' = FreePages \ {ret'}
  <1> DEFINE s == free_regions
  <1>1. PICK k \in 1 .. Len(s) :
          /\ s[k].pages # 0
          /\ \A j \in 1 .. (k - 1) : s[j].pages = 0
          /\ s' = IF s[k].pages = 1
                    THEN RemoveAt(s, k)
                    ELSE ReplaceAt(s, k, [base |-> s[k].base + 1, pages |-> s[k].pages - 1])
          /\ ret' = s[k].base
    BY DEF TakePage
  <1>2. Len(s) \in Nat /\ \A j \in 1 .. Len(s) : s[j].pages > 0
    BY TableFacts
  <1>3. k = 1
    BY <1>1, <1>2
  <1>4. /\ s[1] \in Region /\ s[1].base \in Nat /\ s[1].pages \in Nat
        /\ s[1].base > 0 /\ s[1].pages > 0
        /\ End(s[1]) = s[1].base + s[1].pages
    BY <1>3, TableFacts
  <1>5. s[1].base \in PagesOf(s)
    <2>1. s[1].base \in Nat /\ s[1].base <= s[1].base /\ s[1].base < End(s[1])
      BY <1>4
    <2> QED BY <1>3, <2>1, TableFacts
  <1>6. ASSUME NEW q \in PagesOf(s)
        PROVE  s[1].base <= q
    <2>1. PICK m \in 1 .. Len(s) : q \in Nat /\ s[m].base <= q
      BY TableFacts
    <2>2. m = 1 \/ End(s[1]) < s[m].base
      BY <1>3, <2>1, TableFacts
    <2>3. s[m].base \in Nat
      BY TableFacts
    <2> QED BY <1>4, <2>1, <2>2, <2>3
  <1>7. CASE s[1].pages = 1
    <2>1. s' = RemoveAt(s, 1)
      BY <1>1, <1>3, <1>7
    <2>2. Pages(s[1]) = {s[1].base}
      <3>1. \A p : p \in Pages(s[1]) <=> p = s[1].base
        BY <1>4, <1>7, PagesMember
      <3> QED BY <3>1
    <2>3. s' \in Table /\ Len(s') = Len(s) - 1 /\ PagesOf(s') = PagesOf(s) \ {s[1].base}
      BY <1>3, <2>1, <2>2, RemoveRegion
    <2> QED BY <1>1, <1>2, <1>3, <1>5, <1>6, <2>3 DEF FreePages
  <1>8. CASE s[1].pages # 1
    <2> DEFINE r == [base |-> s[1].base + 1, pages |-> s[1].pages - 1]
    <2>1. /\ r \in Region /\ r.base = s[1].base + 1 /\ End(r) = End(s[1])
          /\ r.base > 0 /\ r.pages > 0
      BY <1>4, <1>8 DEF Region, End
    <2>2. s' = ReplaceAt(s, 1, r)
      BY <1>1, <1>3, <1>8
    <2> HIDE DEF r
    <2>3. 1 < Len(s) => End(r) < s[1 + 1].base
      BY <1>2, <2>1, TableFacts
    <2>4. /\ s' \in Table /\ Len(s') = Len(s)
          /\ PagesOf(s') = (PagesOf(s) \ Pages(s[1])) \cup Pages(r)
      BY <1>3, <2>1, <2>2, <2>3, ReplaceRegion
    <2>5. \A p : p \in Pages(r) <=> p \in Pages(s[1]) /\ p # s[1].base
      BY <1>4, <2>1, PagesMember
    <2>6. Pages(s[1]) \subseteq PagesOf(s)
      BY <1>3 DEF PagesOf
    <2>7. s[1].base \in Pages(s[1])
      BY <1>4, PagesMember
    <2>8. PagesOf(s') = PagesOf(s) \ {s[1].base}
      BY <2>4, <2>5, <2>6, <2>7
    <2> QED BY <1>1, <1>2, <1>3, <1>5, <1>6, <2>4, <2>8 DEF FreePages
  <1> QED BY <1>7, <1>8

(* Where the search of phys_insert_free_page() stops, every region before  *)
(* pos ends at or below p, and every other region starts above it.         *)
LEMMA InsertPosSplits ==
  ASSUME free_regions \in Table, NEW p \in Nat, p \notin FreePages,
         NEW pos \in 1 .. (Len(free_regions) + 1), InsertPos(p, pos)
  PROVE  /\ \A k \in 1 .. Len(free_regions) : k < pos => End(free_regions[k]) <= p
         /\ \A k \in 1 .. Len(free_regions) : k >= pos => p < free_regions[k].base
  <1> DEFINE s == free_regions
  <1>1. \A k \in 1 .. Len(s) : ~(s[k].base <= p /\ p < End(s[k]))
    BY TableFacts DEF FreePages
  <1>2. Len(s) \in Nat
    BY TableFacts
  <1>3. ASSUME NEW k \in 1 .. Len(s), k < pos
        PROVE  End(s[k]) <= p
    <2>1. s[k].base < p
      BY <1>2, <1>3 DEF InsertPos
    <2> QED BY <1>1, <2>1, TableFacts
  <1>4. ASSUME NEW k \in 1 .. Len(s), k >= pos
        PROVE  p < s[k].base
    <2>1. pos \in 1 .. Len(s) /\ s[pos].base >= p
      BY <1>2, <1>4 DEF InsertPos
    <2>2. /\ s[pos].base \in Nat /\ s[pos].pages \in Nat /\ s[pos].pages > 0
          /\ End(s[pos]) = s[pos].base + s[pos].pages
          /\ s[k].base \in Nat
      BY <2>1, TableFacts
    <2>3. s[pos].base > p
      BY <1>1, <2>1, <2>2
    <2>4. k = pos \/ End(s[pos]) < s[k].base
      BY <1>4, <2>1, TableFacts
    <2> QED BY <2>2, <2>3, <2>4
  <1> QED BY <1>3, <1>4

(* In each of its four cases phys_insert_free_page() adds page p, and that *)
(* page only, to a table that stays sorted and merged.                     *)
LEMMA InsertPageStep ==
  ASSUME free_regions \in Table, NEW p \in Nat, p > 0, p \notin FreePages,
         NEW pos \in 1 .. (Len(free_regions) + 1), InsertPos(p, pos),
         Len(free_regions) <= MAX_PHYS_REGIONS,
         phys_insert_free_page(p, pos)
  PROVE  /\ free_regions' \in Table
         /\ Len(free_regions') <= MAX_PHYS_REGIONS
         /\ FreePages' = FreePages \cup {p}
  <1> DEFINE s == free_regions
  <1> USE MaxRegionsAssumption
  <1>1. /\ \A k \in 1 .. Len(s) : k < pos => End(s[k]) <= p
        /\ \A k \in 1 .. Len(s) : k >= pos => p < s[k].base
    BY InsertPosSplits
  <1>2. Len(s) \in Nat
    BY TableFacts
  <1>3. CASE JoinBoth(p, pos)
    <2> DEFINE m == pos - 1
               a == s[m]
               b == s[pos]
               u == RemoveAt(s, pos)
               r == [base |-> a.base, pages |-> a.pages + 1 + b.pages]
    <2>1. m \in 1 .. Len(s) /\ pos \in 1 .. Len(s) /\ m + 1 = pos
      BY <1>2, <1>3 DEF JoinBoth, EndsAt, StartsAfter
    <2>2. End(a) = p /\ b.base = p + 1
      BY <1>3 DEF JoinBoth, EndsAt, StartsAfter
    <2>3. s' = ReplaceAt(u, m, r)
      BY <1>3 DEF JoinBoth
    <2>4. /\ u \in Table /\ Len(u) = Len(s) - 1
          /\ PagesOf(u) = PagesOf(s) \ Pages(b)
      BY <2>1, RemoveRegion
    <2>5. \A k \in 1 .. (Len(s) - 1) : u[k] = IF k < pos THEN s[k] ELSE s[k + 1]
      <3>1. s \in Seq(Region)
        BY TableFacts
      <3> QED BY <2>1, <3>1, RemoveAtProps
    <2> HIDE DEF m, u
    <2>6. /\ a \in Region /\ a.base \in Nat /\ a.pages \in Nat /\ a.base > 0
          /\ End(a) = a.base + a.pages
          /\ b \in Region /\ b.base \in Nat /\ b.pages \in Nat /\ b.pages > 0
          /\ End(b) = b.base + b.pages
      BY <2>1, TableFacts
    <2>7. m > 1 => m - 1 \in 1 .. Len(s) /\ End(s[m - 1]) < a.base
      BY <1>2, <2>1, TableFacts
    <2>8. pos < Len(s) => pos + 1 \in 1 .. Len(s) /\ End(b) < s[pos + 1].base
      BY <1>2, <2>1, TableFacts
    <2>9. Pages(b) \subseteq PagesOf(s) /\ Pages(a) \subseteq PagesOf(s)
      BY <2>1 DEF PagesOf
    <2>10. m \in 1 .. Len(u) /\ u[m] = a
      BY <1>2, <2>1, <2>4, <2>5
    <2> HIDE DEF a, b
    <2>11. /\ r \in Region /\ r.base = a.base /\ r.pages = a.pages + 1 + b.pages
           /\ End(r) = r.base + r.pages
      BY <2>6 DEF Region, End
    <2> HIDE DEF r
    <2>12. End(r) = End(b) /\ r.base > 0 /\ r.pages > 0
      <3>1. p = a.base + a.pages
        BY <2>2, <2>6
      <3>2. End(b) = (p + 1) + b.pages
        BY <2>2, <2>6
      <3>3. End(r) = a.base + (a.pages + 1 + b.pages)
        BY <2>11
      <3>4. End(r) = End(b)
        <4>1. \A x, y, z \in Nat : x + (y + 1 + z) = ((x + y) + 1) + z
          OBVIOUS
        <4>2. a.base \in Nat /\ a.pages \in Nat /\ b.pages \in Nat
          BY <2>6
        <4> QED BY SMTT(30), <3>1, <3>2, <3>3, <4>1, <4>2
      <3>5. r.base > 0 /\ r.pages > 0
        BY <2>6, <2>11
      <3> QED BY <3>4, <3>5
    <2>13. m > 1 => End(u[m - 1]) < r.base
      BY <1>2, <2>1, <2>5, <2>7, <2>11
    <2>14. m < Len(u) => End(r) < u[m + 1].base
      BY <1>2, <2>1, <2>4, <2>5, <2>8, <2>12
    <2>15. /\ s' \in Table /\ Len(s') = Len(u)
           /\ PagesOf(s') = (PagesOf(u) \ Pages(u[m])) \cup Pages(r)
      <3>1. u \in Table /\ r \in Region
        BY <2>4, <2>11
      <3> QED BY <2>3, <2>10, <2>12, <2>13, <2>14, <3>1, ReplaceRegion
    <2>16. ASSUME NEW q
           PROVE  q \in Pages(r) <=> q \in Pages(a) \/ q = p \/ q \in Pages(b)
      <3>1. /\ q \in Pages(r) <=> q \in Nat /\ a.base <= q /\ q < End(b)
            /\ q \in Pages(a) <=> q \in Nat /\ a.base <= q /\ q < p
            /\ q \in Pages(b) <=> q \in Nat /\ p + 1 <= q /\ q < End(b)
        BY <2>2, <2>6, <2>11, <2>12, PagesMember
      <3>2. a.base <= p /\ p < End(b) /\ End(b) \in Nat
        <4>1. p = a.base + a.pages
          BY <2>2, <2>6
        <4>2. End(b) = (p + 1) + b.pages
          BY <2>2, <2>6
        <4> QED BY SMTT(30), <2>6, <4>1, <4>2
      <3> QED BY <2>6, <3>1, <3>2
    <2>17. PagesOf(s') = PagesOf(s) \cup {p}
      BY <2>4, <2>9, <2>10, <2>15, <2>16
    <2> QED BY <1>2, <2>4, <2>15, <2>17 DEF FreePages
  <1>4. CASE ExtendBelow(p, pos)
    <2> DEFINE m == pos - 1
               a == s[m]
               r == [base |-> a.base, pages |-> a.pages + 1]
    <2>1. m \in 1 .. Len(s) /\ m + 1 = pos
      BY <1>2, <1>4 DEF ExtendBelow, EndsAt
    <2>2. End(a) = p
      BY <1>4 DEF ExtendBelow, EndsAt
    <2>3. s' = ReplaceAt(s, m, r)
      BY <1>4 DEF ExtendBelow
    <2> HIDE DEF m
    <2>4. /\ a \in Region /\ a.base \in Nat /\ a.pages \in Nat /\ a.base > 0
          /\ End(a) = a.base + a.pages
      BY <2>1, TableFacts
    <2>5. m > 1 => m - 1 \in 1 .. Len(s) /\ End(s[m - 1]) < a.base
      BY <1>2, <2>1, TableFacts
    <2>6. Pages(a) \subseteq PagesOf(s)
      BY <2>1 DEF PagesOf
    <2>7. m < Len(s) => s[pos].base \in Nat /\ p < s[pos].base /\ s[pos].base # p + 1
      <3>1. m < Len(s) => pos \in 1 .. Len(s)
        BY <1>2, <2>1
      <3> QED BY <1>1, <1>2, <1>4, <3>1, TableFacts DEF ExtendBelow, StartsAfter
    <2>8. /\ r \in Region /\ r.base = a.base /\ r.pages = a.pages + 1
          /\ End(r) = r.base + r.pages
      BY <2>4 DEF Region, End
    <2>9. a = s[m]
      OBVIOUS
    <2> HIDE DEF a, r
    <2>10. End(r) = p + 1 /\ r.base > 0 /\ r.pages > 0
      BY <2>2, <2>4, <2>8
    <2>11. m > 1 => End(s[m - 1]) < r.base
      BY <2>5, <2>8
    <2>12. m < Len(s) => End(r) < s[m + 1].base
      BY <2>1, <2>7, <2>10
    <2>13. /\ s' \in Table /\ Len(s') = Len(s)
           /\ PagesOf(s') = (PagesOf(s) \ Pages(a)) \cup Pages(r)
      BY <2>1, <2>3, <2>8, <2>9, <2>10, <2>11, <2>12, ReplaceRegion
    <2>14. ASSUME NEW q
           PROVE  q \in Pages(r) <=> q \in Pages(a) \/ q = p
      <3>1. /\ q \in Pages(r) <=> q \in Nat /\ a.base <= q /\ q < p + 1
            /\ q \in Pages(a) <=> q \in Nat /\ a.base <= q /\ q < p
        BY <2>2, <2>4, <2>8, <2>10, PagesMember
      <3>2. a.base <= p
        BY <2>2, <2>4
      <3> QED BY <2>4, <3>1, <3>2
    <2>15. PagesOf(s') = PagesOf(s) \cup {p}
      BY <2>6, <2>13, <2>14
    <2> QED BY <1>2, <2>13, <2>15 DEF FreePages
  <1>5. CASE ExtendAbove(p, pos)
    <2>1. pos \in 1 .. Len(s) /\ s[pos].base = p + 1
      BY <1>2, <1>5 DEF ExtendAbove, StartsAfter
    <2> DEFINE r == [base |-> p, pages |-> s[pos].pages + 1]
    <2>2. /\ s[pos] \in Region /\ s[pos].base \in Nat /\ s[pos].pages \in Nat
          /\ s[pos].pages > 0 /\ End(s[pos]) = s[pos].base + s[pos].pages
      BY <2>1, TableFacts
    <2>3. /\ r \in Region /\ r.base = p /\ r.pages > 0 /\ End(r) = End(s[pos])
      BY <2>1, <2>2 DEF Region, End
    <2>4. s' = ReplaceAt(s, pos, r)
      BY <1>5 DEF ExtendAbove
    <2> HIDE DEF r
    <2>5. pos > 1 => End(s[pos - 1]) < r.base
      <3>1. ASSUME pos > 1
            PROVE  End(s[pos - 1]) < p
        <4>1. pos - 1 \in 1 .. Len(s)
          BY <1>2, <3>1
        <4>2. End(s[pos - 1]) <= p /\ End(s[pos - 1]) # p /\ End(s[pos - 1]) \in Nat
          BY <1>1, <1>5, <3>1, <4>1, TableFacts DEF ExtendAbove, EndsAt
        <4> QED BY <4>2
      <3> QED BY <2>3, <3>1
    <2>6. pos < Len(s) => End(r) < s[pos + 1].base
      BY <1>2, <2>1, <2>3, TableFacts
    <2>7. /\ s' \in Table /\ Len(s') = Len(s)
          /\ PagesOf(s') = (PagesOf(s) \ Pages(s[pos])) \cup Pages(r)
      BY <2>1, <2>3, <2>4, <2>5, <2>6, ReplaceRegion
    <2>8. \A q : q \in Pages(r) <=> q \in Pages(s[pos]) \/ q = p
      BY <2>1, <2>2, <2>3, PagesMember
    <2>9. Pages(s[pos]) \subseteq PagesOf(s)
      BY <2>1 DEF PagesOf
    <2>10. PagesOf(s') = PagesOf(s) \cup {p}
      BY <2>7, <2>8, <2>9
    <2> QED BY <1>2, <2>7, <2>10 DEF FreePages
  <1>6. CASE NewRegion(p, pos)
    <2> DEFINE r == [base |-> p, pages |-> 1]
    <2>1. r \in Region /\ r.base = p /\ r.pages > 0 /\ End(r) = p + 1
      BY DEF Region, End
    <2>2. s' = InsertAt(s, pos, r) /\ Len(s) < MAX_PHYS_REGIONS
      BY <1>6 DEF NewRegion
    <2> HIDE DEF r
    <2>3. ASSUME NEW k \in 1 .. Len(s), k < pos
          PROVE  End(s[k]) < r.base
      <3>1. pos - 1 \in 1 .. Len(s) /\ (k = pos - 1 \/ k < pos - 1)
        BY <1>2, <2>3
      <3>2. /\ End(s[pos - 1]) <= p /\ End(s[pos - 1]) # p
            /\ End(s[pos - 1]) = s[pos - 1].base + s[pos - 1].pages
            /\ s[pos - 1].base \in Nat /\ s[pos - 1].pages \in Nat
            /\ End(s[k]) \in Nat
        BY SMTT(30), <1>1, <1>6, <2>3, <3>1, TableFacts DEF NewRegion, EndsAt
      <3>3. k = pos - 1 \/ End(s[k]) < s[pos - 1].base
        BY <3>1, TableFacts
      <3> QED BY <2>1, <3>2, <3>3
    <2>4. ASSUME NEW k \in 1 .. Len(s), k >= pos
          PROVE  End(r) < s[k].base
      <3>1. pos \in 1 .. Len(s) /\ (k = pos \/ pos < k)
        BY <1>2, <2>4
      <3>2. /\ p < s[pos].base /\ s[pos].base # p + 1
            /\ End(s[pos]) = s[pos].base + s[pos].pages
            /\ s[pos].base \in Nat /\ s[pos].pages \in Nat
            /\ s[k].base \in Nat
        BY <1>1, <1>6, <2>4, <3>1, TableFacts DEF NewRegion, StartsAfter
      <3>3. k = pos \/ End(s[pos]) < s[k].base
        BY <3>1, TableFacts
      <3> QED BY <2>1, <3>2, <3>3
    <2>5. /\ s' \in Table /\ Len(s') = Len(s) + 1
          /\ PagesOf(s') = PagesOf(s) \cup Pages(r)
      BY <2>1, <2>2, <2>3, <2>4, InsertRegion
    <2>6. \A q : q \in Pages(r) <=> q = p
      BY <2>1, PagesMember
    <2>7. PagesOf(s') = PagesOf(s) \cup {p}
      BY <2>5, <2>6
    <2> QED BY <1>2, <2>2, <2>5, <2>7 DEF FreePages
  <1> QED BY <1>3, <1>4, <1>5, <1>6 DEF phys_insert_free_page

-----------------------------------------------------------------------------
(* Boot: each loop of phys_memory_init() preserves the inductive invariant *)

LEMMA NoPagesOfEmpty == PagesOf(<< >>) = {}
  BY DEF PagesOf

LEMMA ApartSymmetric == \A r, q : Apart(r, q) <=> Apart(q, r)
  BY DEF Apart

LEMMA InitIInv == Init => IInv
  <1> SUFFICES ASSUME Init
               PROVE  IInv
    OBVIOUS
  <1>1. FreePages = {}
    BY NoPagesOfEmpty DEF Init, FreePages
  <1>2. TypeOK
    BY MaxRegionsAssumption, EmptySeq DEF Init, TypeOK
  <1>3. Len(managed_regions) = 0 /\ Len(free_regions) = 0
    BY EmptySeq DEF Init
  <1>4. IsFiniteSet(FreePages)
    BY <1>1, FS_EmptySet
  <1>5. Proper(managed_regions) /\ Proper(free_regions) /\ CollectInv /\ SortInv
    BY <1>3 DEF Init, Proper, CollectInv, SortInv
  <1>6. MergeInv /\ CopyInv /\ UpInv
    BY DEF Init, MergeInv, CopyInv, UpInv
  <1> QED BY <1>2, <1>4, <1>5, <1>6 DEF IInv

(* What no step of the boot loops before the copy touches                  *)
LEMMA FreeTableUntouched ==
  ASSUME IInv, UNCHANGED free_regions
  PROVE  /\ Proper(free_regions)' /\ IsFiniteSet(FreePages)'
         /\ free_regions' \in Seq(Region) /\ Len(free_regions') <= MAX_PHYS_REGIONS
         /\ FreePages' = FreePages
  BY DEF IInv, Proper, FreePages, PagesOf, Pages, End, TypeOK

LEMMA CollectStep == IInv /\ Collect => IInv'
  <1> SUFFICES ASSUME IInv, Collect
               PROVE  IInv'
    OBVIOUS
  <1> USE DEF Collect
  <1> DEFINE m == managed_regions
             e == memmap[i]
             er == EntryRegion(e)
  <1>1. /\ m \in Seq(Region) /\ Len(m) \in Nat /\ Len(m) <= MAX_PHYS_REGIONS
        /\ i \in Nat /\ i > 0 /\ memmap \in MemMaps /\ out = 0
        /\ MAX_PHYS_REGIONS \in Nat
    BY MaxRegionsAssumption, LenProperties DEF IInv, TypeOK, CopyInv
  <1>2. memmap \in Seq(MemMapEntry) /\ EntriesDisjoint(memmap) /\ Len(memmap) \in Nat
    BY <1>1, MemMapsAssumption, LenProperties
  <1>3. \A a \in 1 .. Len(memmap) : memmap[a] \in MemMapEntry
    BY <1>2, ElementOfSeq
  <1>4. i \in 1 .. Len(memmap)
    BY <1>1, <1>2
  <1>5. CASE ~Kept(e)
    <2>1. m' = m
      BY <1>5
    <2>2. TypeOK'
      BY <1>1, <2>1, FreeTableUntouched DEF IInv, TypeOK
    <2>3. Proper(m)' /\ SortInv' /\ CollectInv'
      BY <1>1, <1>2, <2>1 DEF IInv, Proper, SortInv, CollectInv
    <2>4. MergeInv' /\ CopyInv' /\ UpInv'
      BY DEF IInv, MergeInv, CopyInv, UpInv
    <2> QED BY <2>2, <2>3, <2>4, FreeTableUntouched DEF IInv
  <1>6. CASE Kept(e)
    <2>1. m' = Append(m, er) /\ Len(m) < MAX_PHYS_REGIONS
      BY <1>6
    <2>2. er \in Region /\ er.base > 0 /\ er.pages > 0
      BY <1>3, <1>4, <1>6, EntryRegionProps
    <2> HIDE DEF er
    <2>3. /\ m' \in Seq(Region) /\ Len(m') = Len(m) + 1
          /\ \A k \in 1 .. Len(m) : m'[k] = m[k]
          /\ m'[Len(m) + 1] = er
      BY <1>1, <2>1, <2>2, AppendProperties
    <2>4. \A k \in 1 .. Len(m') : k \in 1 .. Len(m) \/ k = Len(m) + 1
      BY <1>1, <2>3
    <2>5. \A k \in 1 .. Len(m), a \in i .. Len(memmap) :
            Kept(memmap[a]) => Apart(m[k], EntryRegion(memmap[a]))
      BY DEF IInv, CollectInv
    <2>6. \A k \in 1 .. Len(m) : Apart(m[k], er) /\ Apart(er, m[k])
      BY <1>1, <1>2, <1>4, <1>6, <2>5, ApartSymmetric DEF er
    <2>7. TypeOK'
      BY <1>1, <2>1, <2>3, FreeTableUntouched DEF IInv, TypeOK
    <2>8. Proper(m)'
      BY <1>1, <2>2, <2>3, <2>4 DEF IInv, Proper
    <2>9. SortInv'
      <3>1. ASSUME NEW k \in 1 .. Len(m'), NEW l \in 1 .. Len(m'), k # l
            PROVE  Apart(m'[k], m'[l])
        <4>1. CASE k \in 1 .. Len(m) /\ l \in 1 .. Len(m)
          BY <2>3, <3>1, <4>1 DEF IInv, SortInv
        <4>2. CASE k \in 1 .. Len(m) /\ l = Len(m) + 1
          BY <2>3, <2>6, <4>2
        <4>3. CASE k = Len(m) + 1 /\ l \in 1 .. Len(m)
          BY <2>3, <2>6, <4>3
        <4> QED BY <2>4, <3>1, <4>1, <4>2, <4>3
      <3> QED BY <3>1 DEF SortInv, IInv
    <2>10. CollectInv'
      <3>1. ASSUME NEW k \in 1 .. Len(m'), NEW a \in (i + 1) .. Len(memmap),
                   Kept(memmap[a])
            PROVE  Apart(m'[k], EntryRegion(memmap[a]))
        <4>1. a \in i .. Len(memmap) /\ a \in 1 .. Len(memmap) /\ a # i
          BY <1>1, <1>2
        <4>2. CASE k \in 1 .. Len(m)
          BY <2>3, <2>5, <3>1, <4>1, <4>2
        <4>3. CASE k = Len(m) + 1
          <5>1. \/ e.base + e.length <= memmap[a].base
                \/ memmap[a].base + memmap[a].length <= e.base
            BY <1>2, <1>4, <4>1, LenProperties DEF EntriesDisjoint
          <5>2. Apart(EntryRegion(e), EntryRegion(memmap[a]))
            BY <1>3, <1>4, <1>6, <3>1, <4>1, <5>1, EntryRegionsApart
          <5> QED BY <2>3, <4>3, <5>2 DEF er
        <4> QED BY <2>4, <4>2, <4>3
      <3>2. i' = i + 1 /\ memmap' = memmap
        OBVIOUS
      <3> QED BY <3>1, <3>2 DEF CollectInv
    <2>11. MergeInv' /\ CopyInv' /\ UpInv'
      BY DEF IInv, MergeInv, CopyInv, UpInv
    <2> QED BY <2>7, <2>8, <2>9, <2>10, <2>11, FreeTableUntouched DEF IInv
  <1> QED BY <1>5, <1>6

LEMMA CollectDoneStep == IInv /\ CollectDone => IInv'
  <1> SUFFICES ASSUME IInv, CollectDone
               PROVE  IInv'
    OBVIOUS
  <1> USE DEF CollectDone
  <1>1. TypeOK'
    BY FreeTableUntouched DEF IInv, TypeOK
  <1>2. Proper(managed_regions)' /\ CollectInv'
    BY DEF IInv, Proper, CollectInv
  <1>3. SortInv'
    BY DEF IInv, SortInv
  <1>4. MergeInv' /\ CopyInv' /\ UpInv'
    BY DEF IInv, MergeInv, CopyInv, UpInv
  <1> QED BY <1>1, <1>2, <1>3, <1>4, FreeTableUntouched DEF IInv

LEMMA ManagedFacts ==
  ASSUME IInv
  PROVE  /\ managed_regions \in Seq(Region) /\ Len(managed_regions) \in Nat
         /\ Len(managed_regions) <= MAX_PHYS_REGIONS
         /\ \A k \in 1 .. Len(managed_regions) :
              /\ managed_regions[k] \in Region
              /\ managed_regions[k].base \in Nat /\ managed_regions[k].pages \in Nat
              /\ managed_regions[k].base > 0 /\ managed_regions[k].pages > 0
              /\ End(managed_regions[k]) = managed_regions[k].base + managed_regions[k].pages
              /\ End(managed_regions[k]) \in Nat
  <1>1. managed_regions \in Seq(Region) /\ Len(managed_regions) <= MAX_PHYS_REGIONS
    BY DEF IInv, TypeOK
  <1>2. \A k \in 1 .. Len(managed_regions) :
          managed_regions[k].base > 0 /\ managed_regions[k].pages > 0
    BY DEF IInv, Proper
  <1> QED BY <1>1, <1>2, RegionFields, LenProperties

(* A round of the sort keeps the regions apart and extends the sorted part.*)
LEMMA SortStepStep == IInv /\ SortStep => IInv'
  <1> SUFFICES ASSUME IInv, SortStep
               PROVE  IInv'
    OBVIOUS
  <1> DEFINE m == managed_regions
             len == Len(managed_regions)
  <1>1. PICK j \in 1 .. i :
          /\ \A k \in j .. (i - 1) : m[k].base > m[i].base
          /\ j > 1 => m[j - 1].base <= m[i].base
          /\ m' = MoveDown(m, i, j)
    BY DEF SortStep
  <1>2. /\ i \in Nat /\ i > 0 /\ i <= len /\ i' = i + 1 /\ pc = "sort" /\ pc' = "sort"
        /\ m \in Seq(Region) /\ len \in Nat
    BY ManagedFacts DEF SortStep, IInv, TypeOK
  <1>3. i \in 1 .. len
    BY <1>2
  <1>4. /\ m' \in Seq(Region) /\ Len(m') = len
        /\ \A k \in 1 .. len : m'[k] = IF k < j \/ k > i THEN m[k]
                                      ELSE IF k = j THEN m[i] ELSE m[k - 1]
    <2>1. /\ MoveDown(m, i, j) \in Seq(Region)
          /\ Len(MoveDown(m, i, j)) = len
          /\ \A k \in 1 .. len :
               MoveDown(m, i, j)[k] = IF k < j \/ k > i THEN m[k]
                                      ELSE IF k = j THEN m[i] ELSE m[k - 1]
      BY <1>2, <1>3, MoveDownProps
    <2> QED BY <1>1, <2>1
  <1> DEFINE from(k) == IF k < j \/ k > i THEN k ELSE IF k = j THEN i ELSE k - 1
  <1>5. ASSUME NEW k \in 1 .. len
        PROVE  from(k) \in 1 .. len /\ m'[k] = m[from(k)]
    BY <1>2, <1>3, <1>4
  <1>6. ASSUME NEW k \in 1 .. len, NEW l \in 1 .. len, k # l
        PROVE  from(k) # from(l)
    BY <1>2, <1>3, <1>6
  <1>7. ASSUME NEW k \in 1 .. len, NEW l \in 1 .. len, k < l, l < i + 1
        PROVE  m'[k].base <= m'[l].base
    <2>1. \A a, b \in 1 .. len : a < b /\ b < i => m[a].base <= m[b].base
      BY <1>2 DEF IInv, SortInv
    <2>2. \A a \in 1 .. len : m[a].base \in Nat
      BY ManagedFacts
    <2>3. CASE l < j
      BY <1>2, <1>4, <1>7, <2>1, <2>3
    <2>4. CASE l = j
      <3>1. j - 1 \in 1 .. len /\ j > 1 /\ (k = j - 1 \/ k < j - 1) /\ j - 1 < i
        BY <1>2, <1>7, <2>4
      <3>2. m[j - 1].base <= m[i].base
        BY <1>1, <3>1
      <3>3. m[k].base <= m[j - 1].base
        BY <2>1, <2>2, <3>1
      <3>4. m'[k] = m[k] /\ m'[l] = m[i]
        BY <1>2, <1>4, <1>7, <2>4
      <3> QED BY <1>3, <2>2, <3>1, <3>2, <3>3, <3>4
    <2>5. CASE l > j
      <3>1. m'[l] = m[l - 1] /\ l - 1 \in j .. (i - 1) /\ l - 1 \in 1 .. len
        BY <1>2, <1>4, <1>7, <2>5
      <3>2. CASE k < j
        BY <1>2, <1>4, <1>7, <2>1, <3>1, <3>2
      <3>3. CASE k = j
        <4>1. m'[k] = m[i]
          BY <1>2, <1>4, <3>3
        <4>2. m[l - 1].base > m[i].base
          BY <1>1, <3>1
        <4> QED BY <1>3, <2>2, <3>1, <4>1, <4>2
      <3>4. CASE k > j
        <4>1. m'[k] = m[k - 1] /\ k - 1 \in 1 .. len /\ k - 1 < l - 1 /\ l - 1 < i
          BY <1>2, <1>4, <1>7, <3>4
        <4> QED BY <2>1, <3>1, <4>1
      <3> QED BY <1>2, <3>2, <3>3, <3>4
    <2> QED BY <1>2, <2>3, <2>4, <2>5
  <1>8. ASSUME NEW k \in 1 .. len, NEW l \in 1 .. len, k # l
        PROVE  Apart(m'[k], m'[l])
    <2>1. \A a, b \in 1 .. len : a # b => Apart(m[a], m[b])
      BY <1>2 DEF IInv, SortInv
    <2> HIDE DEF from
    <2> QED BY <1>5, <1>6, <1>8, <2>1
  <1>9. SortInv'
    BY <1>2, <1>4, <1>7, <1>8 DEF SortInv
  <1>10. Proper(m)'
    <2> HIDE DEF from
    <2> QED BY <1>4, <1>5, ManagedFacts DEF Proper
  <1>11. TypeOK'
    BY <1>2, <1>4, FreeTableUntouched DEF SortStep, IInv, TypeOK
  <1>12. CollectInv' /\ MergeInv' /\ CopyInv' /\ UpInv'
    BY <1>2 DEF SortStep, IInv, CollectInv, MergeInv, CopyInv, UpInv
  <1>13. UNCHANGED free_regions
    BY DEF SortStep
  <1> QED BY <1>9, <1>10, <1>11, <1>12, <1>13, FreeTableUntouched DEF IInv

(* A table that is sorted and whose regions are apart is in order.         *)
LEMMA SortDoneStep == IInv /\ SortDone => IInv'
  <1> SUFFICES ASSUME IInv, SortDone
               PROVE  IInv'
    OBVIOUS
  <1> USE DEF SortDone
  <1> DEFINE m == managed_regions
  <1>1. Len(m) \in Nat /\ out = 0 /\ i \in Nat
    BY ManagedFacts DEF IInv, CopyInv, TypeOK
  <1>2. ASSUME NEW k \in 1 .. Len(m), NEW l \in 1 .. Len(m), k < l
        PROVE  End(m[k]) <= m[l].base
    <2>1. m[k].base <= m[l].base /\ Apart(m[k], m[l])
      BY <1>1, <1>2 DEF IInv, SortInv
    <2>2. ~(End(m[l]) <= m[k].base)
      BY SMTT(30), <2>1, ManagedFacts
    <2> QED BY <2>1, <2>2 DEF Apart
  <1>3. MergeInv'
    BY <1>1, <1>2 DEF MergeInv
  <1>4. TypeOK'
    BY FreeTableUntouched DEF IInv, TypeOK
  <1>5. Proper(m)' /\ CollectInv' /\ SortInv' /\ CopyInv' /\ UpInv'
    BY DEF IInv, Proper, CollectInv, SortInv, CopyInv, UpInv
  <1> QED BY <1>3, <1>4, <1>5, FreeTableUntouched DEF IInv

(* A round of the merging loop keeps what is written merged and below what *)
(* is still to be read.                                                    *)
LEMMA MergeStepStep == IInv /\ MergeStep => IInv'
  <1> SUFFICES ASSUME IInv, MergeStep
               PROVE  IInv'
    OBVIOUS
  <1> DEFINE m == managed_regions
             len == Len(managed_regions)
  <1>1. /\ pc = "merge" /\ pc' = "merge" /\ i' = i + 1 /\ i <= len
        /\ i \in Nat /\ i > 0 /\ out \in Nat /\ out < i /\ len \in Nat
        /\ m \in Seq(Region) /\ i \in 1 .. len /\ UNCHANGED free_regions
    BY ManagedFacts DEF MergeStep, IInv, TypeOK, MergeInv
  <1>2. \A k, l \in 1 .. out : k < l => End(m[k]) < m[l].base
    BY <1>1 DEF IInv, MergeInv
  <1>3. \A k \in 1 .. len, l \in i .. len :
          k < l /\ (k <= out \/ k >= i) => End(m[k]) <= m[l].base
    BY <1>1 DEF IInv, MergeInv
  <1>4. m[i].pages # 0
    BY <1>1, ManagedFacts
  <1>5. CASE out # 0 /\ End(m[out]) = m[i].base
    <2> DEFINE r == [base |-> m[out].base, pages |-> m[out].pages + m[i].pages]
    <2>1. m' = ReplaceAt(m, out, r) /\ out' = out
      BY <1>4, <1>5 DEF MergeStep
    <2>2. out \in 1 .. len
      BY <1>1, <1>5
    <2>3. /\ m[out].base \in Nat /\ m[out].base > 0 /\ m[out].pages \in Nat
          /\ m[i].pages \in Nat /\ m[i].pages > 0
          /\ End(m[out]) = m[out].base + m[out].pages
          /\ End(m[i]) = m[i].base + m[i].pages
      BY <1>1, <2>2, ManagedFacts
    <2>4. /\ r \in Region /\ r.base = m[out].base /\ r.base > 0 /\ r.pages > 0
          /\ End(r) = m[out].base + (m[out].pages + m[i].pages)
      BY <2>3 DEF Region, End
    <2>5. End(r) = End(m[i])
      <3>1. m[i].base = m[out].base + m[out].pages
        BY <1>5, <2>3
      <3>2. \A x, y, z \in Nat : x + (y + z) = (x + y) + z
        OBVIOUS
      <3> QED BY <2>3, <2>4, <3>1, <3>2
    <2> HIDE DEF r
    <2>6. /\ m' \in Seq(Region) /\ Len(m') = len
          /\ \A k \in 1 .. len : m'[k] = IF k = out THEN r ELSE m[k]
      BY <1>1, <2>1, <2>2, <2>4, ReplaceAtProps
    <2>7. ASSUME NEW k \in 1 .. out, NEW l \in 1 .. out, k < l
          PROVE  End(m'[k]) < m'[l].base
      <3>1. k # out /\ k \in 1 .. len /\ l \in 1 .. len /\ m'[k] = m[k]
            /\ m'[l].base = m[l].base
        BY <1>1, <2>4, <2>6, <2>7
      <3> QED BY <1>2, <2>7, <3>1
    <2>8. ASSUME NEW k \in 1 .. len, NEW l \in (i + 1) .. len, k < l,
                 k <= out \/ k >= i + 1
          PROVE  End(m'[k]) <= m'[l].base
      <3>1. l \in i .. len /\ l \in 1 .. len /\ l # out /\ i < l
        BY <1>1
      <3>2. m'[l] = m[l]
        BY <2>6, <3>1
      <3>3. CASE k = out
        BY <1>1, <1>3, <2>5, <2>6, <3>1, <3>2, <3>3
      <3>4. CASE k # out
        <4>1. m'[k] = m[k] /\ (k <= out \/ k >= i)
          BY <1>1, <2>6, <2>8, <3>4
        <4> QED BY <1>3, <2>8, <3>1, <3>2, <4>1
      <3> QED BY <3>3, <3>4
    <2>9. MergeInv'
      BY <1>1, <2>1, <2>6, <2>7, <2>8 DEF MergeInv
    <2>10. Proper(m)'
      BY <2>4, <2>6, ManagedFacts DEF Proper
    <2>11. TypeOK'
      BY <1>1, <2>1, <2>6, FreeTableUntouched DEF MergeStep, IInv, TypeOK
    <2>12. CollectInv' /\ SortInv' /\ CopyInv' /\ UpInv'
      BY <1>1 DEF MergeStep, IInv, CollectInv, SortInv, CopyInv, UpInv
    <2> QED BY <1>1, <2>9, <2>10, <2>11, <2>12, FreeTableUntouched DEF IInv
  <1>6. CASE ~(out # 0 /\ End(m[out]) = m[i].base)
    <2>1. m' = ReplaceAt(m, out + 1, m[i]) /\ out' = out + 1
      BY <1>4, <1>6 DEF MergeStep
    <2>2. out + 1 \in 1 .. len /\ out + 1 <= i /\ m[i] \in Region
      BY <1>1, ManagedFacts
    <2>3. /\ m' \in Seq(Region) /\ Len(m') = len
          /\ \A k \in 1 .. len : m'[k] = IF k = out + 1 THEN m[i] ELSE m[k]
      BY <1>1, <2>1, <2>2, ReplaceAtProps
    <2>4. ASSUME NEW k \in 1 .. out
          PROVE  End(m[k]) < m[i].base
      <3>1. /\ k \in 1 .. len /\ out \in 1 .. len /\ out # 0 /\ i \in i .. len
            /\ k < i /\ k <= out /\ out < i /\ (k = out \/ k < out)
            /\ k \in 1 .. out /\ out \in 1 .. out
        BY <1>1
      <3>2. End(m[out]) <= m[i].base
        BY <1>3, <3>1
      <3>3. End(m[out]) # m[i].base
        BY <1>6, <3>1
      <3>4. k = out \/ End(m[k]) < m[out].base
        BY <1>2, <3>1
      <3>5. /\ End(m[out]) = m[out].base + m[out].pages
            /\ m[out].base \in Nat /\ m[out].pages \in Nat /\ m[i].base \in Nat
            /\ End(m[k]) \in Nat /\ End(m[out]) \in Nat
        BY <1>1, <3>1, ManagedFacts
      <3>6. End(m[out]) < m[i].base
        BY <3>2, <3>3, <3>5
      <3>7. CASE k = out
        BY <3>6, <3>7
      <3>8. CASE End(m[k]) < m[out].base
        BY <3>5, <3>6, <3>8
      <3> QED BY <3>4, <3>7, <3>8
    <2>5. ASSUME NEW k \in 1 .. (out + 1), NEW l \in 1 .. (out + 1), k < l
          PROVE  End(m'[k]) < m'[l].base
      <3>1. k \in 1 .. out /\ k \in 1 .. len /\ l \in 1 .. len /\ m'[k] = m[k]
        BY <1>1, <2>2, <2>3, <2>5
      <3>2. CASE l = out + 1
        BY <2>3, <2>4, <3>1, <3>2
      <3>3. CASE l # out + 1
        <4>1. l \in 1 .. out /\ m'[l] = m[l]
          BY <1>1, <2>3, <3>1, <3>3
        <4> QED BY <1>2, <2>5, <3>1, <4>1
      <3> QED BY <3>2, <3>3
    <2>6. ASSUME NEW k \in 1 .. len, NEW l \in (i + 1) .. len, k < l,
                 k <= out + 1 \/ k >= i + 1
          PROVE  End(m'[k]) <= m'[l].base
      <3>1. l \in i .. len /\ l \in 1 .. len /\ l # out + 1 /\ i < l
        BY <1>1, <2>2
      <3>2. m'[l] = m[l]
        BY <2>3, <3>1
      <3>3. CASE k = out + 1
        BY <1>1, <1>3, <2>3, <3>1, <3>2, <3>3
      <3>4. CASE k # out + 1
        <4>1. m'[k] = m[k] /\ (k <= out \/ k >= i)
          BY <1>1, <2>3, <2>6, <3>4
        <4> QED BY <1>3, <2>6, <3>1, <3>2, <4>1
      <3> QED BY <3>3, <3>4
    <2>7. MergeInv'
      BY <1>1, <2>1, <2>3, <2>5, <2>6 DEF MergeInv
    <2>8. Proper(m)'
      BY <1>1, <2>3, ManagedFacts DEF Proper
    <2>9. TypeOK'
      BY <1>1, <2>1, <2>2, <2>3, FreeTableUntouched DEF MergeStep, IInv, TypeOK
    <2>10. CollectInv' /\ SortInv' /\ CopyInv' /\ UpInv'
      BY <1>1 DEF MergeStep, IInv, CollectInv, SortInv, CopyInv, UpInv
    <2> QED BY <1>1, <2>7, <2>8, <2>9, <2>10, FreeTableUntouched DEF IInv
  <1> QED BY <1>5, <1>6

LEMMA MergeDoneStep == IInv /\ MergeDone => IInv'
  <1> SUFFICES ASSUME IInv, MergeDone
               PROVE  IInv'
    OBVIOUS
  <1> DEFINE m == managed_regions
  <1>1. /\ pc = "merge" /\ pc' = "copy" /\ i' = 1 /\ m' = SubSeq(m, 1, out)
        /\ UNCHANGED <<memmap, out, free_regions, phys_total_pages,
                       phys_free_pages_count, ret, allocated>>
    BY DEF MergeDone
  <1>2. m \in Seq(Region) /\ Len(m) \in Nat /\ out \in 0 .. Len(m)
    BY ManagedFacts DEF IInv, TypeOK
  <1>3. \A k \in 1 .. out : k \in 1 .. Len(m) /\ m[k] \in Region
    BY <1>2, ManagedFacts
  <1>4. /\ m' \in Seq(Region) /\ Len(m') = out
        /\ \A k \in 1 .. out : m'[k] = m[k]
    <2>1. /\ SubSeq(m, 1, out) \in Seq(Region)
          /\ Len(SubSeq(m, 1, out)) = IF 1 <= out THEN out - 1 + 1 ELSE 0
          /\ \A k \in 1 .. (out - 1 + 1) : SubSeq(m, 1, out)[k] = m[1 + k - 1]
      BY <1>2, <1>3, SubSeqProperties
    <2>2. /\ Len(SubSeq(m, 1, out)) = out
          /\ \A k \in 1 .. out : SubSeq(m, 1, out)[k] = m[k]
      BY <1>2, <2>1
    <2> QED BY <1>1, <2>1, <2>2
  <1>5. Coalesced(m)' /\ Proper(m)'
    <2>1. \A k \in 1 .. out : m'[k].base > 0 /\ m'[k].pages > 0
      BY <1>3, <1>4, ManagedFacts
    <2>2. \A k, l \in 1 .. out : k < l => End(m'[k]) < m'[l].base
      BY <1>1, <1>4 DEF IInv, MergeInv
    <2> QED BY <1>4, <2>1, <2>2 DEF Coalesced, Proper
  <1>6. FreePages = {} /\ free_regions = << >> /\ phys_total_pages = 0
    BY <1>1, NoPagesOfEmpty DEF IInv, CopyInv, FreePages
  <1>7. CopyInv'
    <2>1. Len(free_regions') = 0 /\ Len(free_regions') <= Len(m')
      BY <1>1, <1>2, <1>4, <1>6, EmptySeq
    <2>2. FreePages' = {} /\ phys_total_pages' = 0
      BY <1>1, <1>6, FreeTableUntouched
    <2>3. phys_total_pages' = Cardinality(FreePages')
      BY <2>2, FS_EmptySet
    <2>4. allocated' = {} /\ ret' = 0 /\ phys_free_pages_count' = 0
      BY <1>1 DEF IInv, CopyInv
    <2>5. i' = Len(free_regions') + 1
      BY <1>1, <2>1
    <2>6. \A k \in 1 .. Len(free_regions') : free_regions'[k] = m'[k]
      BY <2>1
    <2> QED BY <1>1, <1>5, <2>1, <2>3, <2>4, <2>5, <2>6 DEF CopyInv
  <1>8. TypeOK'
    BY <1>1, <1>2, <1>4, ManagedFacts, MaxRegionsAssumption, FreeTableUntouched
       DEF IInv, TypeOK
  <1>9. CollectInv' /\ SortInv' /\ MergeInv' /\ UpInv'
    BY <1>1 DEF CollectInv, SortInv, MergeInv, UpInv
  <1> QED BY <1>1, <1>5, <1>7, <1>8, <1>9, FreeTableUntouched DEF IInv

(* The page count grows with the pages copied: the regions are disjoint.   *)
LEMMA CopyStepStep == IInv /\ CopyStep => IInv'
  <1> SUFFICES ASSUME IInv, CopyStep
               PROVE  IInv'
    OBVIOUS
  <1> DEFINE m == managed_regions
             f == free_regions
  <1>1. /\ pc = "copy" /\ i <= Len(m) /\ i' = i + 1
        /\ f' = Append(f, m[i])
        /\ phys_total_pages' = phys_total_pages + m[i].pages
        /\ UNCHANGED <<memmap, pc, out, managed_regions, phys_free_pages_count,
                       ret, allocated>>
    BY DEF CopyStep
  <1>2. /\ f \in Seq(Region) /\ Len(f) \in Nat /\ Len(m) \in Nat
        /\ i = Len(f) + 1 /\ i \in 1 .. Len(m) /\ m[i] \in Region
        /\ m[i].base \in Nat /\ m[i].pages \in Nat
        /\ m[i].base > 0 /\ m[i].pages > 0
        /\ End(m[i]) = m[i].base + m[i].pages
    <2>1. f \in Seq(Region) /\ Len(f) \in Nat /\ Len(m) \in Nat /\ i = Len(f) + 1
      BY <1>1, ManagedFacts, LenProperties DEF IInv, TypeOK, CopyInv
    <2>2. i \in 1 .. Len(m)
      BY <1>1, <2>1
    <2> QED BY <2>1, <2>2, ManagedFacts
  <1>3. /\ f' \in Seq(Region) /\ Len(f') = Len(f) + 1
        /\ \A k \in 1 .. Len(f) : f'[k] = f[k]
        /\ f'[Len(f) + 1] = m[i]
    BY <1>1, <1>2, AppendProperties
  <1>4. ASSUME NEW k \in 1 .. Len(f')
        PROVE  k \in 1 .. Len(m) /\ f'[k] = m[k]
    <2>1. k \in 1 .. Len(f) \/ k = Len(f) + 1
      BY <1>2, <1>3
    <2>2. \A a \in 1 .. Len(f) : f[a] = m[a]
      BY <1>1 DEF IInv, CopyInv
    <2> QED BY <1>2, <1>3, <2>1, <2>2
  <1>5. FreePages' = FreePages \cup Pages(m[i])
    <2>1. ASSUME NEW p
          PROVE  p \in PagesOf(f') <=> p \in PagesOf(f) \/ p \in Pages(m[i])
      BY <1>2, <1>3 DEF PagesOf
    <2> QED BY <2>1 DEF FreePages
  <1>6. FreePages \cap Pages(m[i]) = {}
    <2>1. SUFFICES ASSUME NEW p, p \in PagesOf(f), p \in Pages(m[i])
                   PROVE  FALSE
      BY DEF FreePages
    <2>2. PICK k \in 1 .. Len(f) : p \in Nat /\ p < End(f[k])
      BY <1>2, <2>1, PagesOfMember
    <2>3. f[k] = m[k] /\ k \in 1 .. Len(m) /\ k < i
      BY <1>1, <1>2 DEF IInv, CopyInv
    <2>4. End(m[k]) < m[i].base
      BY <1>1, <1>2, <2>3 DEF IInv, CopyInv, Coalesced
    <2>5. m[i].base <= p /\ End(m[k]) \in Nat
      BY <1>2, <2>1, <2>3, PagesMember, ManagedFacts
    <2> QED BY <1>2, <2>2, <2>3, <2>4, <2>5
  <1>7. IsFiniteSet(Pages(m[i])) /\ Cardinality(Pages(m[i])) = m[i].pages
    <2> DEFINE a == m[i].base
               b == End(m[i]) - 1
    <2>1. a \in Int /\ b \in Int /\ b - a + 1 = m[i].pages /\ ~(a > b)
      BY <1>2
    <2>2. Pages(m[i]) = a .. b
      BY DEF Pages
    <2> HIDE DEF a, b
    <2>3. IsFiniteSet(a .. b) /\ Cardinality(a .. b) = b - a + 1
      BY <2>1, FS_Interval
    <2> QED BY <2>1, <2>2, <2>3
  <1>8. /\ IsFiniteSet(FreePages')
        /\ Cardinality(FreePages') = Cardinality(FreePages) + m[i].pages
    <2>1. IsFiniteSet(FreePages) /\ Cardinality(FreePages) \in Nat
      BY FS_CardinalityType DEF IInv
    <2>2. /\ IsFiniteSet(FreePages \cup Pages(m[i]))
          /\ Cardinality(FreePages \cup Pages(m[i])) =
               Cardinality(FreePages) + Cardinality(Pages(m[i]))
                 - Cardinality(FreePages \cap Pages(m[i]))
      BY <1>7, <2>1, FS_Union
    <2>3. Cardinality(FreePages \cap Pages(m[i])) = 0
      BY <1>6, FS_EmptySet
    <2> QED BY <1>2, <1>5, <1>7, <2>1, <2>2, <2>3
  <1>9. CopyInv'
    <2>1. phys_total_pages' = Cardinality(FreePages')
      BY <1>1, <1>8 DEF IInv, CopyInv
    <2>2. i' = Len(f') + 1 /\ Len(f') <= Len(m')
      BY <1>1, <1>2, <1>3
    <2>3. \A k \in 1 .. Len(f') : f'[k] = m'[k]
      BY <1>1, <1>4
    <2>4. Coalesced(managed_regions)'
      BY <1>1 DEF IInv, CopyInv, Coalesced
    <2>5. allocated' = {} /\ ret' = 0 /\ phys_free_pages_count' = 0
      BY <1>1 DEF IInv, CopyInv
    <2> QED BY <1>1, <2>1, <2>2, <2>3, <2>4, <2>5 DEF CopyInv
  <1>10. TypeOK'
    <2>1. Len(f') <= MAX_PHYS_REGIONS
      BY <1>1, <1>2, <1>3, ManagedFacts, MaxRegionsAssumption
    <2>2. phys_total_pages' \in Nat /\ i' \in Nat \ {0}
      BY <1>1, <1>2 DEF IInv, TypeOK
    <2> QED BY <1>1, <1>3, <2>1, <2>2 DEF IInv, TypeOK
  <1>11. Proper(managed_regions)' /\ Proper(free_regions)'
    BY <1>1, <1>4, ManagedFacts DEF Proper
  <1>12. CollectInv' /\ SortInv' /\ MergeInv' /\ UpInv'
    BY <1>1 DEF CollectInv, SortInv, MergeInv, UpInv
  <1> QED BY <1>8, <1>9, <1>10, <1>11, <1>12 DEF IInv

LEMMA CopyDoneStep == IInv /\ CopyDone => IInv'
  <1> SUFFICES ASSUME IInv, CopyDone
               PROVE  IInv'
    OBVIOUS
  <1> DEFINE m == managed_regions
             f == free_regions
  <1>1. /\ pc = "copy" /\ i > Len(m) /\ pc' = "up"
        /\ phys_free_pages_count' = phys_total_pages
        /\ UNCHANGED <<memmap, i, out, managed_regions, free_regions,
                       phys_total_pages, ret, allocated>>
    BY DEF CopyDone
  <1>2. /\ i = Len(f) + 1 /\ Len(f) <= Len(m)
        /\ \A k \in 1 .. Len(f) : f[k] = m[k]
        /\ phys_total_pages = Cardinality(FreePages)
        /\ Coalesced(m) /\ allocated = {} /\ ret = 0
    BY <1>1 DEF IInv, CopyInv
  <1>3. f \in Seq(Region) /\ m \in Seq(Region) /\ Len(f) \in Nat /\ Len(m) \in Nat
    BY ManagedFacts, LenProperties DEF IInv, TypeOK
  <1>4. f = m
    BY <1>1, <1>2, <1>3, SeqEqual
  <1>5. FreePages' = FreePages /\ ManagedPages' = FreePages
    BY <1>1, <1>4, FreeTableUntouched DEF FreePages, ManagedPages
  <1>6. Coalesced(free_regions)' /\ Coalesced(managed_regions)'
    BY <1>1, <1>2, <1>4 DEF Coalesced
  <1>7. UpInv'
    BY <1>1, <1>2, <1>5, <1>6 DEF UpInv
  <1>8. CopyInv' /\ CollectInv' /\ SortInv' /\ MergeInv'
    BY <1>1, <1>6 DEF CopyInv, CollectInv, SortInv, MergeInv
  <1>9. TypeOK' /\ Proper(managed_regions)'
    BY <1>1 DEF IInv, TypeOK, Proper
  <1> QED BY <1>1, <1>7, <1>8, <1>9, FreeTableUntouched DEF IInv

-----------------------------------------------------------------------------
(* The two operations preserve the inductive invariant                     *)

LEMMA FreeIsTable == IInv /\ pc = "up" => free_regions \in Table
  BY DEF IInv, TypeOK, UpInv, Table

LEMMA AllocStep == IInv /\ phys_page_alloc => IInv'
  <1> SUFFICES ASSUME IInv, phys_page_alloc
               PROVE  IInv'
    OBVIOUS
  <1>1. /\ pc = "up" /\ pc' = "up"
        /\ UNCHANGED <<memmap, i, out, managed_regions, phys_total_pages>>
    BY DEF phys_page_alloc
  <1>2. free_regions \in Table
    BY <1>1, FreeIsTable
  <1>3. ManagedPages' = ManagedPages
    BY <1>1 DEF ManagedPages, PagesOf, Pages, End
  <1>4. /\ FreePages \subseteq ManagedPages
        /\ allocated \subseteq ManagedPages \ FreePages
        /\ phys_free_pages_count = Cardinality(FreePages)
        /\ IsFiniteSet(FreePages)
    BY <1>1 DEF IInv, UpInv
  <1>5. Coalesced(managed_regions)' /\ Proper(managed_regions)'
    BY <1>1 DEF IInv, CopyInv, Coalesced, Proper
  <1>6. CopyInv' /\ CollectInv' /\ SortInv' /\ MergeInv'
    BY <1>1, <1>5 DEF CopyInv, CollectInv, SortInv, MergeInv
  <1>7. CASE TakePage
    <2>1. /\ free_regions' \in Table
          /\ Len(free_regions') <= Len(free_regions)
          /\ ret' \in FreePages
          /\ FreePages' = FreePages \ {ret'}
      BY <1>2, <1>7, TakePageStep
    <2>2. allocated' = allocated \cup {ret'} /\ phys_free_pages_count' = phys_free_pages_count - 1
      BY <1>7 DEF TakePage
    <2>3. IsFiniteSet(FreePages') /\ Cardinality(FreePages') = Cardinality(FreePages) - 1
      BY <1>4, <2>1, FS_RemoveElement
    <2>4. Coalesced(free_regions)' /\ Proper(free_regions)' /\ free_regions' \in Seq(Region)
      BY <2>1 DEF Table
    <2>5. FreePages' \subseteq ManagedPages' /\ allocated' \subseteq ManagedPages' \ FreePages'
      BY <1>3, <1>4, <2>1, <2>2
    <2>6. UpInv'
      BY <1>1, <1>4, <2>2, <2>3, <2>4, <2>5 DEF UpInv
    <2>7. TypeOK'
      <3>1. Len(free_regions') <= MAX_PHYS_REGIONS
        <4>1. Len(free_regions') \in Nat /\ Len(free_regions) \in Nat
          BY <1>2, <2>1, TableFacts
        <4> QED BY <2>1, <4>1, MaxRegionsAssumption DEF IInv, TypeOK
      <3>2. ret' \in Nat
        BY <1>2, <2>1, TableFacts DEF FreePages
      <3> QED BY <1>1, <2>2, <2>4, <3>1, <3>2 DEF IInv, TypeOK
    <2> QED BY <1>5, <1>6, <2>3, <2>4, <2>6, <2>7 DEF IInv
  <1>8. CASE NoPage
    <2>1. UNCHANGED <<free_regions, phys_free_pages_count, allocated>> /\ ret' = 0
      BY <1>8 DEF NoPage
    <2>2. UpInv'
      BY <1>1, <1>3, <2>1, FreeTableUntouched DEF IInv, UpInv, Coalesced
    <2>3. TypeOK'
      BY <1>1, <2>1 DEF IInv, TypeOK
    <2> QED BY <1>5, <1>6, <2>1, <2>2, <2>3, FreeTableUntouched DEF IInv
  <1> QED BY <1>7, <1>8 DEF phys_page_alloc

LEMMA FreeStep ==
  ASSUME NEW addr \in FreeArgs
  PROVE  IInv /\ phys_page_free(addr) => IInv'
  <1> SUFFICES ASSUME IInv, phys_page_free(addr)
               PROVE  IInv'
    OBVIOUS
  <1>1. /\ pc = "up" /\ pc' = "up"
        /\ UNCHANGED <<memmap, i, out, managed_regions, phys_total_pages, ret>>
    BY DEF phys_page_free
  <1>2. free_regions \in Table
    BY <1>1, FreeIsTable
  <1>3. ManagedPages' = ManagedPages
    BY <1>1 DEF ManagedPages, PagesOf, Pages, End
  <1>4. /\ FreePages \subseteq ManagedPages
        /\ allocated \subseteq ManagedPages \ FreePages
        /\ phys_free_pages_count = Cardinality(FreePages)
        /\ IsFiniteSet(FreePages)
    BY <1>1 DEF IInv, UpInv
  <1>5. Coalesced(managed_regions)' /\ Proper(managed_regions)'
    BY <1>1 DEF IInv, CopyInv, Coalesced, Proper
  <1>6. CopyInv' /\ CollectInv' /\ SortInv' /\ MergeInv'
    BY <1>1, <1>5 DEF CopyInv, CollectInv, SortInv, MergeInv
  <1>7. CASE Rejects(addr) /\ UNCHANGED <<free_regions, phys_free_pages_count, allocated>>
    <2>1. UpInv'
      BY <1>1, <1>3, <1>7, FreeTableUntouched DEF IInv, UpInv, Coalesced
    <2>2. TypeOK'
      BY <1>1, <1>7 DEF IInv, TypeOK
    <2> QED BY <1>5, <1>6, <1>7, <2>1, <2>2, FreeTableUntouched DEF IInv
  <1>8. CASE GiveBack(addr)
    <2> DEFINE p == addr \div PAGE_SIZE
    <2>1. PICK pos \in 1 .. (Len(free_regions) + 1) :
            /\ InsertPos(p, pos)
            /\ \/ /\ phys_insert_free_page(p, pos)
                  /\ phys_free_pages_count' = phys_free_pages_count + 1
               \/ /\ TableFull(p, pos)
                  /\ UNCHANGED <<free_regions, phys_free_pages_count>>
      BY <1>8 DEF GiveBack
    <2>2. allocated' = allocated \ {p} /\ phys_managed(p) /\ ~phys_free_already(p)
      BY <1>8 DEF GiveBack, Rejects
    <2> HIDE DEF p
    <2>3. p \in ManagedPages /\ p \notin FreePages
      BY <2>2 DEF phys_managed, phys_free_already, ManagedPages, FreePages, PagesOf
    <2>4. p \in Nat /\ p > 0
      <3>1. PICK k \in 1 .. Len(managed_regions) : p \in Pages(managed_regions[k])
        BY <2>2 DEF phys_managed
      <3>2. /\ managed_regions[k] \in Region /\ managed_regions[k].base > 0
            /\ managed_regions[k].base \in Nat
        BY ManagedFacts
      <3>3. p \in Nat /\ managed_regions[k].base <= p
        BY <3>1, <3>2, PagesMember
      <3> QED BY <3>2, <3>3
    <2>5. CASE phys_insert_free_page(p, pos) /\ phys_free_pages_count' = phys_free_pages_count + 1
      <3>1. /\ free_regions' \in Table
            /\ Len(free_regions') <= MAX_PHYS_REGIONS
            /\ FreePages' = FreePages \cup {p}
        BY <1>2, <2>1, <2>3, <2>4, <2>5, InsertPageStep DEF IInv, TypeOK
      <3>2. IsFiniteSet(FreePages') /\ Cardinality(FreePages') = Cardinality(FreePages) + 1
        BY <1>4, <2>3, <3>1, FS_AddElement
      <3>3. Coalesced(free_regions)' /\ Proper(free_regions)' /\ free_regions' \in Seq(Region)
        BY <3>1 DEF Table
      <3>4. FreePages' \subseteq ManagedPages' /\ allocated' \subseteq ManagedPages' \ FreePages'
        BY <1>3, <1>4, <2>2, <2>3, <3>1
      <3>5. UpInv'
        BY <1>1, <1>4, <2>5, <3>2, <3>3, <3>4 DEF UpInv
      <3>6. TypeOK'
        <4>1. phys_free_pages_count' \in Int
          BY <2>5 DEF IInv, TypeOK
        <4>2. allocated' \subseteq Nat
          BY <2>2 DEF IInv, TypeOK
        <4> QED BY <1>1, <3>1, <3>3, <4>1, <4>2 DEF IInv, TypeOK
      <3> QED BY <1>5, <1>6, <3>2, <3>3, <3>5, <3>6 DEF IInv
    <2>6. CASE UNCHANGED <<free_regions, phys_free_pages_count>>
      <3>1. UpInv'
        BY <1>1, <1>3, <2>2, <2>6, FreeTableUntouched DEF IInv, UpInv, Coalesced
      <3>2. TypeOK'
        BY <1>1, <2>2, <2>6 DEF IInv, TypeOK
      <3> QED BY <1>5, <1>6, <2>6, <3>1, <3>2, FreeTableUntouched DEF IInv
    <2> QED BY <2>1, <2>5, <2>6
  <1> QED BY <1>7, <1>8 DEF phys_page_free

-----------------------------------------------------------------------------
(* Theorems                                                                *)

LEMMA NextIInv == IInv /\ [Next]_vars => IInv'
  <1> SUFFICES ASSUME IInv, [Next]_vars
               PROVE  IInv'
    OBVIOUS
  <1>1. CASE phys_memory_init
    BY <1>1, CollectStep, CollectDoneStep, SortStepStep, SortDoneStep, MergeStepStep,
       MergeDoneStep, CopyStepStep, CopyDoneStep DEF phys_memory_init
  <1>2. CASE phys_page_alloc
    BY <1>2, AllocStep
  <1>3. CASE \E addr \in FreeArgs : phys_page_free(addr)
    BY <1>3, FreeStep
  <1>4. CASE UNCHANGED vars
    <2> USE <1>4 DEF vars
    <2>1. TypeOK' /\ Proper(managed_regions)'
      BY DEF IInv, TypeOK, Proper
    <2>2. FreePages' = FreePages /\ ManagedPages' = ManagedPages
      BY DEF FreePages, ManagedPages, PagesOf, Pages, End
    <2>3. CollectInv' /\ SortInv' /\ MergeInv'
      BY DEF IInv, CollectInv, SortInv, MergeInv
    <2>4. CopyInv' /\ UpInv'
      BY <2>2 DEF IInv, CopyInv, UpInv, Coalesced
    <2> QED BY <2>1, <2>3, <2>4, FreeTableUntouched DEF IInv
  <1> QED BY <1>1, <1>2, <1>3, <1>4 DEF Next

(* The inductive invariant holds in every reachable state.                 *)
THEOREM InductiveInvariant == Spec => []IInv
  BY InitIInv, NextIInv, PTL DEF Spec

(* Every variable keeps its type, and neither region table outgrows its    *)
(* array of MAX_PHYS_REGIONS slots.                                        *)
THEOREM TypeCorrect == Spec => []TypeOK
  <1>1. IInv => TypeOK
    BY DEF IInv
  <1> QED BY <1>1, InductiveInvariant, PTL

(* The tables stay sorted, disjoint and fully merged.                      *)
THEOREM FreeListStaysCoalesced == Spec => []FreeListCoalesced
  <1>1. IInv => FreeListCoalesced
    BY DEF IInv, UpInv, CopyInv, FreeListCoalesced
  <1> QED BY <1>1, InductiveInvariant, PTL

(* The free page count is the number of free pages.                        *)
THEOREM FreeCountIsExact == Spec => []FreeCountExact
  <1>1. IInv => FreeCountExact
    BY DEF IInv, UpInv, FreeCountExact
  <1> QED BY <1>1, InductiveInvariant, PTL

(* No page is in two hands, whatever addresses are given to                *)
(* phys_page_free().                                                       *)
THEOREM PagesAreExclusive == Spec => []NoPageInTwoHands
  <1>1. IInv => NoPageInTwoHands
    <2> SUFFICES ASSUME IInv
                 PROVE  NoPageInTwoHands
      OBVIOUS
    <2>1. allocated \cap FreePages = {}
      BY DEF IInv, UpInv, CopyInv, TypeOK
    <2>2. pc = "up" => FreePages \cup allocated \subseteq ManagedPages
      BY DEF IInv, UpInv
    <2>3. ASSUME NEW s \in Seq(Region), Proper(s)
          PROVE  0 \notin PagesOf(s)
      <3>1. SUFFICES ASSUME 0 \in PagesOf(s)
                     PROVE  FALSE
        OBVIOUS
      <3>2. PICK k \in 1 .. Len(s) : s[k].base <= 0
        BY <3>1, PagesOfMember
      <3>3. s[k].base \in Nat /\ s[k].base > 0
        BY <2>3, RegionFields DEF Proper
      <3> QED BY <3>2, <3>3
    <2>4. 0 \notin FreePages \cup ManagedPages
      BY <2>3 DEF IInv, TypeOK, FreePages, ManagedPages
    <2> QED BY <2>1, <2>2, <2>4 DEF NoPageInTwoHands
  <1> QED BY <1>1, InductiveInvariant, PTL

-----------------------------------------------------------------------------
(* What an allocation returns, and the refinement of PageAllocator         *)

LEMMA NoPageStep ==
  ASSUME IInv, pc = "up", NoPage
  PROVE  FreePages = {}
  <1>1. free_regions \in Table
    BY FreeIsTable
  <1>2. \A k \in 1 .. Len(free_regions) : FALSE
    BY <1>1, TableFacts DEF NoPage
  <1> QED BY <1>2 DEF FreePages, PagesOf

(* An allocation returns a page that was free and belongs to nobody, or    *)
(* reports that there is none.                                             *)
THEOREM AllocationsAreFresh == Spec => AllocReturnsFreshPage
  <1> DEFINE Fresh == phys_page_alloc =>
                        IF FreePages = {} THEN ret' = 0
                        ELSE ret' \in FreePages \ (allocated \cup FreePages')
  <1>1. IInv /\ [Next]_vars => [Fresh]_vars
    <2> SUFFICES ASSUME IInv, phys_page_alloc
                 PROVE  IF FreePages = {} THEN ret' = 0
                        ELSE ret' \in FreePages \ (allocated \cup FreePages')
      OBVIOUS
    <2>1. pc = "up" /\ (TakePage \/ NoPage)
      BY DEF phys_page_alloc
    <2>2. CASE TakePage
      <3>1. ret' \in FreePages /\ FreePages' = FreePages \ {ret'}
        BY <2>1, <2>2, FreeIsTable, TakePageStep
      <3>2. ret' \notin allocated
        BY <2>1, <3>1 DEF IInv, UpInv
      <3> QED BY <3>1, <3>2
    <2>3. CASE NoPage
      <3>1. FreePages = {} /\ ret' = 0
        BY <2>1, <2>3, NoPageStep DEF NoPage
      <3> QED BY <3>1
    <2> QED BY <2>1, <2>2, <2>3
  <1> QED BY <1>1, InductiveInvariant, PTL DEF Spec, AllocReturnsFreshPage

(* A merged table has as many regions as the free set has runs.            *)
LEMMA RunsAreRegions ==
  ASSUME NEW s \in Table
  PROVE  Cardinality(Abstract!RunStarts(PagesOf(s))) = Len(s)
  <1> DEFINE R == Abstract!RunStarts(PagesOf(s))
             f == [k \in 1 .. Len(s) |-> s[k].base]
  <1>1. Len(s) \in Nat
    BY TableFacts
  <1>2. ASSUME NEW k \in 1 .. Len(s)
        PROVE  s[k].base \in R
    <2>1. s[k].base \in PagesOf(s)
      <3>1. s[k].base \in Nat /\ s[k].base <= s[k].base /\ s[k].base < End(s[k])
        BY TableFacts
      <3> QED BY <3>1, TableFacts
    <2>2. ASSUME s[k].base - 1 \in PagesOf(s)
          PROVE  FALSE
      <3>1. PICK l \in 1 .. Len(s) : s[l].base <= s[k].base - 1 /\ s[k].base - 1 < End(s[l])
        BY <2>2, TableFacts
      <3>2. /\ s[k].base \in Nat /\ s[l].base \in Nat /\ End(s[l]) \in Nat
            /\ End(s[k]) \in Nat /\ s[k].base < End(s[k])
        BY SMTT(30), TableFacts
      <3>3. k < l \/ l < k
        BY <1>1, <3>1, <3>2
      <3>4. End(s[k]) < s[l].base \/ End(s[l]) < s[k].base
        BY <3>3, TableFacts
      <3> QED BY <3>1, <3>2, <3>4
    <2> QED BY <2>1, <2>2 DEF Abstract!RunStarts
  <1>3. ASSUME NEW p \in R
        PROVE  \E k \in 1 .. Len(s) : s[k].base = p
    <2>1. p \in PagesOf(s) /\ p - 1 \notin PagesOf(s)
      BY DEF Abstract!RunStarts
    <2>2. PICK k \in 1 .. Len(s) : p \in Nat /\ s[k].base <= p /\ p < End(s[k])
      BY <2>1, TableFacts
    <2>3. s[k].base \in Nat /\ End(s[k]) \in Nat
      BY TableFacts
    <2>4. ~(p - 1 \in Nat /\ s[k].base <= p - 1 /\ p - 1 < End(s[k]))
      BY <2>1, TableFacts
    <2>5. s[k].base = p
      BY <2>2, <2>3, <2>4
    <2> QED BY <2>5
  <1>4. ASSUME NEW k \in 1 .. Len(s), NEW l \in 1 .. Len(s), s[k].base = s[l].base
        PROVE  k = l
    <2>1. k # l => End(s[k]) < s[l].base \/ End(s[l]) < s[k].base
      BY TableFacts
    <2>2. /\ s[k].base \in Nat /\ s[k].base < End(s[k]) /\ End(s[k]) \in Nat
          /\ s[l].base \in Nat /\ s[l].base < End(s[l]) /\ End(s[l]) \in Nat
      BY TableFacts
    <2> QED BY <1>4, <2>1, <2>2
  <1> HIDE DEF R
  <1>5. f \in Bijection(1 .. Len(s), R)
    <2>1. f \in [1 .. Len(s) -> R]
      BY <1>2
    <2>2. \A k, l \in 1 .. Len(s) : f[k] = f[l] => k = l
      BY <1>4
    <2>3. \A p \in R : \E k \in 1 .. Len(s) : f[k] = p
      BY <1>3
    <2> QED BY <2>1, <2>2, <2>3 DEF Bijection, Injection, Surjection, IsInjective
  <1>6. IsFiniteSet(1 .. Len(s)) /\ Cardinality(1 .. Len(s)) = Len(s)
    BY SMTT(30), <1>1, FS_Interval
  <1>7. ExistsBijection(1 .. Len(s), R)
    BY <1>5 DEF ExistsBijection
  <1>8. Cardinality(R) = Cardinality(1 .. Len(s))
    BY <1>6, <1>7, FS_Bijection
  <1> QED BY <1>6, <1>8 DEF R

(* The two modules count with the same operators.                          *)
LEMMA SameCounting ==
  ASSUME NEW S
  PROVE  /\ Abstract!Cardinality(S) = Cardinality(S)
         /\ Abstract!IsFiniteSet(S) = IsFiniteSet(S)
  <1>1. Abstract!Cardinality(S) = Cardinality(S)
    BY Zenon DEF Abstract!Cardinality, Cardinality
  <1>2. Abstract!IsFiniteSet(S) = IsFiniteSet(S)
    BY Zenon DEF Abstract!IsFiniteSet, IsFiniteSet
  <1> QED BY <1>1, <1>2

(* Before phys_memory_init() returns, nothing the abstract allocator shows *)
(* has changed; its last step is the abstract boot.                        *)
LEMMA BootSimulation ==
  IInv /\ IInv' /\ phys_memory_init => [Abstract!Next]_(Abstract!absVars)
  <1> SUFFICES ASSUME IInv, IInv', phys_memory_init
               PROVE  [Abstract!Next]_(Abstract!absVars)
    OBVIOUS
  <1>1. CASE CopyDone
    <2>1. /\ pc = "copy" /\ pc' = "up" /\ UNCHANGED <<ret, allocated>>
      BY <1>1 DEF CopyDone
    <2>2. i > Len(managed_regions) /\ UNCHANGED <<free_regions, managed_regions>>
      BY <1>1 DEF CopyDone
    <2>3. FreePages' = ManagedPages'
      <3>1. /\ i = Len(free_regions) + 1 /\ Len(free_regions) <= Len(managed_regions)
            /\ \A k \in 1 .. Len(free_regions) : free_regions[k] = managed_regions[k]
            /\ free_regions \in Seq(Region) /\ managed_regions \in Seq(Region)
        BY <2>1 DEF IInv, CopyInv, TypeOK
      <3>2. Len(free_regions) \in Nat /\ Len(managed_regions) \in Nat
        BY <3>1, LenProperties
      <3>3. Len(free_regions) = Len(managed_regions)
        BY <2>2, <3>1, <3>2
      <3>4. free_regions = managed_regions
        BY <3>1, <3>3, SeqEqual
      <3> QED BY <2>2, <3>4 DEF FreePages, ManagedPages
    <2>4. /\ phys_free_pages_count' = Cardinality(FreePages')
          /\ IsFiniteSet(FreePages') /\ Proper(managed_regions')
          /\ managed_regions' \in Seq(Region)
      BY <2>1 DEF IInv, UpInv, TypeOK
    <2>5. 0 \notin ManagedPages'
      <3>1. SUFFICES ASSUME 0 \in PagesOf(managed_regions')
                     PROVE  FALSE
        BY DEF ManagedPages
      <3>2. PICK k \in 1 .. Len(managed_regions') : managed_regions'[k].base <= 0
        BY <2>4, <3>1, PagesOfMember
      <3>3. managed_regions'[k].base \in Nat /\ managed_regions'[k].base > 0
        BY <2>4, RegionFields DEF Proper
      <3> QED BY <3>2, <3>3
    <2>6. Abstract!Boot
      BY <2>1, <2>3, <2>4, <2>5, SameCounting DEF Abstract!Boot
    <2> QED BY <2>6 DEF Abstract!Next
  <1>2. CASE ~CopyDone
    <2>1. pc # "up" /\ pc' # "up" /\ UNCHANGED <<ret, allocated, phys_free_pages_count>>
      BY <1>2 DEF phys_memory_init, Collect, CollectDone, SortStep, SortDone, MergeStep,
                  MergeDone, CopyStep
    <2> QED BY <2>1 DEF Abstract!absVars
  <1> QED BY <1>1, <1>2

LEMMA AllocSimulation ==
  IInv /\ phys_page_alloc => [Abstract!Next]_(Abstract!absVars)
  <1> SUFFICES ASSUME IInv, phys_page_alloc
               PROVE  [Abstract!Next]_(Abstract!absVars)
    OBVIOUS
  <1>1. /\ pc = "up" /\ pc' = "up" /\ (TakePage \/ NoPage)
        /\ ManagedPages' = ManagedPages
    BY DEF phys_page_alloc, ManagedPages
  <1>2. CASE TakePage
    <2>1. /\ ret' \in FreePages
          /\ \A q \in FreePages : ret' <= q
          /\ FreePages' = FreePages \ {ret'}
      BY <1>1, <1>2, FreeIsTable, TakePageStep
    <2>2. allocated' = allocated \cup {ret'} /\ phys_free_pages_count' = phys_free_pages_count - 1
      BY <1>2 DEF TakePage
    <2>3. Abstract!Alloc
      BY <1>1, <2>1, <2>2 DEF Abstract!Alloc
    <2> QED BY <2>3 DEF Abstract!Next
  <1>3. CASE NoPage
    <2>1. FreePages = {} /\ ret' = 0 /\ UNCHANGED <<free_regions, phys_free_pages_count, allocated>>
      BY <1>1, <1>3, NoPageStep DEF NoPage
    <2>2. FreePages' = FreePages
      BY <2>1, FreeTableUntouched
    <2>3. Abstract!OutOfMemory
      BY <1>1, <2>1, <2>2 DEF Abstract!OutOfMemory
    <2> QED BY <2>3 DEF Abstract!Next
  <1> QED BY <1>1, <1>2, <1>3

(* A page that is given back becomes free, or is lost because it touches   *)
(* no free page and the table is full; there is no third outcome.          *)
LEMMA FreeSimulation ==
  ASSUME NEW addr \in FreeArgs
  PROVE  IInv /\ phys_page_free(addr) => [Abstract!Next]_(Abstract!absVars)
  <1> SUFFICES ASSUME IInv, phys_page_free(addr)
               PROVE  [Abstract!Next]_(Abstract!absVars)
    OBVIOUS
  <1>1. /\ pc = "up" /\ pc' = "up" /\ ret' = ret
        /\ ManagedPages' = ManagedPages
    BY DEF phys_page_free, ManagedPages
  <1>2. CASE Rejects(addr) /\ UNCHANGED <<free_regions, phys_free_pages_count, allocated>>
    <2>1. FreePages' = FreePages
      BY <1>2, FreeTableUntouched
    <2> QED BY <1>1, <1>2, <2>1 DEF Abstract!absVars
  <1>3. CASE GiveBack(addr)
    <2> DEFINE p == addr \div PAGE_SIZE
               s == free_regions
    <2>1. PICK pos \in 1 .. (Len(free_regions) + 1) :
            /\ InsertPos(p, pos)
            /\ \/ /\ phys_insert_free_page(p, pos)
                  /\ phys_free_pages_count' = phys_free_pages_count + 1
               \/ /\ TableFull(p, pos)
                  /\ UNCHANGED <<free_regions, phys_free_pages_count>>
      BY <1>3 DEF GiveBack
    <2>2. allocated' = allocated \ {p} /\ phys_managed(p) /\ ~phys_free_already(p)
      BY <1>3 DEF GiveBack, Rejects
    <2> HIDE DEF p
    <2>3. p \in ManagedPages /\ p \notin FreePages
      BY <2>2 DEF phys_managed, phys_free_already, ManagedPages, FreePages, PagesOf
    <2>4. p \in Nat /\ p > 0
      <3>1. PICK k \in 1 .. Len(managed_regions) : p \in Pages(managed_regions[k])
        BY <2>2 DEF phys_managed
      <3>2. /\ managed_regions[k] \in Region /\ managed_regions[k].base > 0
            /\ managed_regions[k].base \in Nat
        BY ManagedFacts
      <3>3. p \in Nat /\ managed_regions[k].base <= p
        BY <3>1, <3>2, PagesMember
      <3> QED BY <3>2, <3>3
    <2>5. s \in Table /\ Len(s) <= MAX_PHYS_REGIONS /\ Len(s) \in Nat
      BY <1>1, FreeIsTable, TableFacts DEF IInv, TypeOK
    <2>6. Cardinality(Abstract!RunStarts(FreePages)) = Len(s)
      BY <2>5, RunsAreRegions DEF FreePages
    <2>7. /\ \A k \in 1 .. Len(s) : k < pos => End(s[k]) <= p
          /\ \A k \in 1 .. Len(s) : k >= pos => p < s[k].base
      BY <2>1, <2>3, <2>4, <2>5, InsertPosSplits
    <2>fields. \A l \in 1 .. Len(s) :
             /\ s[l].base \in Nat /\ s[l].pages \in Nat /\ s[l].pages > 0
             /\ End(s[l]) = s[l].base + s[l].pages
      BY <2>5, TableFacts
    <2>8. CASE phys_insert_free_page(p, pos) /\ phys_free_pages_count' = phys_free_pages_count + 1
      <3>1. FreePages' = FreePages \cup {p}
        BY <2>1, <2>3, <2>4, <2>5, <2>8, InsertPageStep
      <3>2. Abstract!Isolated(p, FreePages) => ~EndsAt(pos, p) /\ ~StartsAfter(pos, p)
        <4>1. ASSUME EndsAt(pos, p)
              PROVE  p - 1 \in FreePages
          <5>1. pos - 1 \in 1 .. Len(s) /\ End(s[pos - 1]) = p
            BY <2>5, <4>1 DEF EndsAt
          <5>2. /\ s[pos - 1].base \in Nat /\ s[pos - 1].pages \in Nat /\ s[pos - 1].pages > 0
                /\ End(s[pos - 1]) = s[pos - 1].base + s[pos - 1].pages
            BY <2>fields, <5>1
          <5>3. p - 1 \in Nat /\ s[pos - 1].base <= p - 1 /\ p - 1 < End(s[pos - 1])
            BY <2>4, <5>1, <5>2
          <5> QED BY <2>5, <5>1, <5>3, TableFacts DEF FreePages
        <4>2. ASSUME StartsAfter(pos, p)
              PROVE  p + 1 \in FreePages
          <5>1. pos \in 1 .. Len(s) /\ s[pos].base = p + 1
            BY <2>5, <4>2 DEF StartsAfter
          <5>2. /\ s[pos].base \in Nat /\ s[pos].pages \in Nat /\ s[pos].pages > 0
                /\ End(s[pos]) = s[pos].base + s[pos].pages
            BY <2>fields, <5>1
          <5>3. p + 1 \in Nat /\ s[pos].base <= p + 1 /\ p + 1 < End(s[pos])
            BY <2>4, <5>1, <5>2
          <5> QED BY <2>5, <5>1, <5>3, TableFacts DEF FreePages
        <4> QED BY <4>1, <4>2 DEF Abstract!Isolated
      <3>3. Abstract!Isolated(p, FreePages) => Len(s) < MAX_PHYS_REGIONS
        BY <2>8, <3>2 DEF phys_insert_free_page, JoinBoth, ExtendBelow, ExtendAbove, NewRegion
      <3>4. Abstract!Free
        BY <1>1, <2>2, <2>3, <2>6, <2>8, <3>1, <3>3, SameCounting DEF Abstract!Free
      <3> QED BY <3>4 DEF Abstract!Next
    <2>9. CASE TableFull(p, pos) /\ UNCHANGED <<free_regions, phys_free_pages_count>>
      <3>1. FreePages' = FreePages
        BY <2>9, FreeTableUntouched
      <3>2. p - 1 \notin FreePages
        <4>1. SUFFICES ASSUME p - 1 \in FreePages
                       PROVE  FALSE
          OBVIOUS
        <4>2. PICK k \in 1 .. Len(s) : s[k].base <= p - 1 /\ p - 1 < End(s[k])
          BY <2>5, <4>1, TableFacts DEF FreePages
        <4>3. s[k].base \in Nat /\ End(s[k]) \in Nat
          BY <2>5, TableFacts
        <4>4. k < pos /\ End(s[k]) = p
          BY <2>4, <2>5, <2>7, <4>2, <4>3
        <4>5. CASE k = pos - 1
          BY <2>5, <2>9, <4>4, <4>5 DEF TableFull, EndsAt
        <4>6. CASE k # pos - 1
          <5>1. pos - 1 \in 1 .. Len(s) /\ k < pos - 1 /\ pos - 1 < pos
            BY <2>5, <4>4, <4>6
          <5>2. End(s[k]) < s[pos - 1].base /\ End(s[pos - 1]) <= p
            BY <2>5, <2>7, <5>1, TableFacts
          <5>3. s[pos - 1].base \in Nat /\ End(s[pos - 1]) \in Nat /\ s[pos - 1].base < End(s[pos - 1])
            BY <2>fields, <5>1
          <5> QED BY <4>3, <4>4, <5>2, <5>3
        <4> QED BY <4>5, <4>6
      <3>3. p + 1 \notin FreePages
        <4>1. SUFFICES ASSUME p + 1 \in FreePages
                       PROVE  FALSE
          OBVIOUS
        <4>2. PICK k \in 1 .. Len(s) : s[k].base <= p + 1 /\ p + 1 < End(s[k])
          BY <2>5, <4>1, TableFacts DEF FreePages
        <4>3. s[k].base \in Nat /\ End(s[k]) \in Nat
          BY <2>5, TableFacts
        <4>4. k >= pos /\ s[k].base = p + 1
          BY <2>4, <2>5, <2>7, <4>2, <4>3
        <4>5. CASE k = pos
          BY <2>5, <2>9, <4>4, <4>5 DEF TableFull, StartsAfter
        <4>6. CASE k # pos
          <5>1. pos \in 1 .. Len(s) /\ pos < k /\ pos >= pos
            BY <2>5, <4>4, <4>6
          <5>2. End(s[pos]) < s[k].base /\ p < s[pos].base
            BY <2>5, <2>7, <5>1, TableFacts
          <5>3. s[pos].base \in Nat /\ End(s[pos]) \in Nat /\ s[pos].base < End(s[pos])
            BY <2>fields, <5>1
          <5> QED BY <2>4, <4>4, <5>2, <5>3
        <4> QED BY <4>5, <4>6
      <3>4. Len(s) >= MAX_PHYS_REGIONS
        BY <2>9 DEF TableFull
      <3>5. CASE p \in allocated
        <4>1. Abstract!Lose
          BY <1>1, <2>2, <2>6, <2>9, <3>1, <3>2, <3>3, <3>4, <3>5, SameCounting
             DEF Abstract!Lose, Abstract!Isolated
        <4> QED BY <4>1 DEF Abstract!Next
      <3>6. CASE p \notin allocated
        <4>1. allocated' = allocated
          BY <2>2, <3>6
        <4> QED BY <1>1, <2>9, <3>1, <4>1 DEF Abstract!absVars
      <3> QED BY <3>5, <3>6
    <2> QED BY <2>1, <2>8, <2>9
  <1> QED BY <1>2, <1>3 DEF phys_page_free

(* The region tables implement the abstract allocator.                     *)
THEOREM Refinement == Spec => ImplementsPageAllocator
  <1>1. Init => Abstract!Init
    BY DEF Init, Abstract!Init
  <1>2. IInv /\ IInv' /\ [Next]_vars => [Abstract!Next]_(Abstract!absVars)
    <2> SUFFICES ASSUME IInv, IInv', [Next]_vars
                 PROVE  [Abstract!Next]_(Abstract!absVars)
      OBVIOUS
    <2>1. CASE phys_memory_init
      BY <2>1, BootSimulation
    <2>2. CASE phys_page_alloc
      BY <2>2, AllocSimulation
    <2>3. CASE \E addr \in FreeArgs : phys_page_free(addr)
      BY <2>3, FreeSimulation
    <2>4. CASE UNCHANGED vars
      BY <2>4 DEF vars, Abstract!absVars, ManagedPages, FreePages
    <2> QED BY <2>1, <2>2, <2>3, <2>4 DEF Next
  <1> QED BY <1>1, <1>2, InductiveInvariant, PTL
          DEF Spec, ImplementsPageAllocator, Abstract!Spec

-----------------------------------------------------------------------------
(* What the managed table covers: every loop of phys_memory_init() keeps   *)
(* the pages of the entries it has been given.                             *)

LEMMA AtMostQuotient ==
  ASSUME NEW a \in Nat, NEW d \in Nat \ {0}, NEW p \in Nat
  PROVE  p <= a \div d <=> d * p <= a
  <1> DEFINE x == a \div d
  <1>1. x \in Nat /\ d * x <= a /\ a < d * x + d
    BY DivNat, DivBounds
  <1> HIDE DEF x
  <1>2. ASSUME p <= x PROVE d * p <= a
    <2>1. d * p <= d * x
      BY <1>1, <1>2, TimesMonotonic
    <2>2. d * p \in Nat /\ d * x \in Nat
      BY <1>1
    <2> QED BY <1>1, <2>1, <2>2
  <1>3. ASSUME x + 1 <= p PROVE ~(d * p <= a)
    <2>1. d * (x + 1) <= d * p
      BY <1>1, <1>3, TimesMonotonic
    <2>2. d * (x + 1) = d * x + d /\ d * p \in Nat /\ d * x \in Nat
      BY <1>1
    <2> QED BY <1>1, <2>1, <2>2
  <1> QED BY <1>1, <1>2, <1>3 DEF x

(* The pages of an entry's region are its whole pages, without page 0.     *)
LEMMA WholePages ==
  ASSUME NEW e \in MemMapEntry, e.type = USABLE, NEW p
  PROVE  (Kept(e) /\ p \in Pages(EntryRegion(e)))
           <=> /\ p \in 1 .. (e.base + e.length)
               /\ e.base <= p * PAGE_SIZE
               /\ (p + 1) * PAGE_SIZE <= e.base + e.length
  <1> DEFINE s == PAGE_SIZE
             top == e.base + e.length
             up == e.base + s - 1
  <1>1. s \in Nat \ {0} /\ e.base \in Nat /\ e.length \in Nat /\ top \in Nat /\ up \in Nat
    BY PageSizeAssumption DEF MemMapEntry
  <1> HIDE DEF s, top, up
  <1>2. FirstPage(e) = IF up \div s = 0 THEN 1 ELSE up \div s
    BY DEF FirstPage, up, s
  <1>3. EndPage(e) = top \div s
    BY DEF EndPage, top, s
  <1>4. up \div s \in Nat /\ top \div s \in Nat /\ FirstPage(e) \in Nat \ {0} /\ EndPage(e) \in Nat
    BY <1>1, <1>2, <1>3, DivNat
  <1>5. ASSUME NEW q \in Nat \ {0}
        PROVE  /\ FirstPage(e) <= q <=> e.base <= q * s
               /\ q < EndPage(e) <=> (q + 1) * s <= top
               /\ (q + 1) * s <= top => q <= top
    <2>1. q + 1 <= up \div s <=> s * (q + 1) <= up
      BY <1>1, AtMostQuotient
    <2>2. q + 1 <= top \div s <=> s * (q + 1) <= top
      BY <1>1, AtMostQuotient
    <2>3. s * (q + 1) = s * q + s /\ s * (q + 1) = (q + 1) * s /\ s * q = q * s
          /\ s * q \in Nat
      BY <1>1
    <2>4. s * (q + 1) <= up <=> ~(e.base <= s * q)
      BY <1>1, <2>3 DEF up
    <2>5. FirstPage(e) <= q <=> ~(q + 1 <= up \div s)
      BY <1>2, <1>4
    <2>6. q < EndPage(e) <=> q + 1 <= top \div s
      BY <1>3, <1>4
    <2>7. 1 * q <= s * q
      <3>1. q * 1 <= q * s
        BY <1>1, TimesMonotonic
      <3> QED BY <1>1, <2>3, <3>1
    <2>8. (q + 1) * s <= top => q <= top
      BY <1>1, <2>3, <2>7
    <2> QED BY <2>1, <2>2, <2>3, <2>4, <2>5, <2>6, <2>8
  <1>6. ASSUME Kept(e)
        PROVE  p \in Pages(EntryRegion(e)) <=> p \in Nat /\ FirstPage(e) <= p /\ p < EndPage(e)
    BY <1>4, <1>6, EntryRegionProps, PagesMember
  <1>7. (Kept(e) /\ p \in Pages(EntryRegion(e)))
          <=> p \in Nat \ {0} /\ FirstPage(e) <= p /\ p < EndPage(e)
    <2>1. p \in Nat /\ FirstPage(e) <= p /\ p < EndPage(e)
            => FirstPage(e) < EndPage(e) /\ p # 0
      BY <1>4
    <2>2. Kept(e) <=> FirstPage(e) < EndPage(e)
      BY DEF Kept
    <2> QED BY <1>4, <1>6, <2>1, <2>2
  <1>8. ASSUME p \in Nat \ {0}
        PROVE  (FirstPage(e) <= p /\ p < EndPage(e))
                 <=> /\ p \in 1 .. top
                     /\ e.base <= p * s
                     /\ (p + 1) * s <= top
    BY <1>1, <1>5, <1>8
  <1>9. p \in 1 .. top => p \in Nat \ {0}
    BY <1>1
  <1> QED BY <1>7, <1>8, <1>9 DEF top, s

LEMMA EntriesCoverUsable ==
  ASSUME memmap \in Seq(MemMapEntry)
  PROVE  EntryPages(Len(memmap)) = UsablePages(memmap)
  <1>1. DOMAIN memmap = 1 .. Len(memmap)
    BY LenProperties
  <1>2. \A k \in 1 .. Len(memmap) : memmap[k] \in MemMapEntry
    BY ElementOfSeq
  <1>3. \A p : p \in EntryPages(Len(memmap))
          <=> \E k \in 1 .. Len(memmap) :
                Kept(memmap[k]) /\ p \in Pages(EntryRegion(memmap[k]))
    BY DEF EntryPages, KeptEntries
  <1>4. \A p : p \in UsablePages(memmap)
          <=> \E k \in 1 .. Len(memmap) :
                /\ memmap[k].type = USABLE
                /\ p \in 1 .. (memmap[k].base + memmap[k].length)
                /\ memmap[k].base <= p * PAGE_SIZE
                /\ (p + 1) * PAGE_SIZE <= memmap[k].base + memmap[k].length
    BY <1>1 DEF UsablePages
  <1>5. ASSUME NEW k \in 1 .. Len(memmap), NEW p
        PROVE  (Kept(memmap[k]) /\ p \in Pages(EntryRegion(memmap[k])))
                 <=> /\ memmap[k].type = USABLE
                     /\ p \in 1 .. (memmap[k].base + memmap[k].length)
                     /\ memmap[k].base <= p * PAGE_SIZE
                     /\ (p + 1) * PAGE_SIZE <= memmap[k].base + memmap[k].length
    <2>1. CASE memmap[k].type = USABLE
      BY <1>2, <2>1, WholePages
    <2>2. CASE memmap[k].type # USABLE
      BY <2>2 DEF Kept
    <2> QED BY <2>1, <2>2
  <1>6. \A p : p \in EntryPages(Len(memmap)) <=> p \in UsablePages(memmap)
    BY <1>3, <1>4, <1>5
  <1> QED BY <1>6

LEMMA EntriesCounted ==
  ASSUME memmap \in Seq(MemMapEntry), NEW n \in 0 .. Len(memmap)
  PROVE  /\ IsFiniteSet(KeptEntries(n)) /\ Cardinality(KeptEntries(n)) \in Nat
         /\ KeptEntries(n) \subseteq KeptEntries(Len(memmap))
         /\ n < Len(memmap) =>
              /\ KeptEntries(n + 1) = IF Kept(memmap[n + 1]) THEN KeptEntries(n) \cup {n + 1}
                                      ELSE KeptEntries(n)
              /\ n + 1 \notin KeptEntries(n)
              /\ Kept(memmap[n + 1]) => Cardinality(KeptEntries(n)) + 1
                                          <= Cardinality(KeptEntries(Len(memmap)))
  <1> DEFINE len == Len(memmap)
  <1>1. len \in Nat /\ n \in Nat /\ n <= len
    BY LenProperties
  <1> HIDE DEF len
  <1>2. ASSUME NEW k \in Nat
        PROVE  IsFiniteSet(KeptEntries(k)) /\ Cardinality(KeptEntries(k)) \in Nat
    <2>1. IsFiniteSet(1 .. k) /\ KeptEntries(k) \in SUBSET (1 .. k)
      BY FS_Interval DEF KeptEntries
    <2> QED BY <2>1, FS_Subset, FS_CardinalityType
  <1>3. KeptEntries(n) \subseteq KeptEntries(len)
    BY <1>1 DEF KeptEntries
  <1>4. ASSUME n < len
        PROVE  /\ KeptEntries(n + 1) = IF Kept(memmap[n + 1]) THEN KeptEntries(n) \cup {n + 1}
                                       ELSE KeptEntries(n)
               /\ n + 1 \notin KeptEntries(n)
               /\ Kept(memmap[n + 1]) => Cardinality(KeptEntries(n)) + 1
                                           <= Cardinality(KeptEntries(len))
    <2>1. \A k : k \in 1 .. (n + 1) <=> k \in 1 .. n \/ k = n + 1
      BY <1>1
    <2>2. n + 1 \notin 1 .. n
      BY <1>1
    <2>3. KeptEntries(n + 1) = IF Kept(memmap[n + 1]) THEN KeptEntries(n) \cup {n + 1}
                               ELSE KeptEntries(n)
      BY <2>1 DEF KeptEntries
    <2>4. n + 1 \notin KeptEntries(n)
      BY <2>2 DEF KeptEntries
    <2>5. ASSUME Kept(memmap[n + 1])
          PROVE  Cardinality(KeptEntries(n)) + 1 <= Cardinality(KeptEntries(len))
      <3>1. n + 1 \in KeptEntries(len)
        BY <1>1, <1>4, <2>5 DEF KeptEntries
      <3>2. KeptEntries(n) \cup {n + 1} \in SUBSET KeptEntries(len)
        BY <1>3, <3>1
      <3>3. IsFiniteSet(KeptEntries(len)) /\ IsFiniteSet(KeptEntries(n))
        BY <1>1, <1>2
      <3>4. Cardinality(KeptEntries(n) \cup {n + 1}) = Cardinality(KeptEntries(n)) + 1
        BY <2>4, <3>3, FS_AddElement
      <3>5. Cardinality(KeptEntries(n) \cup {n + 1}) <= Cardinality(KeptEntries(len))
        BY <3>2, <3>3, FS_Subset
      <3> QED BY <3>4, <3>5
    <2> QED BY <2>3, <2>4, <2>5
  <1> QED BY <1>1, <1>2, <1>3, <1>4 DEF len

LEMMA MapIsASequence ==
  ASSUME IInv
  PROVE  memmap \in Seq(MemMapEntry) /\ Len(memmap) \in Nat
  BY MemMapsAssumption, LenProperties DEF IInv, TypeOK

LEMMA InitCoverInv == Init => CoverInv
  <1> SUFFICES ASSUME Init PROVE CoverInv
    OBVIOUS
  <1>1. memmap \in Seq(MemMapEntry) /\ Len(memmap) \in Nat
    BY MemMapsAssumption, LenProperties DEF Init
  <1>2. pc = "collect" /\ i = 1 /\ managed_regions = << >> /\ Len(managed_regions) = 0
    BY EmptySeq DEF Init
  <1>3. PagesInUse = {}
    BY <1>2 DEF PagesInUse, SlotsInUse
  <1>4. KeptEntries(i - 1) = {}
    BY <1>2 DEF KeptEntries
  <1>5. EntryPages(i - 1) = {}
    BY <1>4 DEF EntryPages
  <1>6. Cardinality(KeptEntries(i - 1)) = 0
    BY <1>4, FS_EmptySet, Zenon
  <1>7. i <= Len(memmap) + 1
    BY <1>1, <1>2
  <1> QED BY <1>2, <1>3, <1>5, <1>6, <1>7 DEF CoverInv

(* Collecting an entry adds its pages.                                     *)
LEMMA CollectCovers == IInv /\ CoverInv /\ Collect => CoverInv'
  <1> SUFFICES ASSUME IInv, CoverInv, Collect PROVE CoverInv'
    OBVIOUS
  <1> DEFINE m == managed_regions
             n == i - 1
  <1>1. /\ pc = "collect" /\ pc' = "collect" /\ i' = i + 1 /\ memmap' = memmap
        /\ i <= Len(memmap)
        /\ m' = IF Kept(memmap[i]) THEN Append(m, EntryRegion(memmap[i])) ELSE m
    BY DEF Collect
  <1>2. /\ memmap \in Seq(MemMapEntry) /\ Len(memmap) \in Nat
        /\ i \in Nat \ {0} /\ n \in 0 .. Len(memmap) /\ n < Len(memmap) /\ n + 1 = i
        /\ i' - 1 = i
        /\ memmap[i] \in MemMapEntry
    BY <1>1, MapIsASequence, ElementOfSeq DEF IInv, TypeOK
  <1>3. m \in Seq(Region) /\ Len(m) \in Nat
    BY ManagedFacts
  <1>4. PagesInUse = EntryPages(n) /\ Len(m) = Cardinality(KeptEntries(n))
    BY <1>1 DEF CoverInv
  <1> HIDE DEF n
  <1>5. /\ IsFiniteSet(KeptEntries(n)) /\ i \notin KeptEntries(n)
        /\ KeptEntries(i) = IF Kept(memmap[i]) THEN KeptEntries(n) \cup {i} ELSE KeptEntries(n)
    BY <1>2, EntriesCounted
  <1>6. PagesInUse = PagesOf(m) /\ PagesInUse' = PagesOf(m')
    BY <1>1 DEF PagesInUse, SlotsInUse, PagesOf
  <1>7. \A k : KeptEntries(k)' = KeptEntries(k) /\ EntryPages(k)' = EntryPages(k)
    BY <1>1 DEF KeptEntries, EntryPages
  <1>8. CASE ~Kept(memmap[i])
    <2>1. EntryPages(i) = EntryPages(n)
      BY <1>5, <1>8 DEF EntryPages
    <2> QED BY <1>1, <1>2, <1>4, <1>5, <1>6, <1>7, <1>8, <2>1 DEF CoverInv
  <1>9. CASE Kept(memmap[i])
    <2> DEFINE r == EntryRegion(memmap[i])
    <2>1. r \in Region
      BY <1>2, <1>9, EntryRegionProps
    <2>2. EntryPages(i) = EntryPages(n) \cup Pages(r)
      BY <1>5, <1>9 DEF EntryPages
    <2> HIDE DEF r
    <2>3. m' = Append(m, r)
      BY <1>1, <1>9 DEF r
    <2>4. /\ Len(m') = Len(m) + 1 /\ m'[Len(m) + 1] = r
          /\ \A k \in 1 .. Len(m) : m'[k] = m[k]
      BY <1>3, <2>1, <2>3, AppendProperties
    <2>5. \A k : k \in 1 .. Len(m') <=> k \in 1 .. Len(m) \/ k = Len(m) + 1
      BY <1>3, <2>4
    <2>6. PagesOf(m') = PagesOf(m) \cup Pages(r)
      BY <2>4, <2>5 DEF PagesOf
    <2>7. Len(m') = Cardinality(KeptEntries(i))
      BY <1>4, <1>5, <1>9, <2>4, FS_AddElement
    <2>8. PagesInUse' = EntryPages(i)
      BY <1>4, <1>6, <2>2, <2>6
    <2> QED BY <1>1, <1>2, <1>7, <2>7, <2>8 DEF CoverInv
  <1> QED BY <1>8, <1>9

(* The loop ends with all entries collected, or with a full table.         *)
LEMMA CollectDoneCovers == IInv /\ CoverInv /\ CollectDone => CoverInv'
  <1> SUFFICES ASSUME IInv, CoverInv, CollectDone PROVE CoverInv'
    OBVIOUS
  <1> DEFINE m == managed_regions
             n == i - 1
             len == Len(memmap)
  <1>1. /\ pc = "collect" /\ pc' = "sort" /\ memmap' = memmap /\ m' = m
        /\ i <= len => Kept(memmap[i]) /\ Len(m) >= MAX_PHYS_REGIONS
    BY DEF CollectDone
  <1>2. /\ memmap \in Seq(MemMapEntry) /\ len \in Nat
        /\ i \in Nat \ {0} /\ i <= len + 1 /\ n \in 0 .. len /\ n + 1 = i
    BY <1>1, MapIsASequence DEF IInv, TypeOK, CoverInv
  <1>3. PagesInUse = EntryPages(n) /\ Len(m) = Cardinality(KeptEntries(n))
    BY <1>1 DEF CoverInv
  <1>4. PagesInUse' = PagesInUse
    BY <1>1 DEF PagesInUse, SlotsInUse
  <1>5. \A k : Covers(k)' <=> Covers(k)
    BY <1>1 DEF Covers, EntryPages, KeptEntries
  <1>6. Covers(PagesInUse)
    <2>1. CASE i = len + 1
      <3>1. n = len
        BY <1>2, <2>1
      <3> QED BY <1>3, <3>1 DEF Covers
    <2>2. CASE i <= len
      <3>1. n < len
        BY <1>2, <2>2
      <3> HIDE DEF n
      <3>2. /\ Cardinality(KeptEntries(n)) \in Nat
            /\ KeptEntries(n) \subseteq KeptEntries(len)
            /\ Cardinality(KeptEntries(n)) + 1 <= Cardinality(KeptEntries(len))
        BY <1>1, <1>2, <2>2, <3>1, EntriesCounted
      <3>3. /\ IsFiniteSet(KeptEntries(len)) /\ Cardinality(KeptEntries(len)) \in Nat
        <4>1. len \in 0 .. len
          BY <1>2
        <4> QED BY <1>2, <4>1, EntriesCounted
      <3>4. EntryPages(n) \subseteq EntryPages(len)
        BY <3>2 DEF EntryPages
      <3>5. ~(Cardinality(KeptEntries(len)) <= MAX_PHYS_REGIONS)
        BY <1>1, <1>3, <2>2, <3>2, <3>3, MaxRegionsAssumption
      <3> QED BY <1>3, <3>4, <3>5 DEF Covers
    <2> QED BY <1>2, <2>1, <2>2
  <1> QED BY <1>1, <1>4, <1>5, <1>6 DEF CoverInv

(* A step that keeps the pages in use keeps what they cover.               *)
LEMMA SamePagesSameCover ==
  ASSUME CoverInv, memmap' = memmap, pc # "collect", pc' # "collect",
         PagesInUse' = PagesInUse
  PROVE  CoverInv'
  <1>1. \A pages : Covers(pages)' <=> Covers(pages)
    BY DEF Covers, EntryPages, KeptEntries
  <1> QED BY <1>1 DEF CoverInv

(* A round of the sort moves regions and loses none.                       *)
LEMMA SortStepCovers == IInv /\ CoverInv /\ SortStep => CoverInv'
  <1> SUFFICES ASSUME IInv, CoverInv, SortStep PROVE CoverInv'
    OBVIOUS
  <1> DEFINE m == managed_regions
             len == Len(managed_regions)
  <1>1. PICK j \in 1 .. i : m' = MoveDown(m, i, j)
    BY DEF SortStep
  <1>2. /\ i \in Nat /\ i > 0 /\ i <= len /\ pc = "sort" /\ pc' = "sort"
        /\ memmap' = memmap /\ m \in Seq(Region) /\ len \in Nat /\ i \in 1 .. len
    BY ManagedFacts DEF SortStep, IInv, TypeOK
  <1>3. /\ Len(m') = len
        /\ \A k \in 1 .. len : m'[k] = IF k < j \/ k > i THEN m[k]
                                      ELSE IF k = j THEN m[i] ELSE m[k - 1]
    <2>1. /\ Len(MoveDown(m, i, j)) = len
          /\ \A k \in 1 .. len :
               MoveDown(m, i, j)[k] = IF k < j \/ k > i THEN m[k]
                                      ELSE IF k = j THEN m[i] ELSE m[k - 1]
      BY <1>2, MoveDownProps
    <2> QED BY <1>1, <2>1
  <1> HIDE DEF m, len
  <1>4. \A k \in 1 .. len : \E a \in 1 .. len : m'[k] = m[a]
    BY <1>2, <1>3
  <1>5. ASSUME NEW a \in 1 .. len PROVE \E k \in 1 .. len : m'[k] = m[a]
    <2>1. CASE a < j \/ a > i
      BY <1>3, <2>1
    <2>2. CASE a = i
      <3>1. j \in 1 .. len /\ m'[j] = m[i]
        BY <1>2, <1>3
      <3> QED BY <2>2, <3>1
    <2>3. CASE a >= j /\ a < i
      <3>1. a + 1 \in 1 .. len /\ m'[a + 1] = m[a]
        BY <1>2, <1>3, <2>3
      <3> QED BY <3>1
    <2> QED BY <1>2, <2>1, <2>2, <2>3
  <1>6. PagesInUse = PagesOf(m) /\ PagesInUse' = PagesOf(m')
    BY <1>2 DEF PagesInUse, SlotsInUse, PagesOf, m
  <1>7. PagesOf(m') = PagesOf(m)
    <2>1. /\ \A p : p \in PagesOf(m) <=> \E a \in 1 .. len : p \in Pages(m[a])
          /\ \A p : p \in PagesOf(m') <=> \E k \in 1 .. len : p \in Pages(m'[k])
      BY <1>3 DEF PagesOf, len, m
    <2>2. \A p : p \in PagesOf(m') <=> p \in PagesOf(m)
      BY <1>4, <1>5, <2>1
    <2> QED BY <2>2
  <1> QED BY <1>2, <1>6, <1>7, SamePagesSameCover

LEMMA SortDoneCovers == IInv /\ CoverInv /\ SortDone => CoverInv'
  <1> SUFFICES ASSUME IInv, CoverInv, SortDone PROVE CoverInv'
    OBVIOUS
  <1>1. /\ pc = "sort" /\ pc' = "merge" /\ i' = 1 /\ out' = out /\ out = 0
        /\ memmap' = memmap /\ managed_regions' = managed_regions
    BY DEF SortDone, IInv, CopyInv
  <1>2. (1 .. 0) \cup (1 .. Len(managed_regions)) = 1 .. Len(managed_regions)
    OBVIOUS
  <1>3. PagesInUse' = PagesInUse
    BY <1>1, <1>2 DEF PagesInUse, SlotsInUse
  <1> QED BY <1>1, <1>3, SamePagesSameCover

(* A region that is merged leaves its pages to the one it is merged with.  *)
LEMMA MergeStepCovers == IInv /\ CoverInv /\ MergeStep => CoverInv'
  <1> SUFFICES ASSUME IInv, CoverInv, MergeStep PROVE CoverInv'
    OBVIOUS
  <1> DEFINE m == managed_regions
             len == Len(managed_regions)
             old == (1 .. out) \cup (i .. len)
  <1>1. /\ pc = "merge" /\ pc' = "merge" /\ i' = i + 1 /\ i <= len
        /\ i \in Nat /\ i > 0 /\ out \in Nat /\ out < i /\ len \in Nat
        /\ m \in Seq(Region) /\ i \in 1 .. len /\ memmap' = memmap
    BY ManagedFacts DEF MergeStep, IInv, TypeOK, MergeInv
  <1>2. m[i].pages # 0
    BY <1>1, ManagedFacts
  <1>3. /\ PagesInUse = UNION {Pages(m[k]) : k \in old}
        /\ PagesInUse' = UNION {Pages(m'[k]) : k \in (1 .. out') \cup ((i + 1) .. Len(m'))}
    BY <1>1 DEF PagesInUse, SlotsInUse
  <1>4. CASE out # 0 /\ End(m[out]) = m[i].base
    <2> DEFINE r == [base |-> m[out].base, pages |-> m[out].pages + m[i].pages]
               new == (1 .. out) \cup ((i + 1) .. len)
    <2>1. m' = ReplaceAt(m, out, r) /\ out' = out
      BY <1>2, <1>4 DEF MergeStep
    <2>2. out \in 1 .. len
      BY <1>1, <1>4
    <2>3. /\ m[out] \in Region /\ m[i] \in Region
          /\ m[out].base \in Nat /\ m[out].pages \in Nat
          /\ m[i].base \in Nat /\ m[i].pages \in Nat
          /\ End(m[out]) = m[out].base + m[out].pages
          /\ End(m[i]) = m[i].base + m[i].pages
      BY <1>1, <2>2, ManagedFacts
    <2>4. /\ r \in Region /\ r.base = m[out].base
          /\ End(r) = m[out].base + (m[out].pages + m[i].pages)
      BY <2>3 DEF Region, End
    <2>5. Pages(r) = Pages(m[out]) \cup Pages(m[i])
      <3>1. /\ m[i].base = m[out].base + m[out].pages
            /\ End(r) = m[i].base + m[i].pages
        <4>1. \A x, y, z \in Nat : x + (y + z) = (x + y) + z
          OBVIOUS
        <4> QED BY <1>4, <2>3, <2>4, <4>1
      <3>2. ASSUME NEW p
            PROVE  p \in Pages(r) <=> p \in Pages(m[out]) \/ p \in Pages(m[i])
        <4>1. p \in Pages(r) <=> p \in Nat /\ m[out].base <= p /\ p < m[i].base + m[i].pages
          BY <2>4, <3>1, PagesMember
        <4>2. p \in Pages(m[out]) <=> p \in Nat /\ m[out].base <= p /\ p < m[i].base
          BY <2>3, <3>1, PagesMember
        <4>3. p \in Pages(m[i]) <=> p \in Nat /\ m[i].base <= p /\ p < m[i].base + m[i].pages
          BY <2>3, PagesMember
        <4>4. m[out].base <= m[i].base /\ m[i].base <= m[i].base + m[i].pages
          BY <2>3, <3>1
        <4> QED BY <2>3, <4>1, <4>2, <4>3, <4>4
      <3> QED BY <3>2
    <2> HIDE DEF r
    <2>6. /\ m' \in Seq(Region) /\ Len(m') = len
          /\ \A k \in 1 .. len : m'[k] = IF k = out THEN r ELSE m[k]
      <3>1. PICK e \in Region : e = r
        BY <2>4
      <3>2. /\ ReplaceAt(m, out, e) \in Seq(Region) /\ Len(ReplaceAt(m, out, e)) = len
            /\ \A k \in 1 .. len : ReplaceAt(m, out, e)[k] = IF k = out THEN e ELSE m[k]
        BY <1>1, <2>2, ReplaceAtProps
      <3> QED BY <2>1, <3>1, <3>2
    <2>7. /\ \A k : k \in old <=> k \in new \/ k = i
          /\ \A k \in new : k \in 1 .. len
          /\ out \in new
      BY <1>1, <2>2
    <2> HIDE DEF old, new
    <2>8. UNION {Pages(m'[k]) : k \in new} = UNION {Pages(m[k]) : k \in old}
      <3>1. ASSUME NEW p
            PROVE  (\E k \in new : p \in Pages(m'[k])) <=> (\E k \in old : p \in Pages(m[k]))
        <4>1. ASSUME NEW k \in new, p \in Pages(m'[k])
              PROVE  \E l \in old : p \in Pages(m[l])
          BY <2>5, <2>6, <2>7, <4>1
        <4>2. ASSUME NEW k \in old, p \in Pages(m[k])
              PROVE  \E l \in new : p \in Pages(m'[l])
          <5>1. CASE k = i \/ k = out
            BY <2>2, <2>5, <2>6, <2>7, <4>2, <5>1
          <5>2. CASE k # i /\ k # out
            BY <2>6, <2>7, <4>2, <5>2
          <5> QED BY <5>1, <5>2
        <4> QED BY <4>1, <4>2
      <3> QED BY <3>1
    <2>9. PagesInUse' = PagesInUse
      BY <1>3, <2>1, <2>6, <2>8 DEF new
    <2> QED BY <1>1, <2>9, SamePagesSameCover
  <1>5. CASE ~(out # 0 /\ End(m[out]) = m[i].base)
    <2> DEFINE new == (1 .. (out + 1)) \cup ((i + 1) .. len)
    <2>1. m' = ReplaceAt(m, out + 1, m[i]) /\ out' = out + 1
      BY <1>2, <1>5 DEF MergeStep
    <2>2. out + 1 \in 1 .. len /\ out + 1 <= i /\ m[i] \in Region
      BY <1>1, ManagedFacts
    <2>3. /\ Len(m') = len
          /\ \A k \in 1 .. len : m'[k] = IF k = out + 1 THEN m[i] ELSE m[k]
      BY <1>1, <2>1, <2>2, ReplaceAtProps
    <2>4. /\ \A k \in new : k # out + 1 => k \in old /\ k \in 1 .. len
          /\ \A k \in old : k # i => k \in new /\ k \in 1 .. len /\ k # out + 1
          /\ i \in old /\ out + 1 \in new
      BY <1>1, <2>2
    <2> HIDE DEF old, new
    <2>5. UNION {Pages(m'[k]) : k \in new} = UNION {Pages(m[k]) : k \in old}
      <3>1. ASSUME NEW p
            PROVE  (\E k \in new : p \in Pages(m'[k])) <=> (\E k \in old : p \in Pages(m[k]))
        <4>1. ASSUME NEW k \in new, p \in Pages(m'[k])
              PROVE  \E l \in old : p \in Pages(m[l])
          BY <2>2, <2>3, <2>4, <4>1
        <4>2. ASSUME NEW k \in old, p \in Pages(m[k])
              PROVE  \E l \in new : p \in Pages(m'[l])
          BY <2>2, <2>3, <2>4, <4>2
        <4> QED BY <4>1, <4>2
      <3> QED BY <3>1
    <2>6. PagesInUse' = PagesInUse
      BY <1>3, <2>1, <2>3, <2>5 DEF new
    <2> QED BY <1>1, <2>6, SamePagesSameCover
  <1> QED BY <1>4, <1>5

LEMMA MergeDoneCovers == IInv /\ CoverInv /\ MergeDone => CoverInv'
  <1> SUFFICES ASSUME IInv, CoverInv, MergeDone PROVE CoverInv'
    OBVIOUS
  <1> DEFINE m == managed_regions
  <1>1. /\ pc = "merge" /\ pc' = "copy" /\ i > Len(m) /\ memmap' = memmap
        /\ m' = SubSeq(m, 1, out)
    BY DEF MergeDone
  <1>2. /\ m \in Seq(Region) /\ Len(m) \in Nat /\ out \in 0 .. Len(m)
        /\ i <= Len(m) + 1 /\ i \in Nat
    BY <1>1, ManagedFacts DEF IInv, TypeOK, MergeInv
  <1>3. \A k \in 1 .. out : k \in 1 .. Len(m) /\ m[k] \in Region
    BY <1>2, ManagedFacts
  <1>4. /\ Len(m') = out
        /\ \A k \in 1 .. out : m'[k] = m[k]
    <2>1. /\ Len(SubSeq(m, 1, out)) = IF 1 <= out THEN out - 1 + 1 ELSE 0
          /\ \A k \in 1 .. (out - 1 + 1) : SubSeq(m, 1, out)[k] = m[1 + k - 1]
      BY <1>2, <1>3, SubSeqProperties
    <2>2. /\ Len(SubSeq(m, 1, out)) = out
          /\ \A k \in 1 .. out : SubSeq(m, 1, out)[k] = m[k]
      BY <1>2, <2>1
    <2> QED BY <1>1, <2>2
  <1>5. (1 .. out) \cup (i .. Len(m)) = 1 .. out
    BY <1>1, <1>2
  <1>6. PagesInUse = UNION {Pages(m[k]) : k \in 1 .. out}
    BY <1>1, <1>5 DEF PagesInUse, SlotsInUse
  <1>7. PagesInUse' = UNION {Pages(m'[k]) : k \in 1 .. out}
    BY <1>1, <1>4 DEF PagesInUse, SlotsInUse
  <1>8. PagesInUse' = PagesInUse
    BY <1>4, <1>6, <1>7
  <1> QED BY <1>1, <1>8, SamePagesSameCover

LEMMA NextCoverInv == IInv /\ CoverInv /\ [Next]_vars => CoverInv'
  <1> SUFFICES ASSUME IInv, CoverInv, [Next]_vars PROVE CoverInv'
    OBVIOUS
  <1>1. ASSUME UNCHANGED <<memmap, managed_regions>>,
               pc \in {"copy", "up"}, pc' \in {"copy", "up"}
        PROVE  CoverInv'
    <2>1. PagesInUse' = PagesInUse
      BY <1>1 DEF PagesInUse, SlotsInUse
    <2> QED BY <1>1, <2>1, SamePagesSameCover
  <1>2. CASE phys_memory_init
    <2>1. CASE CopyStep
      BY <1>1, <2>1 DEF CopyStep
    <2>2. CASE CopyDone
      BY <1>1, <2>2 DEF CopyDone
    <2> QED
      BY <1>2, <2>1, <2>2, CollectCovers, CollectDoneCovers, SortStepCovers, SortDoneCovers,
         MergeStepCovers, MergeDoneCovers DEF phys_memory_init
  <1>3. CASE phys_page_alloc
    BY <1>1, <1>3 DEF phys_page_alloc
  <1>4. CASE \E addr \in FreeArgs : phys_page_free(addr)
    BY <1>1, <1>4 DEF phys_page_free
  <1>5. CASE UNCHANGED vars
    <2>1. /\ memmap' = memmap /\ pc' = pc /\ i' = i /\ out' = out
          /\ managed_regions' = managed_regions
      BY <1>5 DEF vars
    <2>2. PagesInUse' = PagesInUse
      BY <2>1 DEF PagesInUse, SlotsInUse
    <2>3. CASE pc = "collect"
      <3>1. \A k : KeptEntries(k)' = KeptEntries(k) /\ EntryPages(k)' = EntryPages(k)
        BY <2>1 DEF KeptEntries, EntryPages
      <3> QED BY <2>1, <2>2, <2>3, <3>1 DEF CoverInv
    <2> QED BY <2>1, <2>2, <2>3, SamePagesSameCover
  <1> QED BY <1>2, <1>3, <1>4, <1>5 DEF Next

(* What phys_memory_init() leaves managed is exactly the usable memory of  *)
(* the loader's map, whatever its order and its adjacencies, and a part of *)
(* it only when the map has more usable entries than the table has slots.  *)
THEOREM ManagedIsWhatIsUsable == Spec => []ManagedIsUsable
  <1>1. IInv /\ CoverInv => ManagedIsUsable
    <2> SUFFICES ASSUME IInv, CoverInv, pc \in {"copy", "up"}
                 PROVE  /\ ManagedPages \subseteq UsablePages(memmap)
                        /\ Cardinality({k \in DOMAIN memmap : Kept(memmap[k])})
                             <= MAX_PHYS_REGIONS
                             => ManagedPages = UsablePages(memmap)
      BY DEF ManagedIsUsable
    <2>1. memmap \in Seq(MemMapEntry) /\ DOMAIN memmap = 1 .. Len(memmap)
      BY MapIsASequence, LenProperties
    <2>2. PagesInUse = ManagedPages
      BY DEF PagesInUse, SlotsInUse, ManagedPages, PagesOf
    <2>3. EntryPages(Len(memmap)) = UsablePages(memmap)
      BY <2>1, EntriesCoverUsable
    <2>4. {k \in DOMAIN memmap : Kept(memmap[k])} = KeptEntries(Len(memmap))
      BY <2>1 DEF KeptEntries
    <2>5. Covers(ManagedPages)
      BY <2>2 DEF CoverInv
    <2> QED BY <2>3, <2>4, <2>5 DEF Covers
  <1> QED BY <1>1, InitIInv, NextIInv, InitCoverInv, NextCoverInv, PTL DEF Spec

=============================================================================
