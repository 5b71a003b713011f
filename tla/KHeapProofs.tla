----------------------------- MODULE KHeapProofs ----------------------------
(***************************************************************************)
(* The kernel heap loses, overlaps and invents no byte, gives each block   *)
(* to one client and merges what can be merged, for every page size, heap  *)
(* size, sequence of requests and behaviour of the PMM's other clients.    *)
(***************************************************************************)
EXTENDS KHeap, SequenceTheorems, FiniteSetTheorems, WellFoundedInduction, TLAPS

(***************************************************************************)
(* Sequences and rounding.                                                 *)
(***************************************************************************)

\* A set of natural numbers that is not empty has a least element.
LEMMA LeastElement ==
    ASSUME NEW S \in SUBSET Nat, S # {}
    PROVE  \E x \in S : \A y \in S : x <= y
<1>1. \E x \in S : \A y \in S : ~(<<y, x>> \in OpToRel(<, Nat))
  BY NatLessThanWellFounded, WFMin, Zenon
<1>2. PICK x \in S : \A y \in S : ~(<<y, x>> \in OpToRel(<, Nat))
  BY <1>1
<1>3. \A y \in S : ~(y < x)
  <2> SUFFICES ASSUME NEW y \in S, y < x PROVE FALSE
    OBVIOUS
  <2>1. <<y, x>> \in Nat \X Nat
    OBVIOUS
  <2>2. <<y, x>> \in OpToRel(<, Nat)
    BY <2>1, Zenon DEF OpToRel
  <2> QED
    BY <1>2, <2>2, Zenon
<1>4. x \in S /\ \A y \in S : x <= y
  BY <1>3
<1> QED
  BY <1>4

\* A concatenation, entry by entry.
LEMMA Joined ==
    ASSUME NEW S, NEW a \in Seq(S), NEW b \in Seq(S)
    PROVE  /\ a \o b \in Seq(S) /\ Len(a \o b) = Len(a) + Len(b)
           /\ \A j \in 1 .. Len(a) + Len(b) :
                 (a \o b)[j] = IF j <= Len(a) THEN a[j] ELSE b[j - Len(a)]
<1>1. a \o b \in Seq(S)
  OBVIOUS
<1>2. Len(a \o b) = Len(a) + Len(b)
  OBVIOUS
<1>3. \A j \in 1 .. Len(a) + Len(b) :
         (a \o b)[j] = IF j <= Len(a) THEN a[j] ELSE b[j - Len(a)]
  OBVIOUS
<1> QED
  BY <1>1, <1>2, <1>3

\* A sequence without its i-th entry.
LEMMA Without ==
    ASSUME NEW S, NEW s \in Seq(S), NEW i \in 1 .. Len(s)
    PROVE  /\ RemoveAt(s, i) \in Seq(S)
           /\ Len(RemoveAt(s, i)) = Len(s) - 1
           /\ \A j \in 1 .. Len(s) - 1 :
                 RemoveAt(s, i)[j] = IF j < i THEN s[j] ELSE s[j + 1]
<1> DEFINE a == SubSeq(s, 1, i - 1)
           b == SubSeq(s, i + 1, Len(s))
<1>1. /\ a \in Seq(S) /\ Len(a) = i - 1
      /\ \A j \in 1 .. i - 1 : a[j] = s[j]
  OBVIOUS
<1>2. /\ b \in Seq(S) /\ Len(b) = Len(s) - i
      /\ \A j \in 1 .. Len(s) - i : b[j] = s[j + i]
  OBVIOUS
<1>3. RemoveAt(s, i) = a \o b
  BY DEF RemoveAt
<1> HIDE DEF a, b
<1>4. /\ a \o b \in Seq(S) /\ Len(a \o b) = Len(s) - 1
      /\ \A j \in 1 .. Len(s) - 1 :
            (a \o b)[j] = IF j <= Len(a) THEN a[j] ELSE b[j - Len(a)]
  <2>1. /\ a \o b \in Seq(S) /\ Len(a \o b) = Len(a) + Len(b)
        /\ \A j \in 1 .. Len(a) + Len(b) :
              (a \o b)[j] = IF j <= Len(a) THEN a[j] ELSE b[j - Len(a)]
    BY <1>1, <1>2, Joined
  <2>2. Len(a) + Len(b) = Len(s) - 1
    BY <1>1, <1>2
  <2> QED
    BY <2>1, <2>2
<1>5. ASSUME NEW j \in 1 .. Len(s) - 1
      PROVE  (a \o b)[j] = IF j < i THEN s[j] ELSE s[j + 1]
  <2>1. CASE j < i
    BY <1>1, <1>4, <2>1
  <2>2. CASE ~(j < i)
    <3>1. j - (i - 1) \in 1 .. Len(s) - i /\ j - (i - 1) + i = j + 1
      BY <2>2
    <3>2. b[j - (i - 1)] = s[j + 1]
      BY <1>2, <3>1
    <3> QED
      BY <1>1, <1>4, <2>2, <3>2
  <2> QED
    BY <2>1, <2>2
<1> QED
  BY <1>3, <1>4, <1>5

\* ns is the sequence s with e put before its i-th entry.
Longer(S, s, ns, i, e) ==
    /\ ns \in Seq(S) /\ Len(ns) = Len(s) + 1
    /\ \A j \in 1 .. Len(s) + 1 :
          ns[j] = IF j < i THEN s[j] ELSE IF j = i THEN e ELSE s[j - 1]

LEMMA Inserted ==
    ASSUME NEW S, NEW s \in Seq(S), NEW i \in 1 .. Len(s) + 1, NEW e \in S
    PROVE  Longer(S, s, InsertAt(s, i, e), i, e)
<1> DEFINE a == SubSeq(s, 1, i - 1)
           b == SubSeq(s, i, Len(s))
           c == a \o <<e>>
<1>1. /\ a \in Seq(S) /\ Len(a) = i - 1
      /\ \A j \in 1 .. i - 1 : a[j] = s[j]
  OBVIOUS
<1>2. /\ b \in Seq(S) /\ Len(b) = Len(s) + 1 - i
      /\ \A j \in 1 .. Len(s) + 1 - i : b[j] = s[j + i - 1]
  OBVIOUS
<1>3. InsertAt(s, i, e) = c \o b
  BY DEF InsertAt
<1> HIDE DEF a, b
<1>4. /\ c \in Seq(S) /\ Len(c) = i
      /\ \A j \in 1 .. i : c[j] = IF j < i THEN s[j] ELSE e
  BY <1>1
<1> HIDE DEF c
<1>5. /\ c \o b \in Seq(S) /\ Len(c \o b) = Len(c) + Len(b)
      /\ \A j \in 1 .. Len(c) + Len(b) :
            (c \o b)[j] = IF j <= Len(c) THEN c[j] ELSE b[j - Len(c)]
  BY <1>2, <1>4, Joined
<1>6. Len(c) + Len(b) = Len(s) + 1
  BY <1>2, <1>4
<1>7. ASSUME NEW j \in 1 .. Len(s) + 1
      PROVE  (c \o b)[j] = IF j < i THEN s[j] ELSE IF j = i THEN e ELSE s[j - 1]
  <2>1. (c \o b)[j] = IF j <= i THEN c[j] ELSE b[j - i]
    BY <1>4, <1>5, <1>6
  <2>2. CASE j <= i
    <3>1. j \in 1 .. i
      BY <2>2
    <3> QED
      BY <1>4, <2>1, <2>2, <3>1
  <2>3. CASE ~(j <= i)
    <3>1. j - i \in 1 .. Len(s) + 1 - i /\ (j - i) + i - 1 = j - 1
      BY <2>3
    <3>2. b[j - i] = s[j - 1]
      BY <1>2, <3>1
    <3> QED
      BY <2>1, <2>3, <3>2
  <2> QED
    BY <2>2, <2>3
<1>8. Longer(S, s, c \o b, i, e)
  BY <1>5, <1>6, <1>7 DEF Longer
<1> QED
  BY <1>3, <1>8, Zenon

\* AlignUp gives the next multiple, and PagesFor enough pages.
LEMMA RoundedUp ==
    ASSUME NEW n \in Nat, NEW a \in Nat \ {0}
    PROVE  /\ AlignUp(n, a) \in Nat /\ AlignUp(n, a) >= n
           /\ AlignUp(n, a) \div a \in Nat
           /\ (AlignUp(n, a) \div a) * a = AlignUp(n, a)
<1> DEFINE y == n + a - 1
           q == y \div a
<1>1. y \in Nat
  OBVIOUS
<1> HIDE DEF y
<1>2. q \in Nat /\ y < (q + 1) * a
  BY <1>1
<1> HIDE DEF q
<1>3. q * a \in Nat /\ (q + 1) * a = (q * a) + a
  BY <1>2
<1>4. AlignUp(n, a) = q * a
  BY DEF AlignUp, q, y
<1>5. n + a - 1 < (q * a) + a
  BY <1>2, <1>3 DEF y
<1>6. (q * a) \div a = q
  BY <1>2
<1> QED
  BY <1>2, <1>3, <1>4, <1>5, <1>6

-----------------------------------------------------------------------------
(***************************************************************************)
(* Lists of blocks: the blocks lie one behind the other below top; they    *)
(* fill the space from start to end; two that are free meet only at the    *)
(* beginning of a run.                                                     *)
(***************************************************************************)

Blocks == [addr : Nat, size : Nat, free : BOOLEAN]
Lists == {bs \in Seq(Blocks) : Len(bs) > 0}

Ordered(bs, top) ==
    \A i \in 1 .. Len(bs) :
        /\ EndOf(bs[i]) <= top
        /\ \A j \in i + 1 .. Len(bs) : EndOf(bs[i]) <= bs[j].addr

Tiles(bs, start, end) ==
    /\ bs[1].addr = start
    /\ \A i \in 1 .. Len(bs) - 1 : EndOf(bs[i]) = bs[i + 1].addr
    /\ EndOf(bs[Len(bs)]) = end

Meets(bs, runs, i) ==
    bs[i].free /\ bs[i + 1].free => \E r \in runs : bs[i + 1].addr = r[1] * PageSize

Apart(bs, runs) == \A i \in 1 .. Len(bs) - 1 : Meets(bs, runs, i)

\* The blocks in use.
Used(bs) == {b \in Blocks : ~b.free /\ \E i \in 1 .. Len(bs) : bs[i] = b}

LEMMA Sizes0 ==
    /\ Overhead \in Nat /\ Overhead > 0 /\ HeaderSize \in Nat
    /\ PageSize \in Nat /\ PageSize > Overhead
  BY KHeapAssumption DEF Overhead, HeaderSize, FooterSize

LEMMA BlockIs ==
    ASSUME NEW addr \in Nat, NEW size \in Nat, NEW free \in BOOLEAN
    PROVE  /\ Block(addr, size, free) \in Blocks
           /\ Block(addr, size, free).addr = addr
           /\ Block(addr, size, free).size = size
           /\ Block(addr, size, free).free = free
  BY DEF Block, Blocks

LEMMA EntryIs ==
    ASSUME NEW bs \in Seq(Blocks), NEW i \in 1 .. Len(bs)
    PROVE  /\ bs[i] \in Blocks /\ bs[i].addr \in Nat /\ bs[i].size \in Nat
           /\ bs[i].free \in BOOLEAN /\ EndOf(bs[i]) \in Nat
<1>1. bs[i] \in Blocks
  OBVIOUS
<1>2. bs[i].addr \in Nat /\ bs[i].size \in Nat /\ bs[i].free \in BOOLEAN
  BY <1>1 DEF Blocks
<1> QED
  BY <1>1, <1>2, Sizes0 DEF EndOf

\* Blocks that lie one behind the other have different addresses.
LEMMA AddressesDiffer ==
    ASSUME NEW bs \in Seq(Blocks), NEW top, Ordered(bs, top),
           NEW i \in 1 .. Len(bs), NEW j \in 1 .. Len(bs), bs[i].addr = bs[j].addr
    PROVE  i = j
<1>1. ASSUME NEW k \in 1 .. Len(bs), NEW l \in 1 .. Len(bs), k < l
      PROVE  bs[k].addr # bs[l].addr
  <2>1. l \in k + 1 .. Len(bs)
    BY <1>1
  <2>2. EndOf(bs[k]) <= bs[l].addr
    BY <2>1 DEF Ordered
  <2>3. bs[k].addr \in Nat /\ bs[k].size \in Nat /\ bs[l].addr \in Nat
    BY EntryIs
  <2> QED
    BY <2>2, <2>3, Sizes0 DEF EndOf
<1>2. i \in Nat /\ j \in Nat
  OBVIOUS
<1>3. ~(i < j) /\ ~(j < i)
  BY <1>1
<1> QED
  BY <1>2, <1>3

-----------------------------------------------------------------------------
(***************************************************************************)
(* Handing a block out.                                                    *)
(***************************************************************************)

\* ns is bs after its i-th block has been split.
Split(bs, ns, i, size) ==
    /\ ns \in Lists /\ Len(ns) = Len(bs) + 1
    /\ \A j \in 1 .. i - 1 : ns[j] = bs[j]
    /\ ns[i].addr = bs[i].addr /\ ns[i].size = size /\ ~ns[i].free
    /\ ns[i + 1].addr = bs[i].addr + Overhead + size
    /\ ns[i + 1].size = bs[i].size - size - Overhead /\ ns[i + 1].free
    /\ \A j \in i + 2 .. Len(bs) + 1 : ns[j] = bs[j - 1]

\* ns is bs after its i-th block has been handed out whole.
Whole(bs, ns, i) ==
    /\ ns \in Lists /\ Len(ns) = Len(bs)
    /\ \A j \in 1 .. Len(bs) : j # i => ns[j] = bs[j]
    /\ ns[i].addr = bs[i].addr /\ ns[i].size = bs[i].size /\ ~ns[i].free

LEMMA PlaceSplits ==
    ASSUME NEW bs \in Lists, NEW i \in 1 .. Len(bs), NEW size \in Nat,
           bs[i].size >= size + Overhead + 32
    PROVE  Split(bs, Place(bs, i, size), i, size)
<1> DEFINE b == bs[i]
           x == Block(b.addr, size, FALSE)
           rest == Block(b.addr + Overhead + size, b.size - size - Overhead, TRUE)
           rs == ReplaceAt(bs, i, x)
           ns == InsertAt(rs, i + 1, rest)
<1>0. bs \in Seq(Blocks) /\ Len(bs) \in Nat
  BY DEF Lists
<1>1. b.addr \in Nat /\ b.size \in Nat
  BY <1>0, EntryIs
<1>2. x \in Blocks /\ x.addr = b.addr /\ x.size = size /\ x.free = FALSE
  BY <1>1, BlockIs
<1>3. b.addr + Overhead + size \in Nat /\ b.size - size - Overhead \in Nat
  <2> DEFINE a == b.addr
             y == b.size
  <2>1. a \in Nat /\ y \in Nat /\ y >= size + Overhead + 32
    BY <1>1
  <2> HIDE DEF a, y
  <2>2. a + Overhead + size \in Nat /\ y - size - Overhead \in Nat
    BY <2>1, Sizes0
  <2> QED
    BY <2>2 DEF a, y
<1>4. /\ rest \in Blocks /\ rest.addr = b.addr + Overhead + size
      /\ rest.size = b.size - size - Overhead /\ rest.free = TRUE
  BY <1>3, BlockIs, Zenon
<1>5. Place(bs, i, size) = ns
  BY Zenon DEF Place
<1> HIDE DEF x, rest
<1>6. /\ rs \in Seq(Blocks) /\ Len(rs) = Len(bs)
      /\ \A j \in 1 .. Len(bs) : rs[j] = IF j = i THEN x ELSE bs[j]
  BY <1>0, <1>2 DEF ReplaceAt
<1> HIDE DEF rs
<1>7. i + 1 \in 1 .. Len(rs) + 1
  BY <1>0, <1>6
<1>8. /\ ns \in Seq(Blocks) /\ Len(ns) = Len(rs) + 1
      /\ \A j \in 1 .. Len(rs) + 1 :
            ns[j] = IF j < i + 1 THEN rs[j] ELSE IF j = i + 1 THEN rest ELSE rs[j - 1]
  <2>1. rest \in Blocks /\ rs \in Seq(Blocks)
    BY <1>4, <1>6
  <2> DEFINE k == i + 1
  <2>2. k \in 1 .. Len(rs) + 1
    BY <1>7
  <2> HIDE DEF k
  <2>3. Longer(Blocks, rs, InsertAt(rs, k, rest), k, rest)
    BY <2>1, <2>2, Inserted, Zenon
  <2> QED
    BY <2>3, Zenon DEF k, Longer
<1> HIDE DEF ns
<1>9. Len(ns) = Len(bs) + 1 /\ ns \in Lists
  BY <1>0, <1>6, <1>8 DEF Lists
<1>10. \A j \in 1 .. i - 1 : ns[j] = bs[j]
  <2> TAKE j \in 1 .. i - 1
  <2>1. j \in 1 .. Len(bs) /\ j \in 1 .. Len(rs) + 1 /\ j < i + 1 /\ j # i
    BY <1>0, <1>6
  <2> QED
    BY <1>6, <1>8, <2>1
<1>11. ns[i] = x
  <2>1. i \in 1 .. Len(rs) + 1 /\ i < i + 1
    BY <1>0, <1>6
  <2> QED
    BY <1>6, <1>8, <2>1
<1>12. ns[i + 1] = rest
  <2>1. ~(i + 1 < i + 1)
    BY <1>0
  <2> QED
    BY <1>7, <1>8, <2>1
<1>13. \A j \in i + 2 .. Len(bs) + 1 : ns[j] = bs[j - 1]
  <2> TAKE j \in i + 2 .. Len(bs) + 1
  <2>1. /\ j \in 1 .. Len(rs) + 1 /\ ~(j < i + 1) /\ j # i + 1
        /\ j - 1 \in 1 .. Len(bs) /\ j - 1 # i
    BY <1>0, <1>6
  <2> QED
    BY <1>6, <1>8, <2>1
<1>14. Split(bs, ns, i, size)
  BY <1>2, <1>4, <1>9, <1>10, <1>11, <1>12, <1>13 DEF Split, b
<1> QED
  BY <1>5, <1>14

LEMMA PlaceTakesWhole ==
    ASSUME NEW bs \in Lists, NEW i \in 1 .. Len(bs), NEW size \in Nat,
           ~(bs[i].size >= size + Overhead + 32)
    PROVE  Whole(bs, Place(bs, i, size), i)
<1> DEFINE x == Block(bs[i].addr, bs[i].size, FALSE)
           ns == ReplaceAt(bs, i, x)
<1>0. bs \in Seq(Blocks) /\ Len(bs) \in Nat
  BY DEF Lists
<1>1. bs[i].addr \in Nat /\ bs[i].size \in Nat
  BY <1>0, EntryIs
<1>2. x \in Blocks /\ x.addr = bs[i].addr /\ x.size = bs[i].size /\ x.free = FALSE
  <2> DEFINE a == bs[i].addr
             y == bs[i].size
  <2>1. a \in Nat /\ y \in Nat
    BY <1>1
  <2> HIDE DEF a, y
  <2>2. /\ Block(a, y, FALSE) \in Blocks /\ Block(a, y, FALSE).addr = a
        /\ Block(a, y, FALSE).size = y /\ Block(a, y, FALSE).free = FALSE
    BY <2>1, BlockIs
  <2> QED
    BY <2>2, Zenon DEF a, y
<1>3. Place(bs, i, size) = ns
  BY Zenon DEF Place
<1> HIDE DEF x
<1>4. /\ ns \in Seq(Blocks) /\ Len(ns) = Len(bs)
      /\ \A j \in 1 .. Len(bs) : ns[j] = IF j = i THEN x ELSE bs[j]
  BY <1>0, <1>2 DEF ReplaceAt
<1> HIDE DEF ns
<1>5. Whole(bs, ns, i)
  BY <1>0, <1>2, <1>4 DEF Whole, Lists
<1> QED
  BY <1>3, <1>5

\* A split keeps the blocks apart and in order.
LEMMA SplitKeeps ==
    ASSUME NEW bs \in Lists, NEW ns, NEW i \in 1 .. Len(bs), NEW size \in Nat,
           Split(bs, ns, i, size), bs[i].free, bs[i].size >= size + Overhead
    PROVE  /\ \A top \in Nat : Ordered(bs, top) => Ordered(ns, top)
           /\ \A start, end : Tiles(bs, start, end) => Tiles(ns, start, end)
           /\ \A runs : Apart(bs, runs) => Apart(ns, runs)
<1>0. bs \in Seq(Blocks) /\ Len(bs) \in Nat /\ i \in Nat
  BY DEF Lists
<1>1. /\ ns \in Seq(Blocks) /\ Len(ns) = Len(bs) + 1
      /\ \A j \in 1 .. i - 1 : ns[j] = bs[j]
      /\ ns[i].addr = bs[i].addr /\ ns[i].size = size /\ ~ns[i].free
      /\ ns[i + 1].addr = bs[i].addr + Overhead + size
      /\ ns[i + 1].size = bs[i].size - size - Overhead /\ ns[i + 1].free
      /\ \A j \in i + 2 .. Len(bs) + 1 : ns[j] = bs[j - 1]
  BY DEF Split, Lists
<1>2. \A j \in 1 .. Len(bs) : bs[j].addr \in Nat /\ bs[j].size \in Nat /\ EndOf(bs[j]) \in Nat
  BY <1>0, EntryIs
\* Where each block of the new list comes from, and where it lies.
<1> DEFINE Old(j) == IF j <= i THEN j ELSE j - 1
<1>3. ASSUME NEW j \in 1 .. Len(ns)
      PROVE  /\ Old(j) \in 1 .. Len(bs)
             /\ j # i /\ j # i + 1 => ns[j] = bs[Old(j)]
             /\ j = i \/ j = i + 1 => Old(j) = i
  <2>1. CASE j < i
    BY <1>0, <1>1, <2>1
  <2>2. CASE j = i \/ j = i + 1
    BY <1>0, <1>1, <2>2
  <2>3. CASE j > i + 1
    <3>1. j \in i + 2 .. Len(bs) + 1
      BY <1>0, <1>1, <2>3
    <3> QED
      BY <1>0, <1>1, <2>3, <3>1
  <2> QED
    BY <1>0, <1>1, <2>1, <2>2, <2>3
<1>4. /\ EndOf(ns[i]) = ns[i + 1].addr /\ EndOf(ns[i + 1]) = EndOf(bs[i])
      /\ ns[i].addr = bs[i].addr /\ EndOf(ns[i]) <= EndOf(bs[i])
      /\ ns[i + 1].addr >= bs[i].addr
  <2> DEFINE a == bs[i].addr
             z == bs[i].size
  <2>1. a \in Nat /\ z \in Nat /\ z >= size + Overhead /\ EndOf(bs[i]) = a + Overhead + z
    BY <1>2 DEF EndOf
  <2>2. /\ ns[i].addr = a /\ ns[i + 1].addr = a + Overhead + size
        /\ EndOf(ns[i]) = a + Overhead + size
        /\ EndOf(ns[i + 1]) = a + Overhead + size + Overhead + (z - size - Overhead)
    BY <1>1 DEF EndOf
  <2> HIDE DEF a, z
  <2>3. ns[i].addr = bs[i].addr
    BY <2>2 DEF a
  <2> QED
    BY <2>1, <2>2, <2>3, Sizes0 DEF a
<1>5. ASSUME NEW j \in 1 .. Len(ns)
      PROVE  /\ EndOf(ns[j]) <= EndOf(bs[Old(j)]) /\ bs[Old(j)].addr <= ns[j].addr
             /\ EndOf(ns[j]) \in Nat /\ ns[j].addr \in Nat
  <2>1. EndOf(ns[j]) \in Nat /\ ns[j].addr \in Nat
    BY <1>1, EntryIs
  <2>2. CASE j # i /\ j # i + 1
    BY <1>2, <1>3, <2>1, <2>2, SMTT(30)
  <2>3. CASE j = i \/ j = i + 1
    BY <1>2, <1>3, <1>4, <2>1, <2>3
  <2> QED
    BY <2>1, <2>2, <2>3
<1>6. ASSUME NEW top \in Nat, Ordered(bs, top), NEW j \in 1 .. Len(ns), NEW k \in j + 1 .. Len(ns)
      PROVE  EndOf(ns[j]) <= ns[k].addr
  <2>0. k \in 1 .. Len(ns) /\ k \in Nat /\ j \in Nat /\ j < k
    BY <1>0, <1>1
  <2>1. CASE j = i /\ k = i + 1
    BY <1>4, <1>5, <2>0, <2>1
  <2>2. CASE ~(j = i /\ k = i + 1)
    <3>1. Old(k) \in Old(j) + 1 .. Len(bs)
      BY <1>0, <1>1, <2>0, <2>2
    <3>2. EndOf(bs[Old(j)]) <= bs[Old(k)].addr
      BY <1>3, <1>6, <3>1 DEF Ordered
    <3>3. Old(j) \in 1 .. Len(bs) /\ Old(k) \in 1 .. Len(bs)
      BY <1>3, <2>0
    <3>4. EndOf(ns[j]) <= EndOf(bs[Old(j)]) /\ EndOf(ns[j]) \in Nat
      BY <1>5
    <3>5. bs[Old(k)].addr <= ns[k].addr /\ ns[k].addr \in Nat
      BY <1>5, <2>0
    <3>6. EndOf(bs[Old(j)]) \in Nat /\ bs[Old(k)].addr \in Nat
      BY <1>2, <3>3
    <3> HIDE DEF Old
    <3> QED
      BY <3>2, <3>4, <3>5, <3>6
  <2> QED
    BY <2>1, <2>2
<1>7. ASSUME NEW top \in Nat, Ordered(bs, top), NEW j \in 1 .. Len(ns)
      PROVE  EndOf(ns[j]) <= top
  <2>1. Old(j) \in 1 .. Len(bs)
    BY <1>3
  <2>2. EndOf(bs[Old(j)]) <= top
    BY <1>7, <2>1 DEF Ordered
  <2>3. EndOf(ns[j]) <= EndOf(bs[Old(j)]) /\ EndOf(ns[j]) \in Nat
    BY <1>5
  <2>4. EndOf(bs[Old(j)]) \in Nat
    BY <1>2, <2>1
  <2> HIDE DEF Old
  <2> QED
    BY <2>2, <2>3, <2>4
<1>8. ASSUME NEW start, NEW end, Tiles(bs, start, end) PROVE Tiles(ns, start, end)
  <2>0. /\ bs[1].addr = start /\ EndOf(bs[Len(bs)]) = end
        /\ \A j \in 1 .. Len(bs) - 1 : EndOf(bs[j]) = bs[j + 1].addr
    BY <1>8 DEF Tiles
  <2>1. ns[1].addr = start
    <3>1. CASE i = 1
      BY <1>1, <2>0, <3>1
    <3>2. CASE i # 1
      <4>1. 1 \in 1 .. i - 1
        BY <1>0, <3>2
      <4> QED
        BY <1>1, <2>0, <4>1
    <3> QED
      BY <3>1, <3>2
  <2>2. EndOf(ns[Len(ns)]) = end
    <3>1. CASE i = Len(bs)
      BY <1>1, <1>4, <2>0, <3>1
    <3>2. CASE i # Len(bs)
      <4>1. Len(bs) + 1 \in i + 2 .. Len(bs) + 1 /\ (Len(bs) + 1) - 1 = Len(bs)
        BY <1>0, <3>2
      <4> QED
        BY <1>1, <2>0, <4>1
    <3> QED
      BY <3>1, <3>2
  <2>3. ASSUME NEW j \in 1 .. Len(ns) - 1
        PROVE  EndOf(ns[j]) = ns[j + 1].addr
    <3>0. j \in Nat /\ j \in 1 .. Len(bs)
      BY <1>0, <1>1
    <3>1. CASE j = i
      BY <1>4, <3>1
    <3>2. CASE j = i + 1
      <4>1. i \in 1 .. Len(bs) - 1 /\ j + 1 \in i + 2 .. Len(bs) + 1 /\ (j + 1) - 1 = i + 1
        BY <1>0, <3>0, <3>2
      <4>2. ns[j + 1] = bs[i + 1]
        BY <1>1, <4>1
      <4> QED
        BY <1>4, <2>0, <3>2, <4>1, <4>2
    <3>3. CASE j > i + 1
      <4>1. /\ j \in i + 2 .. Len(bs) + 1 /\ j + 1 \in i + 2 .. Len(bs) + 1
            /\ (j + 1) - 1 = (j - 1) + 1 /\ j - 1 \in 1 .. Len(bs) - 1
        BY <1>0, <3>0, <3>3
      <4>2. ns[j] = bs[j - 1] /\ ns[j + 1] = bs[(j - 1) + 1]
        BY <1>1, <4>1
      <4> QED
        BY <2>0, <4>1, <4>2
    <3>4. CASE j < i
      <4>1. j \in 1 .. i - 1 /\ j \in 1 .. Len(bs) - 1
        BY <1>0, <3>0, <3>4
      <4>2. ns[j + 1].addr = bs[j + 1].addr
        <5>1. CASE j + 1 = i
          BY <1>1, <5>1
        <5>2. CASE j + 1 # i
          <6>1. j + 1 \in 1 .. i - 1
            BY <1>0, <3>0, <3>4, <5>2
          <6> QED
            BY <1>1, <6>1
        <5> QED
          BY <5>1, <5>2
      <4> QED
        BY <1>1, <2>0, <4>1, <4>2
    <3> QED
      BY <1>0, <3>0, <3>1, <3>2, <3>3, <3>4
  <2> QED
    BY <2>1, <2>2, <2>3 DEF Tiles
<1>9. ASSUME NEW runs, Apart(bs, runs) PROVE Apart(ns, runs)
  <2> SUFFICES ASSUME NEW j \in 1 .. Len(ns) - 1, ns[j].free, ns[j + 1].free
               PROVE  \E r \in runs : ns[j + 1].addr = r[1] * PageSize
    BY DEF Apart, Meets
  <2>0. j \in Nat /\ j \in 1 .. Len(bs) /\ j # i /\ j + 1 # i
    BY <1>0, <1>1
  <2>1. \A k \in 1 .. Len(bs) - 1 : bs[k].free /\ bs[k + 1].free =>
           \E r \in runs : bs[k + 1].addr = r[1] * PageSize
    BY <1>9 DEF Apart, Meets
  <2>2. CASE j = i + 1
    <3>1. i \in 1 .. Len(bs) - 1 /\ j + 1 \in i + 2 .. Len(bs) + 1 /\ (j + 1) - 1 = i + 1
      BY <1>0, <2>0, <2>2
    <3>2. ns[j + 1] = bs[i + 1]
      BY <1>1, <3>1
    <3> QED
      BY <2>1, <3>1, <3>2
  <2>3. CASE j > i + 1
    <3>1. /\ j \in i + 2 .. Len(bs) + 1 /\ j + 1 \in i + 2 .. Len(bs) + 1
          /\ (j + 1) - 1 = (j - 1) + 1 /\ j - 1 \in 1 .. Len(bs) - 1
      <4>1. j \in Nat /\ i \in Nat /\ Len(bs) \in Nat /\ j <= Len(bs) /\ j >= i + 2 /\ i >= 1
        BY <1>0, <2>0, <2>3
      <4> QED
        BY <4>1
    <3>2. ns[j] = bs[j - 1] /\ ns[j + 1] = bs[(j - 1) + 1]
      BY <1>1, <3>1
    <3> QED
      BY <2>1, <3>1, <3>2
  <2>4. CASE j < i
    <3>1. j \in 1 .. i - 1 /\ j + 1 \in 1 .. i - 1 /\ j \in 1 .. Len(bs) - 1
      BY <1>0, <2>0, <2>4
    <3>2. ns[j] = bs[j] /\ ns[j + 1] = bs[j + 1]
      BY <1>1, <3>1
    <3> QED
      BY <2>1, <3>1, <3>2
  <2> QED
    BY <1>0, <2>0, <2>2, <2>3, <2>4
<1> QED
  BY <1>6, <1>7, <1>8, <1>9 DEF Ordered

LEMMA SplitUses ==
    ASSUME NEW bs \in Lists, NEW ns, NEW i \in 1 .. Len(bs), NEW size \in Nat,
           Split(bs, ns, i, size), bs[i].free
    PROVE  Used(ns) = Used(bs) \cup {ns[i]}
<1>0. bs \in Seq(Blocks) /\ Len(bs) \in Nat /\ i \in Nat
  BY DEF Lists
<1>1. /\ ns \in Seq(Blocks) /\ Len(ns) = Len(bs) + 1
      /\ \A j \in 1 .. i - 1 : ns[j] = bs[j]
      /\ ~ns[i].free /\ ns[i + 1].free
      /\ \A j \in i + 2 .. Len(bs) + 1 : ns[j] = bs[j - 1]
  BY DEF Split, Lists
<1>2. ns[i] \in Used(ns)
  <2>1. i \in 1 .. Len(ns)
    BY <1>0, <1>1
  <2> QED
    BY <1>1, <2>1, EntryIs DEF Used
<1>3. ASSUME NEW b \in Used(bs) PROVE b \in Used(ns)
  <2>1. PICK j \in 1 .. Len(bs) : bs[j] = b
    BY DEF Used
  <2>2. j # i /\ j \in Nat
    BY <2>1 DEF Used
  <2>3. CASE j < i
    <3>1. j \in 1 .. i - 1 /\ j \in 1 .. Len(ns)
      BY <1>0, <1>1, <2>2, <2>3
    <3> QED
      BY <1>1, <2>1, <3>1 DEF Used
  <2>4. CASE j > i
    <3>1. j + 1 \in i + 2 .. Len(bs) + 1 /\ j + 1 \in 1 .. Len(ns) /\ (j + 1) - 1 = j
      BY <1>0, <1>1, <2>2, <2>4
    <3>2. ns[j + 1] = b
      BY <1>1, <2>1, <3>1
    <3> QED
      BY <3>1, <3>2 DEF Used
  <2> QED
    BY <1>0, <2>2, <2>3, <2>4
<1>4. ASSUME NEW b \in Used(ns), b # ns[i] PROVE b \in Used(bs)
  <2>1. PICK j \in 1 .. Len(ns) : ns[j] = b
    BY DEF Used
  <2>2. j # i /\ j # i + 1 /\ j \in Nat
    BY <1>1, <1>4, <2>1 DEF Used
  <2>3. CASE j < i
    <3>1. j \in 1 .. i - 1 /\ j \in 1 .. Len(bs)
      BY <1>0, <1>1, <2>2, <2>3
    <3> QED
      BY <1>1, <2>1, <3>1 DEF Used
  <2>4. CASE j > i + 1
    <3>1. j \in i + 2 .. Len(bs) + 1 /\ j - 1 \in 1 .. Len(bs)
      BY <1>0, <1>1, <2>2, <2>4
    <3>2. bs[j - 1] = b
      BY <1>1, <2>1, <3>1
    <3> QED
      BY <3>1, <3>2 DEF Used
  <2> QED
    BY <1>0, <2>2, <2>3, <2>4
<1> QED
  BY <1>2, <1>3, <1>4

\* ns is bs with another flag in its i-th block.
Flagged(bs, ns, i) ==
    /\ ns \in Lists /\ Len(ns) = Len(bs)
    /\ \A j \in 1 .. Len(bs) : j # i => ns[j] = bs[j]
    /\ ns[i].addr = bs[i].addr /\ ns[i].size = bs[i].size

LEMMA FlagKeeps ==
    ASSUME NEW bs \in Lists, NEW ns, NEW i \in 1 .. Len(bs), Flagged(bs, ns, i)
    PROVE  /\ \A top \in Nat : Ordered(bs, top) => Ordered(ns, top)
           /\ \A start, end : Tiles(bs, start, end) => Tiles(ns, start, end)
           /\ \A j \in 1 .. Len(bs) : ns[j].addr = bs[j].addr /\ EndOf(ns[j]) = EndOf(bs[j])
<1>1. Len(ns) = Len(bs) /\ Len(bs) \in Nat /\ Len(bs) > 0
  BY DEF Flagged, Lists
<1>2. \A j \in 1 .. Len(bs) : ns[j].addr = bs[j].addr /\ EndOf(ns[j]) = EndOf(bs[j])
  BY DEF Flagged, EndOf
<1>3. ASSUME NEW top \in Nat, Ordered(bs, top) PROVE Ordered(ns, top)
  <2> SUFFICES ASSUME NEW j \in 1 .. Len(bs)
               PROVE  /\ EndOf(ns[j]) <= top
                      /\ \A k \in j + 1 .. Len(bs) : EndOf(ns[j]) <= ns[k].addr
    BY <1>1 DEF Ordered
  <2>1. EndOf(bs[j]) <= top /\ \A k \in j + 1 .. Len(bs) : EndOf(bs[j]) <= bs[k].addr
    BY <1>3 DEF Ordered
  <2>2. \A k \in j + 1 .. Len(bs) : k \in 1 .. Len(bs)
    BY <1>1
  <2> QED
    BY <1>2, <2>1, <2>2
<1>4. ASSUME NEW start, NEW end, Tiles(bs, start, end) PROVE Tiles(ns, start, end)
  <2>1. 1 \in 1 .. Len(bs) /\ Len(bs) \in 1 .. Len(bs)
    BY <1>1
  <2>2. \A j \in 1 .. Len(bs) - 1 : j \in 1 .. Len(bs) /\ j + 1 \in 1 .. Len(bs)
    BY <1>1
  <2> QED
    BY <1>1, <1>2, <1>4, <2>1, <2>2 DEF Tiles
<1> QED
  BY <1>2, <1>3, <1>4

\* Handing a block out whole.
LEMMA WholeKeeps ==
    ASSUME NEW bs \in Lists, NEW ns, NEW i \in 1 .. Len(bs), Whole(bs, ns, i), bs[i].free
    PROVE  /\ Flagged(bs, ns, i)
           /\ \A runs : Apart(bs, runs) => Apart(ns, runs)
           /\ Used(ns) = Used(bs) \cup {ns[i]}
<1>1. Flagged(bs, ns, i)
  BY DEF Whole, Flagged
<1>2. /\ Len(ns) = Len(bs) /\ Len(bs) \in Nat /\ ns \in Seq(Blocks) /\ ~ns[i].free
      /\ \A j \in 1 .. Len(bs) : j # i => ns[j] = bs[j]
  BY DEF Whole, Lists
<1>3. ASSUME NEW runs, Apart(bs, runs) PROVE Apart(ns, runs)
  <2> SUFFICES ASSUME NEW j \in 1 .. Len(bs) - 1, ns[j].free, ns[j + 1].free
               PROVE  \E r \in runs : ns[j + 1].addr = r[1] * PageSize
    BY <1>2 DEF Apart, Meets
  <2>1. j # i /\ j + 1 # i /\ j \in 1 .. Len(bs) /\ j + 1 \in 1 .. Len(bs)
    BY <1>2
  <2>2. ns[j] = bs[j] /\ ns[j + 1] = bs[j + 1]
    BY <1>2, <2>1
  <2> QED
    BY <1>3, <2>2 DEF Apart, Meets
<1>4. ns[i] \in Used(ns)
  BY <1>2, EntryIs DEF Used
<1>5. \A b \in Used(bs) : b \in Used(ns)
  BY <1>2 DEF Used
<1>6. \A b \in Used(ns) : b = ns[i] \/ b \in Used(bs)
  BY <1>2 DEF Used
<1> QED
  BY <1>1, <1>3, <1>4, <1>5, <1>6

\* What Place does to the list: the block it hands out is where a free block
\* was, in use, and large enough.
LEMMA PlaceKeeps ==
    ASSUME NEW bs \in Lists, NEW i \in 1 .. Len(bs), NEW size \in Nat,
           bs[i].free, bs[i].size >= size + Overhead
    PROVE  /\ Place(bs, i, size) \in Lists
           /\ \A top \in Nat : Ordered(bs, top) => Ordered(Place(bs, i, size), top)
           /\ \A start, end : Tiles(bs, start, end) => Tiles(Place(bs, i, size), start, end)
           /\ \A runs : Apart(bs, runs) => Apart(Place(bs, i, size), runs)
           /\ \E x \in Blocks : /\ x.addr = bs[i].addr /\ x.size >= size /\ ~x.free
                                /\ Used(Place(bs, i, size)) = Used(bs) \cup {x}
<1> DEFINE ns == Place(bs, i, size)
<1>0. bs \in Seq(Blocks)
  BY DEF Lists
<1>1. CASE bs[i].size >= size + Overhead + 32
  <2>1. Split(bs, ns, i, size)
    BY <1>1, PlaceSplits
  <2> HIDE DEF ns
  <2>2. /\ \A top \in Nat : Ordered(bs, top) => Ordered(ns, top)
        /\ \A start, end : Tiles(bs, start, end) => Tiles(ns, start, end)
        /\ \A runs : Apart(bs, runs) => Apart(ns, runs)
    BY <2>1, SplitKeeps
  <2>3. Used(ns) = Used(bs) \cup {ns[i]}
    BY <2>1, SplitUses
  <2>4. ns \in Lists /\ ns[i].addr = bs[i].addr /\ ns[i].size = size /\ ~ns[i].free
    BY <2>1 DEF Split
  <2>5. i \in 1 .. Len(ns) /\ ns \in Seq(Blocks)
    BY <1>0, <2>1 DEF Split, Lists
  <2>6. ns[i] \in Blocks /\ ns[i].size >= size
    BY <2>4, <2>5
  <2> QED
    BY <2>2, <2>3, <2>4, <2>6 DEF ns
<1>2. CASE ~(bs[i].size >= size + Overhead + 32)
  <2>1. Whole(bs, ns, i)
    BY <1>2, PlaceTakesWhole
  <2> HIDE DEF ns
  <2>2. /\ Flagged(bs, ns, i)
        /\ \A runs : Apart(bs, runs) => Apart(ns, runs)
        /\ Used(ns) = Used(bs) \cup {ns[i]}
    BY <2>1, WholeKeeps
  <2>3. /\ \A top \in Nat : Ordered(bs, top) => Ordered(ns, top)
        /\ \A start, end : Tiles(bs, start, end) => Tiles(ns, start, end)
    BY <2>2, FlagKeeps
  <2>4. ns \in Lists /\ ns[i].addr = bs[i].addr /\ ns[i].size = bs[i].size /\ ~ns[i].free
    BY <2>1 DEF Whole
  <2>5. i \in 1 .. Len(ns) /\ ns \in Seq(Blocks)
    BY <1>0, <2>1 DEF Whole, Lists
  <2>6. ns[i] \in Blocks /\ bs[i].size \in Nat
    BY <1>0, <2>5, EntryIs
  <2>7. ns[i].size >= size
    BY <2>4, <2>6, Sizes0
  <2> QED
    BY <2>2, <2>3, <2>4, <2>6, <2>7 DEF ns
<1> QED
  BY <1>1, <1>2

-----------------------------------------------------------------------------
(***************************************************************************)
(* Giving a block back.                                                    *)
(***************************************************************************)

\* ns is bs after its i-th block has absorbed the next one.
Absorbed(bs, ns, i) ==
    /\ ns \in Lists /\ Len(ns) = Len(bs) - 1
    /\ \A j \in 1 .. i - 1 : ns[j] = bs[j]
    /\ ns[i].addr = bs[i].addr /\ ns[i].free = bs[i].free
    /\ ns[i].size = bs[i].size + Overhead + bs[i + 1].size
    /\ \A j \in i + 1 .. Len(bs) - 1 : ns[j] = bs[j + 1]

\* Two free blocks meet at the beginning of a run, except at the places in X.
ApartBut(bs, runs, X) == \A i \in 1 .. Len(bs) - 1 : i \notin X => Meets(bs, runs, i)

LEMMA AbsorbIs ==
    ASSUME NEW bs \in Lists, NEW i \in 1 .. Len(bs) - 1
    PROVE  Absorbed(bs, Absorb(bs, i), i)
<1> DEFINE x == Block(bs[i].addr, bs[i].size + Overhead + bs[i + 1].size, bs[i].free)
           rs == ReplaceAt(bs, i, x)
           k == i + 1
           ns == RemoveAt(rs, k)
<1>0. bs \in Seq(Blocks) /\ Len(bs) \in Nat /\ i \in 1 .. Len(bs) /\ i + 1 \in 1 .. Len(bs)
  BY DEF Lists
<1>1. /\ bs[i].addr \in Nat /\ bs[i].free \in BOOLEAN
      /\ bs[i].size + Overhead + bs[i + 1].size \in Nat
  <2>1. bs[i].addr \in Nat /\ bs[i].size \in Nat /\ bs[i].free \in BOOLEAN
    BY <1>0, EntryIs
  <2>2. bs[i + 1].size \in Nat
    BY <1>0, EntryIs
  <2>3. \A y, o, z \in Nat : y + o + z \in Nat
    OBVIOUS
  <2>4. Overhead \in Nat
    BY Sizes0
  <2> QED
    BY <2>1, <2>2, <2>3, <2>4, Zenon
<1>2. /\ x \in Blocks /\ x.addr = bs[i].addr /\ x.free = bs[i].free
      /\ x.size = bs[i].size + Overhead + bs[i + 1].size
  BY <1>1, BlockIs
<1>3. Absorb(bs, i) = ns
  BY Zenon DEF Absorb
<1> HIDE DEF x
<1>4. /\ rs \in Seq(Blocks) /\ Len(rs) = Len(bs)
      /\ \A j \in 1 .. Len(bs) : rs[j] = IF j = i THEN x ELSE bs[j]
  BY <1>0, <1>2 DEF ReplaceAt
<1> HIDE DEF rs
<1>5. k \in 1 .. Len(rs) /\ k = i + 1
  BY <1>0, <1>4
<1> HIDE DEF k
<1>6. /\ ns \in Seq(Blocks) /\ Len(ns) = Len(rs) - 1
      /\ \A j \in 1 .. Len(rs) - 1 : ns[j] = IF j < k THEN rs[j] ELSE rs[j + 1]
  BY <1>4, <1>5, Without
<1> HIDE DEF ns
<1>7. ns \in Lists /\ Len(ns) = Len(bs) - 1
  BY <1>0, <1>4, <1>6 DEF Lists
<1>8. \A j \in 1 .. i - 1 : ns[j] = bs[j]
  <2> TAKE j \in 1 .. i - 1
  <2>1. j \in 1 .. Len(rs) - 1 /\ j < k /\ j \in 1 .. Len(bs) /\ j # i
    BY <1>0, <1>4, <1>5
  <2> QED
    BY <1>4, <1>6, <2>1
<1>9. ns[i] = x
  <2>1. i \in 1 .. Len(rs) - 1 /\ i < k
    BY <1>0, <1>4, <1>5
  <2> QED
    BY <1>0, <1>4, <1>6, <2>1
<1>10. \A j \in i + 1 .. Len(bs) - 1 : ns[j] = bs[j + 1]
  <2> TAKE j \in i + 1 .. Len(bs) - 1
  <2>1. j \in 1 .. Len(rs) - 1 /\ ~(j < k) /\ j + 1 \in 1 .. Len(bs) /\ j + 1 # i
    BY <1>0, <1>4, <1>5
  <2> QED
    BY <1>4, <1>6, <2>1
<1>11. Absorbed(bs, ns, i)
  BY <1>2, <1>7, <1>8, <1>9, <1>10 DEF Absorbed
<1> QED
  BY <1>3, <1>11

LEMMA AbsorbKeeps ==
    ASSUME NEW bs \in Lists, NEW ns, NEW i \in 1 .. Len(bs) - 1, Absorbed(bs, ns, i)
    PROVE  /\ \A top \in Nat : Ordered(bs, top) => Ordered(ns, top)
           /\ \A start, end : Tiles(bs, start, end) => Tiles(ns, start, end)
<1>0. bs \in Seq(Blocks) /\ Len(bs) \in Nat /\ i \in Nat /\ i \in 1 .. Len(bs) /\ i + 1 \in 1 .. Len(bs)
  BY DEF Lists
<1>1. /\ ns \in Seq(Blocks) /\ Len(ns) = Len(bs) - 1
      /\ \A j \in 1 .. i - 1 : ns[j] = bs[j]
      /\ ns[i].addr = bs[i].addr
      /\ ns[i].size = bs[i].size + Overhead + bs[i + 1].size
      /\ \A j \in i + 1 .. Len(bs) - 1 : ns[j] = bs[j + 1]
  BY DEF Absorbed, Lists
<1>2. \A j \in 1 .. Len(bs) : bs[j].addr \in Nat /\ bs[j].size \in Nat /\ EndOf(bs[j]) \in Nat
  BY <1>0, EntryIs
<1>3. EndOf(ns[i]) = EndOf(bs[i]) + Overhead + bs[i + 1].size
  <2> DEFINE a == bs[i].addr
             x == bs[i].size
             y == bs[i + 1].size
  <2>1. a \in Nat /\ x \in Nat /\ y \in Nat
    BY <1>0, <1>2
  <2>2. EndOf(ns[i]) = a + Overhead + (x + Overhead + y)
    BY <1>1 DEF EndOf
  <2>3. EndOf(bs[i]) = a + Overhead + x
    BY DEF EndOf
  <2> HIDE DEF a, x, y
  <2>4. Overhead \in Nat
    BY Sizes0
  <2>5. a + Overhead + (x + Overhead + y) = (a + Overhead + x) + Overhead + y
    BY <2>1, <2>4
  <2> QED
    BY <2>2, <2>3, <2>5, Zenon DEF y
<1>4. EndOf(bs[i + 1]) = bs[i + 1].addr + Overhead + bs[i + 1].size
  BY DEF EndOf
<1>5. bs[i + 1].addr \in Nat /\ bs[i + 1].size \in Nat /\ EndOf(bs[i]) \in Nat /\ EndOf(bs[i + 1]) \in Nat
  BY <1>0, <1>2
<1>6. ASSUME NEW top \in Nat, Ordered(bs, top) PROVE Ordered(ns, top)
  <2>1. EndOf(ns[i]) <= EndOf(bs[i + 1]) /\ EndOf(ns[i]) \in Nat
    <3>1. i + 1 \in i + 1 .. Len(bs)
      BY <1>0
    <3>2. EndOf(bs[i]) <= bs[i + 1].addr
      BY <1>0, <1>6, <3>1 DEF Ordered
    <3> QED
      BY <1>3, <1>4, <1>5, <3>2, Sizes0
  \* The last of the old blocks in each new one, and the first.
  <2> DEFINE Hi(j) == IF j < i THEN j ELSE j + 1
             Lo(j) == IF j <= i THEN j ELSE j + 1
  <2>2. ASSUME NEW j \in 1 .. Len(ns)
        PROVE  /\ Hi(j) \in 1 .. Len(bs) /\ Lo(j) \in 1 .. Len(bs)
               /\ EndOf(ns[j]) <= EndOf(bs[Hi(j)]) /\ EndOf(ns[j]) \in Nat
               /\ ns[j].addr = bs[Lo(j)].addr
    <3>0. j \in Nat /\ Hi(j) \in 1 .. Len(bs) /\ Lo(j) \in 1 .. Len(bs)
      BY <1>0, <1>1
    <3>1. CASE j < i
      <4>1. j \in 1 .. i - 1 /\ j \in 1 .. Len(bs)
        BY <1>0, <3>0, <3>1
      <4>2. Hi(j) = j /\ Lo(j) = j
        BY <1>0, <3>0, <3>1
      <4>3. ns[j] = bs[j] /\ EndOf(bs[j]) \in Nat
        BY <1>1, <1>2, <4>1
      <4>4. EndOf(ns[j]) <= EndOf(bs[j]) /\ EndOf(ns[j]) \in Nat
        BY <4>3
      <4> HIDE DEF Hi, Lo
      <4> QED
        BY <3>0, <4>2, <4>3, <4>4, Zenon
    <3>2. CASE j = i
      BY <1>1, <2>1, <3>0, <3>2
    <3>3. CASE j > i
      <4>1. j \in i + 1 .. Len(bs) - 1 /\ j + 1 \in 1 .. Len(bs)
        BY <1>0, <1>1, <3>0, <3>3
      <4>2. Hi(j) = j + 1 /\ Lo(j) = j + 1
        BY <1>0, <3>0, <3>3
      <4>3. ns[j] = bs[j + 1] /\ EndOf(bs[j + 1]) \in Nat
        BY <1>1, <1>2, <4>1
      <4>4. EndOf(ns[j]) <= EndOf(bs[j + 1]) /\ EndOf(ns[j]) \in Nat
        BY <4>3
      <4> HIDE DEF Hi, Lo
      <4> QED
        BY <3>0, <4>2, <4>3, <4>4, Zenon
    <3> QED
      BY <1>0, <3>0, <3>1, <3>2, <3>3
  <2>3. ASSUME NEW j \in 1 .. Len(ns) PROVE EndOf(ns[j]) <= top
    <3>1. EndOf(ns[j]) <= EndOf(bs[Hi(j)]) /\ EndOf(ns[j]) \in Nat /\ Hi(j) \in 1 .. Len(bs)
      BY <2>2
    <3>2. EndOf(bs[Hi(j)]) <= top /\ EndOf(bs[Hi(j)]) \in Nat
      BY <1>2, <1>6, <3>1 DEF Ordered
    <3> HIDE DEF Hi
    <3> QED
      BY <3>1, <3>2
  <2>4. ASSUME NEW j \in 1 .. Len(ns), NEW k \in j + 1 .. Len(ns)
        PROVE  EndOf(ns[j]) <= ns[k].addr
    <3>0. k \in 1 .. Len(ns) /\ Lo(k) \in Hi(j) + 1 .. Len(bs)
      BY <1>0, <1>1
    <3>1. EndOf(ns[j]) <= EndOf(bs[Hi(j)]) /\ EndOf(ns[j]) \in Nat /\ Hi(j) \in 1 .. Len(bs)
      BY <2>2
    <3>2. ns[k].addr = bs[Lo(k)].addr /\ Lo(k) \in 1 .. Len(bs)
      BY <2>2, <3>0
    <3>3. EndOf(bs[Hi(j)]) <= bs[Lo(k)].addr
      BY <1>6, <3>0, <3>1 DEF Ordered
    <3>4. EndOf(bs[Hi(j)]) \in Nat /\ bs[Lo(k)].addr \in Nat
      BY <1>2, <3>1, <3>2
    <3> HIDE DEF Hi, Lo
    <3> QED
      BY <3>1, <3>2, <3>3, <3>4
  <2> QED
    BY <2>3, <2>4 DEF Ordered
<1>7. ASSUME NEW start, NEW end, Tiles(bs, start, end) PROVE Tiles(ns, start, end)
  <2>0. /\ bs[1].addr = start /\ EndOf(bs[Len(bs)]) = end
        /\ \A j \in 1 .. Len(bs) - 1 : EndOf(bs[j]) = bs[j + 1].addr
    BY <1>7 DEF Tiles
  <2>1. EndOf(ns[i]) = EndOf(bs[i + 1])
    <3>1. EndOf(bs[i]) = bs[i + 1].addr
      BY <2>0
    <3> QED
      BY <1>3, <1>4, <1>5, <3>1, Sizes0
  <2>2. ns[1].addr = start
    <3>1. CASE i = 1
      BY <1>1, <2>0, <3>1
    <3>2. CASE i # 1
      <4>1. 1 \in 1 .. i - 1
        BY <1>0, <3>2
      <4> QED
        BY <1>1, <2>0, <4>1
    <3> QED
      BY <3>1, <3>2
  <2>3. EndOf(ns[Len(ns)]) = end
    <3>1. CASE i + 1 = Len(bs)
      <4>1. Len(ns) = i
        BY <1>0, <1>1, <3>1
      <4> QED
        BY <2>0, <2>1, <3>1, <4>1
    <3>2. CASE i + 1 # Len(bs)
      <4>1. Len(bs) - 1 \in i + 1 .. Len(bs) - 1 /\ (Len(bs) - 1) + 1 = Len(bs)
        BY <1>0, <3>2
      <4> QED
        BY <1>1, <2>0, <4>1
    <3> QED
      BY <3>1, <3>2
  <2>4. ASSUME NEW j \in 1 .. Len(ns) - 1
        PROVE  EndOf(ns[j]) = ns[j + 1].addr
    <3>0. j \in Nat /\ j \in 1 .. Len(bs) - 1
      BY <1>0, <1>1
    <3>1. CASE j = i
      <4>1. i + 1 \in i + 1 .. Len(bs) - 1
        BY <1>0, <1>1, <3>1
      <4>2. ns[i + 1] = bs[(i + 1) + 1] /\ EndOf(bs[i + 1]) = bs[(i + 1) + 1].addr
        BY <1>1, <2>0, <1>0, <4>1
      <4> QED
        BY <2>1, <3>1, <4>2
    <3>2. CASE j > i
      <4>1. /\ j \in i + 1 .. Len(bs) - 1 /\ j + 1 \in i + 1 .. Len(bs) - 1
        BY <1>0, <1>1, <3>0, <3>2
      <4>2. ns[j] = bs[j + 1] /\ ns[j + 1] = bs[(j + 1) + 1]
        BY <1>1, <4>1
      <4>3. EndOf(bs[j + 1]) = bs[(j + 1) + 1].addr
        BY <1>0, <2>0, <4>1
      <4> QED
        BY <4>2, <4>3
    <3>3. CASE j < i
      <4>1. j \in 1 .. i - 1
        BY <1>0, <3>0, <3>3
      <4>2. ns[j + 1].addr = bs[j + 1].addr
        <5>1. CASE j + 1 = i
          BY <1>1, <5>1
        <5>2. CASE j + 1 # i
          <6>1. j + 1 \in 1 .. i - 1
            BY <1>0, <3>0, <3>3, <5>2
          <6> QED
            BY <1>1, <6>1
        <5> QED
          BY <5>1, <5>2
      <4> QED
        BY <1>1, <2>0, <3>0, <4>1, <4>2
    <3> QED
      BY <1>0, <3>0, <3>1, <3>2, <3>3
  <2> QED
    BY <2>2, <2>3, <2>4 DEF Tiles
<1> QED
  BY <1>6, <1>7

\* Two free blocks become one: the users see nothing of it, and what the list
\* had to the left and to the right of the pair it has to the left and to the
\* right of the block.
LEMMA AbsorbFree ==
    ASSUME NEW bs \in Lists, NEW ns, NEW i \in 1 .. Len(bs) - 1, Absorbed(bs, ns, i),
           bs[i].free, bs[i + 1].free
    PROVE  /\ \A runs : \A X \in SUBSET {i - 1, i} :
                 ApartBut(bs, runs, X) => ApartBut(ns, runs, X \ {i})
           /\ Used(ns) = Used(bs)
<1>0. bs \in Seq(Blocks) /\ Len(bs) \in Nat /\ i \in Nat /\ i \in 1 .. Len(bs) /\ i + 1 \in 1 .. Len(bs)
  BY DEF Lists
<1>1. /\ ns \in Seq(Blocks) /\ Len(ns) = Len(bs) - 1
      /\ \A j \in 1 .. i - 1 : ns[j] = bs[j]
      /\ ns[i].addr = bs[i].addr /\ ns[i].free
      /\ \A j \in i + 1 .. Len(bs) - 1 : ns[j] = bs[j + 1]
  BY DEF Absorbed, Lists
<1>2. ASSUME NEW runs, NEW X \in SUBSET {i - 1, i}, ApartBut(bs, runs, X)
      PROVE  ApartBut(ns, runs, X \ {i})
  <2> SUFFICES ASSUME NEW j \in 1 .. Len(ns) - 1, j \notin X \ {i}, ns[j].free, ns[j + 1].free
               PROVE  \E r \in runs : ns[j + 1].addr = r[1] * PageSize
    BY DEF ApartBut, Meets
  <2>0. j \in Nat /\ j + 1 \in 1 .. Len(bs) - 1
    BY <1>0, <1>1
  <2>1. \A k \in 1 .. Len(bs) - 1 : k \notin X /\ bs[k].free /\ bs[k + 1].free =>
           \E r \in runs : bs[k + 1].addr = r[1] * PageSize
    BY <1>2 DEF ApartBut, Meets
  <2>2. CASE j = i
    <3>1. i + 1 \in i + 1 .. Len(bs) - 1 /\ i + 1 \in 1 .. Len(bs) - 1 /\ i + 1 \notin X
      BY <1>0, <2>0, <2>2
    <3>2. ns[j + 1] = bs[(i + 1) + 1]
      BY <1>1, <2>2, <3>1
    <3> QED
      BY <2>1, <3>1, <3>2
  <2>3. CASE j > i
    <3>1. /\ j \in i + 1 .. Len(bs) - 1 /\ j + 1 \in i + 1 .. Len(bs) - 1
          /\ j + 1 \notin X
      BY <1>0, <1>1, <2>0, <2>3
    <3>2. ns[j] = bs[j + 1] /\ ns[j + 1] = bs[(j + 1) + 1]
      BY <1>1, <3>1
    <3> QED
      BY <2>0, <2>1, <3>1, <3>2
  <2>4. CASE j < i
    <3>1. j \in 1 .. i - 1 /\ j \in 1 .. Len(bs) - 1 /\ j \notin X /\ ns[j] = bs[j]
      <4>1. j \in 1 .. i - 1 /\ j \in 1 .. Len(bs) - 1 /\ j # i
        BY <1>0, <2>0, <2>4
      <4> QED
        BY <1>1, <4>1
    <3>2. ns[j + 1].addr = bs[j + 1].addr /\ bs[j + 1].free
      <4>1. CASE j + 1 = i
        BY <1>1, <4>1
      <4>2. CASE j + 1 # i
        <5>1. j + 1 \in 1 .. i - 1
          BY <1>0, <2>0, <2>4, <4>2
        <5> QED
          BY <1>1, <5>1
      <4> QED
        BY <4>1, <4>2
    <3> QED
      BY <2>1, <3>1, <3>2
  <2> QED
    BY <1>0, <2>0, <2>2, <2>3, <2>4
<1>3. ASSUME NEW b \in Used(bs) PROVE b \in Used(ns)
  <2>1. PICK j \in 1 .. Len(bs) : bs[j] = b
    BY DEF Used
  <2>2. j # i /\ j # i + 1 /\ j \in Nat
    BY <2>1 DEF Used
  <2>3. CASE j < i
    <3>1. j \in 1 .. i - 1 /\ j \in 1 .. Len(ns)
      BY <1>0, <1>1, <2>2, <2>3
    <3> QED
      BY <1>1, <2>1, <3>1 DEF Used
  <2>4. CASE j > i + 1
    <3>1. j - 1 \in i + 1 .. Len(bs) - 1 /\ j - 1 \in 1 .. Len(ns) /\ (j - 1) + 1 = j
      BY <1>0, <1>1, <2>2, <2>4
    <3>2. ns[j - 1] = b
      BY <1>1, <2>1, <3>1
    <3> QED
      BY <3>1, <3>2 DEF Used
  <2> QED
    BY <1>0, <2>2, <2>3, <2>4
<1>4. ASSUME NEW b \in Used(ns) PROVE b \in Used(bs)
  <2>1. PICK j \in 1 .. Len(ns) : ns[j] = b
    BY DEF Used
  <2>2. j # i /\ j \in Nat
    BY <1>1, <2>1 DEF Used
  <2>3. CASE j < i
    <3>1. j \in 1 .. i - 1 /\ j \in 1 .. Len(bs)
      BY <1>0, <1>1, <2>2, <2>3
    <3> QED
      BY <1>1, <2>1, <3>1 DEF Used
  <2>4. CASE j > i
    <3>1. j \in i + 1 .. Len(bs) - 1 /\ j + 1 \in 1 .. Len(bs)
      BY <1>0, <1>1, <2>2, <2>4
    <3>2. bs[j + 1] = b
      BY <1>1, <2>1, <3>1
    <3> QED
      BY <3>1, <3>2 DEF Used
  <2> QED
    BY <1>0, <2>2, <2>3, <2>4
<1> QED
  BY <1>2, <1>3, <1>4

\* Marking a block free takes it from the users; it may now meet its free
\* neighbours.
LEMMA MarkFree ==
    ASSUME NEW bs \in Lists, NEW i \in 1 .. Len(bs), NEW top \in Nat, Ordered(bs, top)
    PROVE  LET ns == ReplaceAt(bs, i, Block(bs[i].addr, bs[i].size, TRUE))
           IN  /\ Flagged(bs, ns, i) /\ ns[i].free
               /\ \A runs : Apart(bs, runs) => ApartBut(ns, runs, {i - 1, i})
               /\ Used(ns) = Used(bs) \ {bs[i]}
<1> DEFINE x == Block(bs[i].addr, bs[i].size, TRUE)
           ns == ReplaceAt(bs, i, x)
<1>0. bs \in Seq(Blocks) /\ Len(bs) \in Nat
  BY DEF Lists
<1>1. bs[i].addr \in Nat /\ bs[i].size \in Nat
  BY <1>0, EntryIs
<1>2. x \in Blocks /\ x.addr = bs[i].addr /\ x.size = bs[i].size /\ x.free = TRUE
  <2> DEFINE a == bs[i].addr
             y == bs[i].size
  <2>1. a \in Nat /\ y \in Nat
    BY <1>1
  <2> HIDE DEF a, y
  <2>2. /\ Block(a, y, TRUE) \in Blocks /\ Block(a, y, TRUE).addr = a
        /\ Block(a, y, TRUE).size = y /\ Block(a, y, TRUE).free = TRUE
    BY <2>1, BlockIs
  <2> QED
    BY <2>2, Zenon DEF a, y
<1> HIDE DEF x
<1>3. /\ ns \in Seq(Blocks) /\ Len(ns) = Len(bs)
      /\ \A j \in 1 .. Len(bs) : ns[j] = IF j = i THEN x ELSE bs[j]
  BY <1>0, <1>2 DEF ReplaceAt
<1> HIDE DEF ns
<1>4. Flagged(bs, ns, i) /\ ns[i].free
  BY <1>0, <1>2, <1>3 DEF Flagged, Lists
<1>5. ASSUME NEW runs, Apart(bs, runs) PROVE ApartBut(ns, runs, {i - 1, i})
  <2> SUFFICES ASSUME NEW j \in 1 .. Len(bs) - 1, j \notin {i - 1, i}, ns[j].free, ns[j + 1].free
               PROVE  \E r \in runs : ns[j + 1].addr = r[1] * PageSize
    BY <1>3 DEF ApartBut, Meets
  <2>1. j # i /\ j + 1 # i /\ j \in 1 .. Len(bs) /\ j + 1 \in 1 .. Len(bs)
    BY <1>0
  <2>2. ns[j] = bs[j] /\ ns[j + 1] = bs[j + 1]
    BY <1>3, <2>1
  <2> QED
    BY <1>5, <2>2 DEF Apart, Meets
<1>6. \A b \in Used(ns) : b \in Used(bs) /\ b # bs[i]
  <2> SUFFICES ASSUME NEW b \in Used(ns) PROVE b \in Used(bs) /\ b # bs[i]
    OBVIOUS
  <2>1. PICK j \in 1 .. Len(bs) : ns[j] = b
    BY <1>3 DEF Used
  <2>2. j # i
    BY <1>2, <1>3, <2>1 DEF Used
  <2>3. bs[j] = b
    BY <1>3, <2>1, <2>2
  <2>4. bs[j].addr # bs[i].addr
    BY <1>0, <2>2, AddressesDiffer
  <2> QED
    BY <2>3, <2>4 DEF Used
<1>7. \A b \in Used(bs) : b # bs[i] => b \in Used(ns)
  BY <1>3 DEF Used
<1>8. Used(ns) = Used(bs) \ {bs[i]}
  BY <1>6, <1>7
<1> QED
  BY <1>4, <1>5, <1>8, Zenon DEF ns, x

\* kfree takes one block from the users, and merges it with its free neighbours
\* on both sides.
LEMMA FreeKeeps ==
    ASSUME NEW bs \in Lists, NEW i \in 1 .. Len(bs), NEW top \in Nat, Ordered(bs, top)
    PROVE  /\ Free(bs, i) \in Lists /\ Ordered(Free(bs, i), top)
           /\ \A start, end : Tiles(bs, start, end) => Tiles(Free(bs, i), start, end)
           /\ \A runs : Apart(bs, runs) => Apart(Free(bs, i), runs)
           /\ Used(Free(bs, i)) = Used(bs) \ {bs[i]}
<1> DEFINE freed == ReplaceAt(bs, i, Block(bs[i].addr, bs[i].size, TRUE))
           joined == IF i < Len(freed) /\ freed[i + 1].free THEN Absorb(freed, i) ELSE freed
           ns == IF i > 1 /\ joined[i - 1].free THEN Absorb(joined, i - 1) ELSE joined
<1>0. Free(bs, i) = ns
  BY Zenon DEF Free
<1>1. /\ Flagged(bs, freed, i) /\ freed[i].free
      /\ \A runs : Apart(bs, runs) => ApartBut(freed, runs, {i - 1, i})
      /\ Used(freed) = Used(bs) \ {bs[i]}
  BY MarkFree
<1> HIDE DEF freed
<1>2. /\ freed \in Lists /\ Len(freed) = Len(bs) /\ Len(bs) \in Nat /\ i \in Nat
  BY <1>1 DEF Flagged, Lists
<1>3. /\ Ordered(freed, top)
      /\ \A start, end : Tiles(bs, start, end) => Tiles(freed, start, end)
  BY <1>1, FlagKeeps
<1>4. /\ joined \in Lists /\ i \in 1 .. Len(joined) /\ joined[i].free
      /\ Ordered(joined, top)
      /\ \A start, end : Tiles(bs, start, end) => Tiles(joined, start, end)
      /\ \A runs : Apart(bs, runs) => ApartBut(joined, runs, {i - 1})
      /\ Used(joined) = Used(bs) \ {bs[i]}
  <2>1. CASE i < Len(freed) /\ freed[i + 1].free
    <3>1. i \in 1 .. Len(freed) - 1 /\ joined = Absorb(freed, i)
      BY <1>2, <2>1
    <3>2. Absorbed(freed, joined, i)
      BY <1>2, <3>1, AbsorbIs
    <3> HIDE DEF joined
    <3>3. /\ Ordered(joined, top)
          /\ \A start, end : Tiles(freed, start, end) => Tiles(joined, start, end)
      BY <1>2, <1>3, <3>1, <3>2, AbsorbKeeps
    <3>4. /\ \A runs : \A X \in SUBSET {i - 1, i} :
                ApartBut(freed, runs, X) => ApartBut(joined, runs, X \ {i})
          /\ Used(joined) = Used(freed)
      BY <1>1, <1>2, <2>1, <3>1, <3>2, AbsorbFree
    <3>5. \A runs : ApartBut(freed, runs, {i - 1, i}) => ApartBut(joined, runs, {i - 1})
      <4> DEFINE X == {i - 1, i}
                 Y == X \ {i}
      <4>1. Y = {i - 1}
        BY <1>2
      <4>2. X \in SUBSET {i - 1, i}
        OBVIOUS
      <4>3. \A runs : ApartBut(freed, runs, X) => ApartBut(joined, runs, Y)
        BY <3>4, <4>2
      <4> QED
        BY <4>1, <4>3
    <3>6. joined \in Lists /\ i \in 1 .. Len(joined) /\ joined[i].free
      <4>1. joined \in Lists /\ Len(joined) = Len(freed) - 1 /\ joined[i].free = freed[i].free
        BY <3>2 DEF Absorbed
      <4> QED
        BY <1>1, <1>2, <3>1, <4>1
    <3> QED
      BY <1>1, <1>3, <3>3, <3>4, <3>5, <3>6
  <2>2. CASE ~(i < Len(freed) /\ freed[i + 1].free)
    <3>1. joined = freed
      BY <2>2
    <3>2. ASSUME NEW runs, Apart(bs, runs) PROVE ApartBut(freed, runs, {i - 1})
      <4> SUFFICES ASSUME NEW j \in 1 .. Len(freed) - 1, j # i - 1 PROVE Meets(freed, runs, j)
        BY DEF ApartBut
      <4>1. CASE j = i
        BY <1>2, <2>2, <4>1 DEF Meets
      <4>2. CASE j # i
        BY <1>1, <3>2, <4>2 DEF ApartBut
      <4> QED
        BY <4>1, <4>2
    <3>3. i \in 1 .. Len(freed)
      BY <1>2
    <3> QED
      BY <1>1, <1>2, <1>3, <3>1, <3>2, <3>3
  <2> QED
    BY <2>1, <2>2
<1> HIDE DEF joined
<1>5. Len(joined) \in Nat
  BY <1>4 DEF Lists
<1>6. /\ ns \in Lists /\ Ordered(ns, top)
      /\ \A start, end : Tiles(bs, start, end) => Tiles(ns, start, end)
      /\ \A runs : Apart(bs, runs) => Apart(ns, runs)
      /\ Used(ns) = Used(bs) \ {bs[i]}
  <2>1. CASE i > 1 /\ joined[i - 1].free
    <3> DEFINE k == i - 1
    <3>1. k \in 1 .. Len(joined) - 1 /\ ns = Absorb(joined, k) /\ k + 1 = i /\ k \in Nat
      BY <1>2, <1>4, <1>5, <2>1
    <3>2. joined[k].free /\ joined[k + 1].free
      BY <1>4, <2>1, <3>1
    <3> HIDE DEF k, ns
    <3>3. Absorbed(joined, ns, k)
      BY <1>4, <3>1, AbsorbIs
    <3>4. /\ Ordered(ns, top)
          /\ \A start, end : Tiles(joined, start, end) => Tiles(ns, start, end)
      BY <1>4, <3>1, <3>3, AbsorbKeeps
    <3>5. /\ \A runs : \A X \in SUBSET {k - 1, k} :
                ApartBut(joined, runs, X) => ApartBut(ns, runs, X \ {k})
          /\ Used(ns) = Used(joined)
      BY <1>4, <3>1, <3>2, <3>3, AbsorbFree
    <3>6. \A runs : ApartBut(joined, runs, {k}) => Apart(ns, runs)
      <4>1. {k} \ {k} = {} /\ {k} \in SUBSET {k - 1, k}
        OBVIOUS
      <4>2. \A runs : ApartBut(joined, runs, {k}) => ApartBut(ns, runs, {})
        BY <3>5, <4>1, Zenon
      <4> QED
        BY <4>2 DEF Apart, ApartBut
    <3>7. ns \in Lists
      BY <3>3 DEF Absorbed
    <3>8. \A runs : Apart(bs, runs) => ApartBut(joined, runs, {k})
      BY <1>4, Zenon DEF k
    <3> QED
      BY <1>4, <3>4, <3>5, <3>6, <3>7, <3>8
  <2>2. CASE ~(i > 1 /\ joined[i - 1].free)
    <3>1. ns = joined
      BY <2>2
    <3>2. ASSUME NEW runs, Apart(bs, runs) PROVE Apart(joined, runs)
      <4> SUFFICES ASSUME NEW j \in 1 .. Len(joined) - 1 PROVE Meets(joined, runs, j)
        BY DEF Apart
      <4>1. CASE j = i - 1
        BY <1>2, <2>2, <4>1 DEF Meets
      <4>2. CASE j # i - 1
        BY <1>4, <3>2, <4>2 DEF ApartBut
      <4> QED
        BY <4>1, <4>2
    <3> QED
      BY <1>4, <3>1, <3>2
  <2> QED
    BY <2>1, <2>2
<1> QED
  BY <1>0, <1>6, Zenon

-----------------------------------------------------------------------------
(***************************************************************************)
(* Growing the heap, and the owners of blocks.                             *)
(***************************************************************************)

LEMMA OrderedBelow ==
    ASSUME NEW bs \in Lists, NEW top \in Nat, NEW higher \in Nat, top <= higher,
           Ordered(bs, top)
    PROVE  Ordered(bs, higher)
<1>1. \A j \in 1 .. Len(bs) : EndOf(bs[j]) \in Nat
  BY EntryIs DEF Lists
<1>2. ASSUME NEW j \in 1 .. Len(bs) PROVE EndOf(bs[j]) <= higher
  <2>1. EndOf(bs[j]) <= top
    BY DEF Ordered
  <2> QED
    BY <1>1, <2>1
<1> QED
  BY <1>2 DEF Ordered

\* A free block behind all the others.
LEMMA AppendKeeps ==
    ASSUME NEW bs \in Lists, NEW x \in Blocks, x.free,
           NEW top \in Nat, Ordered(bs, top), top <= x.addr
    PROVE  /\ Append(bs, x) \in Lists /\ Len(Append(bs, x)) = Len(bs) + 1
           /\ Append(bs, x)[Len(bs) + 1] = x
           /\ Ordered(Append(bs, x), EndOf(x))
           /\ \A start : Tiles(bs, start, x.addr) => Tiles(Append(bs, x), start, EndOf(x))
           /\ \A runs, r : Apart(bs, runs) /\ x.addr = r[1] * PageSize
                 => Apart(Append(bs, x), runs \cup {r})
           /\ Used(Append(bs, x)) = Used(bs)
<1> DEFINE ns == Append(bs, x)
           N == Len(bs)
<1>0. bs \in Seq(Blocks) /\ N \in Nat /\ N > 0
  BY DEF Lists
<1>1. /\ ns \in Seq(Blocks) /\ Len(ns) = N + 1 /\ ns[N + 1] = x
      /\ \A j \in 1 .. N : ns[j] = bs[j]
  BY <1>0
<1>2. x.addr \in Nat /\ EndOf(x) \in Nat /\ x.addr <= EndOf(x)
  <2>1. x.addr \in Nat /\ x.size \in Nat
    BY DEF Blocks
  <2> QED
    BY <2>1, Sizes0 DEF EndOf
<1>3. \A j \in 1 .. N : EndOf(bs[j]) \in Nat
  BY <1>0, EntryIs
<1> HIDE DEF ns, N
<1>4. ns \in Lists
  BY <1>0, <1>1 DEF Lists
<1>5. Ordered(ns, EndOf(x))
  <2>1. ASSUME NEW j \in 1 .. N
        PROVE  EndOf(ns[j]) <= EndOf(x) /\ EndOf(ns[j]) <= x.addr
    <3>1. EndOf(bs[j]) <= top /\ EndOf(bs[j]) \in Nat
      BY <1>3 DEF Ordered, N
    <3> QED
      BY <1>1, <1>2, <3>1
  <2>2. ASSUME NEW j \in 1 .. N + 1 PROVE EndOf(ns[j]) <= EndOf(x)
    <3>1. j \in 1 .. N \/ j = N + 1
      BY <1>0
    <3> QED
      BY <1>1, <1>2, <2>1, <3>1
  <2>3. ASSUME NEW j \in 1 .. N + 1, NEW k \in j + 1 .. N + 1
        PROVE  EndOf(ns[j]) <= ns[k].addr
    <3>1. j \in 1 .. N /\ (k = N + 1 \/ (k \in j + 1 .. N /\ k \in 1 .. N))
      BY <1>0
    <3>2. \A l \in j + 1 .. N : EndOf(bs[j]) <= bs[l].addr
      BY <3>1 DEF Ordered, N
    <3> QED
      BY <1>1, <2>1, <3>1, <3>2
  <2> QED
    BY <1>1, <2>2, <2>3 DEF Ordered
<1>6. ASSUME NEW start, Tiles(bs, start, x.addr) PROVE Tiles(ns, start, EndOf(x))
  <2>1. /\ bs[1].addr = start /\ EndOf(bs[N]) = x.addr
        /\ \A j \in 1 .. N - 1 : EndOf(bs[j]) = bs[j + 1].addr
    BY <1>6 DEF Tiles, N
  <2>2. 1 \in 1 .. N /\ N \in 1 .. N
    BY <1>0
  <2>3. ASSUME NEW j \in 1 .. N PROVE EndOf(ns[j]) = ns[j + 1].addr
    <3>1. CASE j = N
      BY <1>1, <2>1, <2>2, <3>1
    <3>2. CASE j # N
      <4>1. j \in 1 .. N - 1 /\ j + 1 \in 1 .. N
        BY <1>0, <3>2
      <4> QED
        BY <1>1, <2>1, <4>1
    <3> QED
      BY <3>1, <3>2
  <2>4. (N + 1) - 1 = N
    BY <1>0
  <2> QED
    BY <1>1, <2>1, <2>2, <2>3, <2>4 DEF Tiles
<1>7. ASSUME NEW runs, NEW r, Apart(bs, runs), x.addr = r[1] * PageSize
      PROVE  Apart(ns, runs \cup {r})
  <2> SUFFICES ASSUME NEW j \in 1 .. N, ns[j].free, ns[j + 1].free
               PROVE  \E q \in runs \cup {r} : ns[j + 1].addr = q[1] * PageSize
    <3>1. (N + 1) - 1 = N
      BY <1>0
    <3> QED
      BY <1>1, <3>1 DEF Apart, Meets
  <2>1. CASE j = N
    BY <1>1, <1>7, <2>1
  <2>2. CASE j # N
    <3>1. j \in 1 .. N - 1 /\ j + 1 \in 1 .. N
      BY <1>0, <2>2
    <3>2. ns[j] = bs[j] /\ ns[j + 1] = bs[j + 1]
      BY <1>1, <3>1
    <3>3. \E q \in runs : bs[j + 1].addr = q[1] * PageSize
      BY <1>7, <3>1, <3>2 DEF Apart, Meets, N
    <3> QED
      BY <3>2, <3>3
  <2> QED
    BY <2>1, <2>2
<1>8. Used(ns) = Used(bs)
  <2>1. \A j \in 1 .. N + 1 : j \in 1 .. N \/ j = N + 1
    BY <1>0
  <2>2. \A j \in 1 .. N : j \in 1 .. N + 1
    BY <1>0
  <2>3. \A b \in Used(ns) : b \in Used(bs)
    BY <1>1, <2>1 DEF Used, N
  <2>4. \A b \in Used(bs) : b \in Used(ns)
    BY <1>1, <2>2 DEF Used, N
  <2> QED
    BY <2>3, <2>4
<1> QED
  BY <1>1, <1>4, <1>5, <1>6, <1>7, <1>8 DEF ns, N

\* Each allocation has a block in use that holds it, each block in use belongs
\* to an allocation, and no two allocations share a pointer.
Allocations == [ptr : Nat, size : Nat]

Owns(used, lv) ==
    /\ \A a \in lv : \E b \in used : b.addr + HeaderSize = a.ptr /\ b.size >= a.size
    /\ \A b \in used : \E a \in lv : a.ptr = b.addr + HeaderSize
    /\ \A a, c \in lv : a.ptr = c.ptr => a = c

LEMMA OwnsMore ==
    ASSUME NEW used \in SUBSET Blocks, NEW lv \in SUBSET Allocations, Owns(used, lv),
           NEW x \in Blocks, \A b \in used : b.addr # x.addr,
           NEW a \in Allocations, a.ptr = x.addr + HeaderSize, x.size >= a.size
    PROVE  /\ Owns(used \cup {x}, lv \cup {a})
           /\ \A c \in lv : c.ptr # a.ptr
<1>1. ASSUME NEW c \in lv PROVE c.ptr # a.ptr
  <2>1. PICK b \in used : b.addr + HeaderSize = c.ptr
    BY DEF Owns
  <2>2. b.addr \in Nat /\ x.addr \in Nat /\ b.addr # x.addr
    BY DEF Blocks
  <2> QED
    BY <2>1, <2>2, Sizes0
<1> QED
  BY <1>1 DEF Owns

LEMMA OwnsLess ==
    ASSUME NEW used \in SUBSET Blocks, NEW lv \in SUBSET Allocations, Owns(used, lv),
           NEW x \in used, \A b \in used : b.addr = x.addr => b = x,
           NEW a \in lv, a.ptr = x.addr + HeaderSize
    PROVE  Owns(used \ {x}, lv \ {a})
<1>0. \A b \in used : b.addr \in Nat
  BY DEF Blocks
<1>1. ASSUME NEW c \in lv \ {a}
      PROVE  \E b \in used \ {x} : b.addr + HeaderSize = c.ptr /\ b.size >= c.size
  <2>1. PICK b \in used : b.addr + HeaderSize = c.ptr /\ b.size >= c.size
    BY DEF Owns
  <2>2. c.ptr # a.ptr
    BY DEF Owns
  <2> QED
    BY <2>1, <2>2
<1>2. ASSUME NEW b \in used \ {x}
      PROVE  \E c \in lv \ {a} : c.ptr = b.addr + HeaderSize
  <2>1. PICK c \in lv : c.ptr = b.addr + HeaderSize
    BY DEF Owns
  <2>2. b.addr # x.addr
    OBVIOUS
  <2>3. b.addr \in Nat /\ x.addr \in Nat
    BY <1>0
  <2>4. c.ptr # a.ptr
    BY <2>1, <2>2, <2>3, Sizes0
  <2> QED
    BY <2>1, <2>4
<1> QED
  BY <1>1, <1>2 DEF Owns

\* The block found for a pointer is the one its owner has, and kfree takes
\* exactly that one away.
LEMMA FreeOwned ==
    ASSUME NEW bs \in Lists, NEW top \in Nat, Ordered(bs, top),
           NEW lv \in SUBSET Allocations, Owns(Used(bs), lv), NEW a \in lv
    PROVE  /\ BlockAt(bs, a.ptr) \in 1 .. Len(bs)
           /\ Owns(Used(Free(bs, BlockAt(bs, a.ptr))), lv \ {a})
           /\ bs[BlockAt(bs, a.ptr)] \in Used(bs)
           /\ bs[BlockAt(bs, a.ptr)].addr + HeaderSize = a.ptr
<1> DEFINE i == BlockAt(bs, a.ptr)
<1>0. bs \in Seq(Blocks) /\ DOMAIN bs = 1 .. Len(bs)
  BY DEF Lists
<1>1. PICK b \in Used(bs) : b.addr + HeaderSize = a.ptr
  BY DEF Owns
<1>2. PICK k \in 1 .. Len(bs) : bs[k] = b
  BY DEF Used
<1>3. \E j \in DOMAIN bs : bs[j].addr + HeaderSize = a.ptr
  BY <1>0, <1>1, <1>2
<1>4. i \in DOMAIN bs /\ bs[i].addr + HeaderSize = a.ptr
  BY <1>3, Zenon DEF BlockAt
<1> HIDE DEF i
<1>5. i \in 1 .. Len(bs)
  BY <1>0, <1>4
<1>6. bs[i].addr \in Nat /\ bs[k].addr \in Nat
  BY <1>0, <1>5, EntryIs
<1>7. bs[i].addr = bs[k].addr
  BY <1>1, <1>2, <1>4, <1>6, Sizes0
<1>8. i = k
  BY <1>0, <1>5, <1>7, AddressesDiffer
<1>9. bs[i] \in Used(bs) /\ bs[i].addr + HeaderSize = a.ptr
  BY <1>1, <1>2, <1>8
<1>10. \A c \in Used(bs) : c.addr = bs[i].addr => c = bs[i]
  <2> SUFFICES ASSUME NEW c \in Used(bs), c.addr = bs[i].addr PROVE c = bs[i]
    OBVIOUS
  <2>1. PICK j \in 1 .. Len(bs) : bs[j] = c
    BY DEF Used
  <2>2. j = i
    BY <1>0, <1>5, <2>1, AddressesDiffer
  <2> QED
    BY <2>1, <2>2
<1>11. Used(bs) \in SUBSET Blocks
  BY DEF Used
<1>12. Owns(Used(bs) \ {bs[i]}, lv \ {a})
  BY <1>9, <1>10, <1>11, OwnsLess
<1>13. Used(Free(bs, i)) = Used(bs) \ {bs[i]}
  BY <1>5, FreeKeeps
<1> QED
  BY <1>5, <1>9, <1>12, <1>13 DEF i

\* The first block that fits.
LEMMA FirstFits ==
    ASSUME NEW bs \in Lists, NEW size, HasFit(bs, size)
    PROVE  FirstFit(bs, size) \in 1 .. Len(bs) /\ Fits(bs[FirstFit(bs, size)], size)
<1>0. DOMAIN bs = 1 .. Len(bs) /\ Len(bs) \in Nat
  BY DEF Lists
<1> DEFINE S == {i \in 1 .. Len(bs) : Fits(bs[i], size)}
<1>1. S \in SUBSET Nat /\ S # {}
  BY <1>0 DEF HasFit
<1>2. PICK x \in S : \A y \in S : x <= y
  BY <1>1, LeastElement
<1>3. \A j \in 1 .. x - 1 : ~Fits(bs[j], size)
  <2> SUFFICES ASSUME NEW j \in 1 .. x - 1, Fits(bs[j], size) PROVE FALSE
    OBVIOUS
  <2>1. j \in S /\ ~(x <= j)
    BY <1>0, <1>1
  <2> QED
    BY <1>2, <2>1
<1>4. \E i \in DOMAIN bs : Fits(bs[i], size) /\ \A j \in 1 .. i - 1 : ~Fits(bs[j], size)
  BY <1>0, <1>2, <1>3
<1>5. FirstFit(bs, size) \in DOMAIN bs /\ Fits(bs[FirstFit(bs, size)], size)
  BY <1>4, Zenon DEF FirstFit
<1> QED
  BY <1>0, <1>5

-----------------------------------------------------------------------------
(***************************************************************************)
(* The inductive invariant.                                                *)
(***************************************************************************)

\* The runs touch, where the heap has grown to end bytes.
Touch(runs, end) == \A r \in runs : r[1] + r[2] <= FirstPage + (end \div PageSize)

\* What holds of the list whoever owns its blocks.
Sound(bs, end, next, runs) ==
    /\ bs \in Lists
    /\ Ordered(bs, next * PageSize)
    /\ Touch(runs, end) => Tiles(bs, FirstPage * PageSize, (FirstPage * PageSize) + end)
    /\ Apart(bs, runs)

\* The heap has as many bytes as the pages it took, and these are among the
\* pages handed out.
Counted(end, next, runs) ==
    /\ next \in Nat
    /\ \E k \in Nat : end = k * PageSize /\ FirstPage + k <= next
    /\ \A r \in runs : r \in Nat \X Nat /\ r[1] + r[2] <= next

HeapInv ==
    /\ Counted(heapEnd, pmmNext, heapRuns)
    /\ Sound(blocks, heapEnd, pmmNext, heapRuns)
    /\ live \in SUBSET Allocations
    /\ Owns(Used(blocks), live)

\* heap_expand asks for enough: the new block holds the request.
LEMMA RunFits ==
    ASSUME NEW size \in Nat, NEW next \in Nat
    PROVE  /\ Grow(size) \in Nat /\ Grow(size) > 0
           /\ RunBlock(next, Grow(size)) \in Blocks
           /\ RunBlock(next, Grow(size)).addr = next * PageSize
           /\ EndOf(RunBlock(next, Grow(size))) = (next + Grow(size)) * PageSize
           /\ Fits(RunBlock(next, Grow(size)), size)
<1> DEFINE g == Grow(size)
           n == size + Overhead + PageSize
<1>1. PageSize \in Nat \ {0} /\ n \in Nat
  BY Sizes0
<1>2. /\ AlignUp(n, PageSize) \in Nat /\ AlignUp(n, PageSize) >= n
      /\ AlignUp(n, PageSize) \div PageSize \in Nat
      /\ (AlignUp(n, PageSize) \div PageSize) * PageSize = AlignUp(n, PageSize)
  BY <1>1, RoundedUp
<1>3. g = AlignUp(n, PageSize) \div PageSize
  BY DEF Grow, PagesFor
<1> HIDE DEF g
<1>4. g \in Nat /\ g * PageSize \in Nat /\ g * PageSize >= size + Overhead + PageSize
  BY <1>2, <1>3
<1>5. g > 0
  <2>1. g # 0
    <3>1. 0 * PageSize = 0
      BY Sizes0
    <3> QED
      BY <1>4, <3>1, Sizes0
  <2> QED
    BY <1>4, <2>1
<1> DEFINE a == next * PageSize
           z == (g * PageSize) - Overhead
<1>6. a \in Nat
  BY Sizes0
<1>7. z \in Nat /\ z >= size + Overhead
  <2> DEFINE m == g * PageSize
  <2>1. m \in Nat /\ m >= size + Overhead + PageSize
    BY <1>4
  <2> HIDE DEF m
  <2>2. m - Overhead \in Nat /\ m - Overhead >= size + Overhead
    BY <2>1, Sizes0
  <2> QED
    BY <2>2 DEF m
<1>8. RunBlock(next, g) = Block(a, z, TRUE)
  BY DEF RunBlock
<1> HIDE DEF a, z
<1>9. /\ Block(a, z, TRUE) \in Blocks /\ Block(a, z, TRUE).addr = a
      /\ Block(a, z, TRUE).size = z /\ Block(a, z, TRUE).free = TRUE
  BY <1>6, <1>7, BlockIs
<1>10. EndOf(RunBlock(next, g)) = a + Overhead + z
  BY <1>8, <1>9 DEF EndOf
<1>11. a + Overhead + z = (next + g) * PageSize
  <2> DEFINE m == g * PageSize
  <2>1. (next + g) * PageSize = (next * PageSize) + m
    BY <1>4, Sizes0
  <2>2. m \in Nat
    BY <1>4
  <2>3. z = m - Overhead
    BY DEF z
  <2> HIDE DEF m
  <2>4. a + Overhead + z = a + m
    BY <1>6, <2>2, <2>3, Sizes0
  <2> QED
    BY <2>1, <2>4 DEF a
<1> QED
  BY <1>4, <1>5, <1>7, <1>8, <1>9, <1>10, <1>11 DEF g, a, Fits

\* If the runs touch after the heap has grown they touched before, and the new
\* run begins where the heap ended.
LEMMA TouchBefore ==
    ASSUME NEW end, NEW next, NEW runs, Counted(end, next, runs),
           NEW g \in Nat, Touch(runs \cup {<<next, g>>}, end + (g * PageSize))
    PROVE  Touch(runs, end) /\ next * PageSize = (FirstPage * PageSize) + end
<1>1. PICK k \in Nat : end = k * PageSize /\ FirstPage + k <= next
  BY DEF Counted
<1>2. next \in Nat /\ \A r \in runs : r \in Nat \X Nat /\ r[1] + r[2] <= next
  BY DEF Counted
<1>3. end \div PageSize = k
  BY <1>1, Sizes0
<1>4. (end + (g * PageSize)) \div PageSize = k + g
  <2>1. end + (g * PageSize) = (k + g) * PageSize
    BY <1>1, Sizes0
  <2>2. ((k + g) * PageSize) \div PageSize = k + g
    <3> DEFINE m == k + g
    <3>1. m \in Nat
      OBVIOUS
    <3> HIDE DEF m
    <3>2. (m * PageSize) \div PageSize = m
      BY <3>1, Sizes0
    <3> QED
      BY <3>2 DEF m
  <2> QED
    BY <2>1, <2>2
<1>5. next + g <= FirstPage + (k + g)
  <2>1. <<next, g>>[1] + <<next, g>>[2] <= FirstPage + ((end + (g * PageSize)) \div PageSize)
    BY Zenon DEF Touch
  <2>2. <<next, g>>[1] = next /\ <<next, g>>[2] = g
    OBVIOUS
  <2> QED
    BY <1>4, <2>1, <2>2
<1>6. FirstPage \in Nat
  BY DEF FirstPage
<1>7. next = FirstPage + k
  BY <1>1, <1>2, <1>5, <1>6
<1>8. Touch(runs, end)
  BY <1>2, <1>3, <1>7 DEF Touch
<1>9. (FirstPage + k) * PageSize = (FirstPage * PageSize) + (k * PageSize)
  BY <1>6, Sizes0
<1> QED
  BY <1>1, <1>7, <1>8, <1>9

\* The list in which a request is placed, grown or not.
LEMMA SearchedIsSound ==
    ASSUME HeapInv, NEW size \in Nat, Allocate(size)
    PROVE  /\ Counted(heapEnd', pmmNext', heapRuns')
           /\ Sound(Searched(size), heapEnd', pmmNext', heapRuns')
           /\ Used(Searched(size)) = Used(blocks)
           /\ HasFit(Searched(size), size)
<1>0. pmmNext \in Nat /\ blocks \in Lists
  BY DEF HeapInv, Counted, Sound
<1>1. CASE HasFit(blocks, size)
  <2>1. UNCHANGED <<heapEnd, pmmNext, heapRuns>> /\ Searched(size) = blocks
    BY <1>1, Zenon DEF Allocate, Searched
  <2>2. heapEnd' = heapEnd /\ pmmNext' = pmmNext /\ heapRuns' = heapRuns
    BY <2>1
  <2> QED
    BY <1>1, <2>1, <2>2 DEF HeapInv
<1>2. CASE ~HasFit(blocks, size)
  <2> DEFINE g == Grow(size)
             x == RunBlock(pmmNext, g)
             bs == Append(blocks, x)
             run == <<pmmNext, g>>
             top == pmmNext * PageSize
  <2>1. /\ heapEnd' = heapEnd + (g * PageSize)
        /\ pmmNext' = pmmNext + g
        /\ heapRuns' = heapRuns \cup {run}
    BY <1>2, Zenon DEF Allocate
  <2>2. Searched(size) = bs
    BY <1>2, Zenon DEF Searched
  <2>3. /\ g \in Nat /\ g > 0 /\ x \in Blocks /\ x.addr = pmmNext * PageSize
        /\ EndOf(x) = (pmmNext + g) * PageSize /\ Fits(x, size)
    BY <1>0, RunFits
  <2>4. x.free /\ top \in Nat /\ top <= x.addr /\ Ordered(blocks, top)
    BY <1>0, <2>3, Sizes0 DEF Fits, HeapInv, Sound
  <2>5. run[1] = pmmNext /\ run[2] = g /\ run \in Nat \X Nat
    BY <1>0, <2>3
  <2> HIDE DEF g, x, run, top
  <2>6. /\ bs \in Lists /\ Len(bs) = Len(blocks) + 1 /\ bs[Len(blocks) + 1] = x
        /\ Ordered(bs, EndOf(x))
        /\ \A start : Tiles(blocks, start, x.addr) => Tiles(bs, start, EndOf(x))
        /\ \A runs, r : Apart(blocks, runs) /\ x.addr = r[1] * PageSize
              => Apart(bs, runs \cup {r})
        /\ Used(bs) = Used(blocks)
    BY <1>0, <2>3, <2>4, AppendKeeps
  <2> HIDE DEF bs
  <2>7. HasFit(bs, size)
    <3>1. Len(blocks) + 1 \in DOMAIN bs
      BY <1>0, <2>6 DEF Lists
    <3> QED
      BY <2>3, <2>6, <3>1 DEF HasFit
  <2>8. Apart(bs, heapRuns')
    <3>1. x.addr = run[1] * PageSize
      BY <2>3, <2>5
    <3>2. Apart(blocks, heapRuns)
      BY DEF HeapInv, Sound
    <3> QED
      BY <2>1, <2>6, <3>1, <3>2
  <2>9. Ordered(bs, pmmNext' * PageSize)
    BY <2>1, <2>3, <2>6
  <2>10. Counted(heapEnd', pmmNext', heapRuns')
    <3>1. PICK k \in Nat : heapEnd = k * PageSize /\ FirstPage + k <= pmmNext
      BY DEF HeapInv, Counted
    <3>2. heapEnd' = (k + g) * PageSize
      BY <2>1, <2>3, <3>1, Sizes0
    <3>3. k + g \in Nat /\ FirstPage + (k + g) <= pmmNext' /\ pmmNext' \in Nat
      BY <1>0, <2>1, <2>3, <3>1 DEF FirstPage
    <3>4. ASSUME NEW r \in heapRuns' PROVE r \in Nat \X Nat /\ r[1] + r[2] <= pmmNext'
      <4>1. CASE r = run
        BY <1>0, <2>1, <2>3, <2>5, <4>1
      <4>2. CASE r \in heapRuns
        <5>1. r \in Nat \X Nat /\ r[1] + r[2] <= pmmNext
          BY <4>2 DEF HeapInv, Counted
        <5>2. r[1] \in Nat /\ r[2] \in Nat
          BY <5>1
        <5> QED
          BY <1>0, <2>1, <2>3, <5>1, <5>2
      <4> QED
        BY <2>1, <4>1, <4>2
    <3> QED
      BY <3>2, <3>3, <3>4 DEF Counted
  <2>11. ASSUME Touch(heapRuns', heapEnd')
         PROVE  Tiles(bs, FirstPage * PageSize, (FirstPage * PageSize) + heapEnd')
    <3>1. Touch(heapRuns, heapEnd) /\ pmmNext * PageSize = (FirstPage * PageSize) + heapEnd
      <4>1. Touch(heapRuns \cup {<<pmmNext, g>>}, heapEnd + (g * PageSize))
        BY <2>1, <2>11, Zenon DEF run
      <4>2. Counted(heapEnd, pmmNext, heapRuns)
        BY DEF HeapInv
      <4> QED
        BY <2>3, <4>1, <4>2, TouchBefore
    <3>2. Tiles(blocks, FirstPage * PageSize, x.addr)
      BY <2>3, <3>1 DEF HeapInv, Sound
    <3>3. EndOf(x) = (FirstPage * PageSize) + heapEnd'
      <4>1. PICK k \in Nat : heapEnd = k * PageSize
        BY DEF HeapInv, Counted
      <4>2. /\ (pmmNext + g) * PageSize = (pmmNext * PageSize) + (g * PageSize)
            /\ g * PageSize \in Nat /\ heapEnd \in Nat /\ FirstPage * PageSize \in Nat
        BY <1>0, <2>3, <4>1, Sizes0 DEF FirstPage
      <4> DEFINE m == g * PageSize
                 f == FirstPage * PageSize
      <4>3. EndOf(x) = (f + heapEnd) + m /\ heapEnd' = heapEnd + m /\ m \in Nat /\ f \in Nat
        BY <2>1, <2>3, <3>1, <4>2
      <4> HIDE DEF m, f
      <4>4. EndOf(x) = f + heapEnd'
        BY <4>2, <4>3
      <4> QED
        BY <4>4 DEF f
    <3> QED
      BY <2>6, <3>2, <3>3
  <2>12. Sound(bs, heapEnd', pmmNext', heapRuns')
    BY <2>6, <2>8, <2>9, <2>11 DEF Sound
  <2> QED
    BY <2>2, <2>6, <2>7, <2>10, <2>12
<1> QED
  BY <1>1, <1>2

\* The list and the owners after a request of n bytes has been placed.
LEMMA PlacedIsSound ==
    ASSUME HeapInv, NEW n \in Nat, NEW size \in Nat, size >= n, Allocate(size)
    PROVE  LET bs  == Searched(size)
               new == Place(bs, FirstFit(bs, size), size)
               got == [ptr |-> Pointer(bs, size), size |-> n]
           IN  /\ Counted(heapEnd', pmmNext', heapRuns')
               /\ Sound(new, heapEnd', pmmNext', heapRuns')
               /\ got \in Allocations
               /\ Owns(Used(new), live \cup {got})
               /\ \A c \in live : c.ptr # got.ptr
<1> DEFINE bs == Searched(size)
           i == FirstFit(bs, size)
           new == Place(bs, i, size)
           got == [ptr |-> Pointer(bs, size), size |-> n]
           top == pmmNext' * PageSize
<1>1. /\ Counted(heapEnd', pmmNext', heapRuns')
      /\ Sound(bs, heapEnd', pmmNext', heapRuns')
      /\ Used(bs) = Used(blocks)
      /\ HasFit(bs, size)
  BY SearchedIsSound
<1> HIDE DEF bs
<1>2. bs \in Lists /\ bs \in Seq(Blocks)
  BY <1>1 DEF Sound, Lists
<1>3. i \in 1 .. Len(bs) /\ Fits(bs[i], size)
  BY <1>1, <1>2, FirstFits
<1>4. bs[i].free /\ bs[i].size >= size + Overhead
  BY <1>3 DEF Fits
<1>5. Pointer(bs, size) = bs[i].addr + HeaderSize
  BY DEF Pointer
<1> HIDE DEF i
<1>6. /\ new \in Lists
      /\ \A t \in Nat : Ordered(bs, t) => Ordered(new, t)
      /\ \A start, end : Tiles(bs, start, end) => Tiles(new, start, end)
      /\ \A runs : Apart(bs, runs) => Apart(new, runs)
      /\ \E x \in Blocks : /\ x.addr = bs[i].addr /\ x.size >= size /\ ~x.free
                           /\ Used(new) = Used(bs) \cup {x}
  BY <1>2, <1>3, <1>4, PlaceKeeps
<1> HIDE DEF new
<1>7. pmmNext' \in Nat /\ top \in Nat
  <2>1. pmmNext' \in Nat
    BY <1>1, Zenon DEF Counted
  <2>2. \A k \in Nat : k * PageSize \in Nat
    BY Sizes0
  <2> QED
    BY <2>1, <2>2, Zenon
<1>8. Ordered(bs, top)
  BY <1>1 DEF Sound
<1>9. Sound(new, heapEnd', pmmNext', heapRuns')
  BY <1>1, <1>6, <1>7, <1>8 DEF Sound
<1>10. PICK x \in Blocks : /\ x.addr = bs[i].addr /\ x.size >= size
                           /\ Used(new) = Used(blocks) \cup {x}
  BY <1>1, <1>6
<1>11. \A b \in Used(blocks) : b.addr # x.addr
  <2> SUFFICES ASSUME NEW b \in Used(bs), b.addr = x.addr PROVE FALSE
    BY <1>1
  <2>1. PICK j \in 1 .. Len(bs) : bs[j] = b
    BY DEF Used
  <2>2. j = i
    BY <1>2, <1>3, <1>7, <1>8, <1>10, <2>1, AddressesDiffer
  <2> QED
    BY <1>4, <2>1, <2>2 DEF Used
<1>12. bs[i].addr \in Nat /\ x.size \in Nat
  BY <1>2, <1>3, EntryIs DEF Blocks
<1>13. /\ got \in Allocations /\ got.ptr = x.addr + HeaderSize /\ got.size = n
  <2> DEFINE p == Pointer(bs, size)
  <2>1. p \in Nat /\ p = x.addr + HeaderSize
    BY <1>5, <1>10, <1>12, Sizes0
  <2> HIDE DEF p
  <2>2. [ptr |-> p, size |-> n] \in Allocations
    BY <2>1 DEF Allocations
  <2> QED
    BY <2>1, <2>2 DEF p
<1>14. x.size >= got.size
  BY <1>10, <1>12, <1>13
<1> HIDE DEF got
<1>15. /\ Owns(Used(blocks) \cup {x}, live \cup {got})
       /\ \A c \in live : c.ptr # got.ptr
  <2>1. /\ Used(blocks) \in SUBSET Blocks /\ live \in SUBSET Allocations
        /\ Owns(Used(blocks), live)
    BY DEF HeapInv, Used
  <2> QED
    BY <1>11, <1>13, <1>14, <2>1, OwnsMore
<1> QED
  BY <1>1, <1>9, <1>10, <1>13, <1>15, Zenon DEF bs, i, new, got

\* Giving a block back, in a list that is sound.
LEMMA FreedIsSound ==
    ASSUME NEW bs, NEW end, NEW next, NEW runs, Counted(end, next, runs),
           Sound(bs, end, next, runs),
           NEW lv \in SUBSET Allocations, Owns(Used(bs), lv), NEW a \in lv
    PROVE  /\ Sound(Free(bs, BlockAt(bs, a.ptr)), end, next, runs)
           /\ Owns(Used(Free(bs, BlockAt(bs, a.ptr))), lv \ {a})
<1> DEFINE top == next * PageSize
           i == BlockAt(bs, a.ptr)
           ns == Free(bs, i)
<1>1. bs \in Lists /\ top \in Nat /\ Ordered(bs, top)
  BY Sizes0 DEF Counted, Sound
<1>2. i \in 1 .. Len(bs) /\ Owns(Used(ns), lv \ {a})
  BY <1>1, FreeOwned
<1> HIDE DEF i
<1>3. /\ ns \in Lists /\ Ordered(ns, top)
      /\ \A s, e : Tiles(bs, s, e) => Tiles(ns, s, e)
      /\ \A rs : Apart(bs, rs) => Apart(ns, rs)
  BY <1>1, <1>2, FreeKeeps
<1> HIDE DEF ns
<1>4. Sound(ns, end, next, runs)
  BY <1>3 DEF Sound
<1> QED
  BY <1>2, <1>4 DEF ns, i

-----------------------------------------------------------------------------
(***************************************************************************)
(* The operations.                                                         *)
(***************************************************************************)

LEMMA RequestIs ==
    ASSUME NEW n \in Sizes
    PROVE  n \in Nat /\ AlignUp(n, 16) \in Nat /\ AlignUp(n, 16) >= n
<1>1. n \in Nat /\ 16 \in Nat \ {0}
  BY KHeapAssumption
<1> QED
  BY <1>1, RoundedUp

LEMMA KmallocInv ==
    ASSUME HeapInv, NEW n \in Sizes, kmalloc(n)
    PROVE  HeapInv'
<1> DEFINE size == AlignUp(n, 16)
           bs == Searched(size)
           new == Place(bs, FirstFit(bs, size), size)
           got == [ptr |-> Pointer(bs, size), size |-> n]
<1>1. blocks' = new /\ live' = live \cup {got} /\ Allocate(size)
  BY Zenon DEF kmalloc
<1>2. n \in Nat /\ size \in Nat /\ size >= n
  BY RequestIs
<1> HIDE DEF size
<1>3. /\ Counted(heapEnd', pmmNext', heapRuns')
      /\ Sound(new, heapEnd', pmmNext', heapRuns')
      /\ got \in Allocations
      /\ Owns(Used(new), live \cup {got})
  BY <1>1, <1>2, PlacedIsSound
<1> HIDE DEF new, got
<1>4. live' \in SUBSET Allocations
  BY <1>1, <1>3 DEF HeapInv
<1> QED
  BY <1>1, <1>3, <1>4 DEF HeapInv

LEMMA KreallocInv ==
    ASSUME HeapInv, NEW a \in live, NEW n \in Sizes, krealloc(a, n)
    PROVE  HeapInv'
<1> DEFINE size == AlignUp(n, 16)
           bs == Searched(size)
           new == Place(bs, FirstFit(bs, size), size)
           got == [ptr |-> Pointer(bs, size), size |-> n]
<1>1. /\ blocks' = Free(new, BlockAt(new, a.ptr))
      /\ live' = (live \ {a}) \cup {got} /\ Allocate(size)
  BY Zenon DEF krealloc
<1>2. n \in Nat /\ size \in Nat /\ size >= n
  BY RequestIs
<1> HIDE DEF size
<1>3. /\ Counted(heapEnd', pmmNext', heapRuns')
      /\ Sound(new, heapEnd', pmmNext', heapRuns')
      /\ got \in Allocations
      /\ Owns(Used(new), live \cup {got})
      /\ \A c \in live : c.ptr # got.ptr
  BY <1>1, <1>2, PlacedIsSound
<1> HIDE DEF new, got
<1>4. live \in SUBSET Allocations
  BY DEF HeapInv
<1>5. a # got
  BY <1>3
<1>6. (live \cup {got}) \ {a} = live' /\ live \cup {got} \in SUBSET Allocations /\ a \in live \cup {got}
  BY <1>1, <1>3, <1>4, <1>5
<1> DEFINE lv == live \cup {got}
<1> HIDE DEF lv
<1>7. /\ Sound(Free(new, BlockAt(new, a.ptr)), heapEnd', pmmNext', heapRuns')
      /\ Owns(Used(Free(new, BlockAt(new, a.ptr))), lv \ {a})
  <2>1. lv \in SUBSET Allocations /\ a \in lv /\ Owns(Used(new), lv)
    BY <1>3, <1>6 DEF lv
  <2> QED
    BY <1>3, <2>1, FreedIsSound
<1>8. live' = lv \ {a} /\ live' \in SUBSET Allocations
  BY <1>6 DEF lv
<1> QED
  BY <1>1, <1>3, <1>7, <1>8 DEF HeapInv

LEMMA KfreeInv ==
    ASSUME HeapInv, NEW a \in live, kfree(a)
    PROVE  HeapInv'
<1>1. /\ blocks' = Free(blocks, BlockAt(blocks, a.ptr)) /\ live' = live \ {a}
      /\ UNCHANGED <<heapEnd, pmmNext, heapRuns>>
  BY Zenon DEF kfree
<1>2. heapEnd' = heapEnd /\ pmmNext' = pmmNext /\ heapRuns' = heapRuns
  BY <1>1
<1>3. /\ Sound(Free(blocks, BlockAt(blocks, a.ptr)), heapEnd, pmmNext, heapRuns)
      /\ Owns(Used(Free(blocks, BlockAt(blocks, a.ptr))), live \ {a})
  <2>1. /\ Counted(heapEnd, pmmNext, heapRuns) /\ Sound(blocks, heapEnd, pmmNext, heapRuns)
        /\ live \in SUBSET Allocations /\ Owns(Used(blocks), live)
    BY DEF HeapInv
  <2> QED
    BY <2>1, FreedIsSound
<1> QED
  BY <1>1, <1>2, <1>3 DEF HeapInv

\* A smaller size, or one that the block holds anyway: the pointer stays.
LEMMA ReallocInPlaceInv ==
    ASSUME HeapInv, NEW a \in live, NEW n \in Sizes, krealloc_in_place(a, n)
    PROVE  HeapInv'
<1> DEFINE got == [ptr |-> a.ptr, size |-> n]
           i == BlockAt(blocks, a.ptr)
<1>1. /\ blocks[i].size >= n /\ live' = (live \ {a}) \cup {got}
      /\ UNCHANGED <<blocks, heapEnd, pmmNext, heapRuns>>
  BY Zenon DEF krealloc_in_place
<1>2. blocks' = blocks /\ heapEnd' = heapEnd /\ pmmNext' = pmmNext /\ heapRuns' = heapRuns
  BY <1>1
<1>3. live \in SUBSET Allocations /\ Owns(Used(blocks), live) /\ blocks \in Lists
  BY DEF HeapInv, Sound
<1>4. blocks[i] \in Used(blocks) /\ blocks[i].addr + HeaderSize = a.ptr
  <2>1. pmmNext * PageSize \in Nat /\ Ordered(blocks, pmmNext * PageSize)
    BY Sizes0 DEF HeapInv, Sound, Counted
  <2> QED
    BY <1>3, <2>1, FreeOwned
<1> HIDE DEF i
<1>5. got \in Allocations /\ got.ptr = a.ptr /\ got.size = n
  <2>1. a.ptr \in Nat /\ n \in Nat
    BY <1>3, RequestIs DEF Allocations
  <2> QED
    BY <2>1 DEF Allocations
<1> HIDE DEF got
<1>6. Owns(Used(blocks), live')
  <2>1. ASSUME NEW c \in live'
        PROVE  \E b \in Used(blocks) : b.addr + HeaderSize = c.ptr /\ b.size >= c.size
    <3>1. CASE c = got
      BY <1>1, <1>4, <1>5, <3>1
    <3>2. CASE c \in live
      BY <1>3, <3>2 DEF Owns
    <3> QED
      BY <1>1, <3>1, <3>2
  <2>2. ASSUME NEW b \in Used(blocks)
        PROVE  \E c \in live' : c.ptr = b.addr + HeaderSize
    <3>1. PICK c \in live : c.ptr = b.addr + HeaderSize
      BY <1>3 DEF Owns
    <3>2. CASE c = a
      BY <1>1, <1>5, <3>1, <3>2
    <3>3. CASE c # a
      BY <1>1, <3>1, <3>3
    <3> QED
      BY <3>2, <3>3
  <2>3. ASSUME NEW c \in live', NEW d \in live', c.ptr = d.ptr PROVE c = d
    <3>1. \A x, y \in live : x.ptr = y.ptr => x = y
      BY <1>3 DEF Owns
    <3> QED
      BY <1>1, <1>5, <2>3, <3>1
  <2> QED
    BY <2>1, <2>2, <2>3 DEF Owns
<1>7. live' \in SUBSET Allocations
  BY <1>1, <1>3, <1>5
<1> QED
  BY <1>2, <1>6, <1>7 DEF HeapInv

\* Pages handed out to others, or to a heap that may not grow.
LEMMA PagesGoneInv ==
    ASSUME HeapInv, NEW g \in Nat, pmmNext' = pmmNext + g,
           UNCHANGED <<blocks, heapEnd, heapRuns, live>>
    PROVE  HeapInv'
<1>1. blocks' = blocks /\ heapEnd' = heapEnd /\ heapRuns' = heapRuns /\ live' = live
  OBVIOUS
<1>2. pmmNext \in Nat /\ pmmNext' \in Nat /\ pmmNext <= pmmNext' /\ blocks \in Lists
  BY DEF HeapInv, Counted, Sound
<1>3. Counted(heapEnd, pmmNext', heapRuns)
  <2>1. PICK k \in Nat : heapEnd = k * PageSize /\ FirstPage + k <= pmmNext
    BY DEF HeapInv, Counted
  <2>2. FirstPage + k <= pmmNext'
    BY <1>2, <2>1 DEF FirstPage
  <2>3. ASSUME NEW r \in heapRuns PROVE r \in Nat \X Nat /\ r[1] + r[2] <= pmmNext'
    <3>1. r \in Nat \X Nat /\ r[1] + r[2] <= pmmNext
      BY DEF HeapInv, Counted
    <3>2. r[1] \in Nat /\ r[2] \in Nat
      BY <3>1
    <3> QED
      BY <1>2, <3>1, <3>2
  <2> QED
    BY <1>2, <2>1, <2>2, <2>3 DEF Counted
<1>4. Ordered(blocks, pmmNext' * PageSize)
  <2> DEFINE t == pmmNext * PageSize
             h == pmmNext' * PageSize
  <2>1. t \in Nat /\ h \in Nat /\ t <= h
    BY <1>2, Sizes0
  <2>2. Ordered(blocks, t)
    BY DEF HeapInv, Sound
  <2> HIDE DEF t, h
  <2>3. Ordered(blocks, h)
    BY <1>2, <2>1, <2>2, OrderedBelow
  <2> QED
    BY <2>3 DEF h
<1>5. Sound(blocks, heapEnd, pmmNext', heapRuns)
  BY <1>4 DEF HeapInv, Sound
<1> QED
  BY <1>1, <1>3, <1>5 DEF HeapInv

-----------------------------------------------------------------------------
(***************************************************************************)
(* The invariant of the specification.                                     *)
(***************************************************************************)

LEMMA HeapInitInv == Init => HeapInv
<1> SUFFICES ASSUME Init PROVE HeapInv
  OBVIOUS
<1> DEFINE p == PagesFor(HeapMin)
           m == p * PageSize
           a == FirstPage * PageSize
           b == RunBlock(FirstPage, p)
<1>1. /\ blocks = <<b>> /\ heapEnd = m /\ pmmNext = FirstPage + p
      /\ heapRuns = {<<FirstPage, p>>} /\ live = {}
  BY Zenon DEF Init
<1>2. p \in Nat /\ m >= HeapMin
  <2>1. HeapMin \in Nat /\ PageSize \in Nat \ {0}
    BY KHeapAssumption, Sizes0
  <2>2. /\ AlignUp(HeapMin, PageSize) \in Nat /\ AlignUp(HeapMin, PageSize) >= HeapMin
        /\ AlignUp(HeapMin, PageSize) \div PageSize \in Nat
        /\ (AlignUp(HeapMin, PageSize) \div PageSize) * PageSize
             = AlignUp(HeapMin, PageSize)
    BY <2>1, RoundedUp
  <2> QED
    BY <2>2 DEF PagesFor
<1>3. HeapMin \in Nat /\ HeapMin > 0
  BY KHeapAssumption
<1> HIDE DEF p
<1>4. p > 0
  <2> SUFFICES ASSUME p = 0 PROVE FALSE
    BY <1>2
  <2>1. m = 0
    BY Sizes0
  <2> HIDE DEF m
  <2> QED
    BY <1>2, <1>3, <2>1
<1>5. m \in Nat /\ m >= PageSize
  <2>1. PICK h \in Nat : p = h + 1
    <3>1. p - 1 \in Nat /\ p = (p - 1) + 1
      BY <1>2, <1>4
    <3> QED
      BY <3>1
  <2>2. m = (h * PageSize) + PageSize /\ h * PageSize \in Nat
    BY <2>1, Sizes0
  <2> HIDE DEF m
  <2> QED
    BY <2>2, Sizes0
<1>6. FirstPage \in Nat /\ a \in Nat
  BY Sizes0 DEF FirstPage
<1>7. b \in Blocks /\ b.addr = a /\ EndOf(b) = a + m /\ b.free
  <2> DEFINE z == m - Overhead
  <2>1. z \in Nat /\ Overhead + z = m
    BY <1>5, Sizes0
  <2>2. b = Block(a, z, TRUE)
    BY DEF RunBlock
  <2> HIDE DEF b, z, a, m
  <2>3. b \in Blocks /\ b.addr = a /\ b.size = z /\ b.free
    BY <1>6, <2>1, <2>2, BlockIs
  <2>4. a + Overhead + z = a + m
    BY <1>5, <1>6, <2>1, Sizes0
  <2> QED
    BY <2>3, <2>4 DEF EndOf
<1>8. (FirstPage + p) * PageSize = a + m
  BY <1>2, <1>6, Sizes0
<1>9. Counted(m, FirstPage + p, {<<FirstPage, p>>})
  <2>1. <<FirstPage, p>> \in Nat \X Nat /\ <<FirstPage, p>>[1] + <<FirstPage, p>>[2] <= FirstPage + p
    BY <1>2, <1>6
  <2>2. FirstPage + p \in Nat
    BY <1>2, <1>6
  <2> QED
    BY <1>2, <2>1, <2>2 DEF Counted
<1> HIDE DEF m, a, b
<1>10. <<b>> \in Lists /\ Len(<<b>>) = 1 /\ <<b>>[1] = b
  BY <1>7 DEF Lists
<1> DEFINE bs == <<b>>
<1> HIDE DEF bs
<1>11. bs \in Lists /\ Len(bs) = 1 /\ bs[1] = b
  BY <1>10 DEF bs
<1>12. Ordered(bs, a + m)
  BY <1>5, <1>6, <1>7, <1>11 DEF Ordered
<1>13. Tiles(bs, a, a + m)
  BY <1>7, <1>11 DEF Tiles
<1>14. Apart(bs, heapRuns)
  BY <1>11 DEF Apart
<1>15. Used(bs) = {}
  BY <1>7, <1>11 DEF Used
<1>16. Sound(bs, m, FirstPage + p, heapRuns)
  BY <1>8, <1>11, <1>12, <1>13, <1>14 DEF Sound, a
<1>17. Owns(Used(bs), {})
  BY <1>15 DEF Owns
<1> QED
  BY <1>1, <1>9, <1>16, <1>17 DEF HeapInv, bs

LEMMA HeapNext == HeapInv /\ [Next]_vars => HeapInv'
<1> SUFFICES ASSUME HeapInv, [Next]_vars PROVE HeapInv'
  OBVIOUS
<1>1. ASSUME NEW n \in Sizes, kmalloc(n) PROVE HeapInv'
  BY <1>1, KmallocInv
<1>2. ASSUME NEW n \in Sizes, kmalloc_fails(n) PROVE HeapInv'
  <2> DEFINE size == AlignUp(n, 16)
  <2>1. /\ pmmNext' = pmmNext + Grow(size)
        /\ UNCHANGED <<blocks, heapEnd, heapRuns, live>>
    BY <1>2, Zenon DEF kmalloc_fails
  <2>2. size \in Nat
    BY RequestIs
  <2> HIDE DEF size
  <2>3. Grow(size) \in Nat
    BY <2>2, RunFits
  <2> QED
    BY <2>1, <2>3, PagesGoneInv
<1>3. ASSUME NEW a \in live, kfree(a) PROVE HeapInv'
  BY <1>3, KfreeInv
<1>4. ASSUME NEW a \in live, NEW n \in Sizes, krealloc(a, n) PROVE HeapInv'
  BY <1>4, KreallocInv
<1>5. ASSUME NEW a \in live, NEW n \in Sizes, krealloc_in_place(a, n) PROVE HeapInv'
  BY <1>5, ReallocInPlaceInv
<1>6. ASSUME NEW pages \in OtherClients, other_client(pages) PROVE HeapInv'
  <2>1. pages \in Nat
    BY KHeapAssumption
  <2> QED
    BY <1>6, <2>1, PagesGoneInv DEF other_client
<1>7. ASSUME UNCHANGED vars PROVE HeapInv'
  BY <1>7 DEF vars, HeapInv, Counted, Sound
<1> QED
  BY <1>1, <1>2, <1>3, <1>4, <1>5, <1>6, <1>7, Zenon DEF Next

\* The invariant holds in every state of the heap.
LEMMA HeapAlways == Spec => []HeapInv
  BY HeapInitInv, HeapNext, PTL DEF Spec

-----------------------------------------------------------------------------
(***************************************************************************)
(* The properties.                                                         *)
(***************************************************************************)

\* kmalloc, kfree, krealloc: the blocks tile the heap, from its first page to
\* heap_end, as long as its runs touch.
THEOREM HeapIsTiled == Spec => []BlocksTile
<1>1. HeapInv => BlocksTile
  <2> SUFFICES ASSUME HeapInv, HeapContiguous
               PROVE  /\ blocks[1].addr = FirstPage * PageSize
                      /\ \A i \in 1 .. Len(blocks) - 1 :
                            EndOf(blocks[i]) = blocks[i + 1].addr
                      /\ EndOf(Last(blocks)) = FirstPage * PageSize + heapEnd
    BY Zenon DEF BlocksTile
  <2>1. Touch(heapRuns, heapEnd)
    BY Zenon DEF HeapContiguous, Touch
  <2>2. Tiles(blocks, FirstPage * PageSize, (FirstPage * PageSize) + heapEnd)
    BY <2>1, Zenon DEF HeapInv, Sound
  <2>3. Last(blocks) = blocks[Len(blocks)]
    BY Zenon DEF Last
  <2> QED
    BY <2>2, <2>3, Zenon DEF Tiles
<1> QED
  BY <1>1, HeapAlways, PTL

\* kfree coalesces: two neighbours that are both free meet at the beginning of
\* a run and nowhere else.
THEOREM FreeBlocksAreMerged == Spec => []FreeNeighboursOnlyAtRuns
<1>1. HeapInv => FreeNeighboursOnlyAtRuns
  BY Zenon DEF HeapInv, Sound, Apart, Meets, FreeNeighboursOnlyAtRuns
<1> QED
  BY <1>1, HeapAlways, PTL

\* The used blocks are as many as the allocations that clients hold.
LEMMA UsedAreCounted ==
    ASSUME HeapInv
    PROVE  Cardinality({i \in DOMAIN blocks : ~blocks[i].free}) = Cardinality(live)
<1> DEFINE U == {i \in DOMAIN blocks : ~blocks[i].free}
           owner(i) == CHOOSE a \in live : a.ptr = blocks[i].addr + HeaderSize
           f == [i \in U |-> owner(i)]
<1>1. /\ blocks \in Seq(Blocks) /\ Ordered(blocks, pmmNext * PageSize)
      /\ live \in SUBSET Allocations /\ Owns(Used(blocks), live)
  BY DEF HeapInv, Sound, Lists
<1>2. DOMAIN blocks = 1 .. Len(blocks) /\ Len(blocks) \in Nat
  BY <1>1
<1>3. IsFiniteSet(U)
  <2>1. IsFiniteSet(1 .. Len(blocks))
    BY <1>2, FS_Interval
  <2>2. U \in SUBSET (1 .. Len(blocks))
    BY <1>2
  <2> QED
    BY <2>1, <2>2, FS_Subset
<1>4. ASSUME NEW i \in U
      PROVE  owner(i) \in live /\ owner(i).ptr = blocks[i].addr + HeaderSize
  <2>1. blocks[i] \in Used(blocks)
    BY <1>1, <1>2, EntryIs DEF Used
  <2>2. \E a \in live : a.ptr = blocks[i].addr + HeaderSize
    BY <1>1, <2>1, Zenon DEF Owns
  <2> QED
    BY <2>2, Zenon
<1>5. ASSUME NEW a \in live
      PROVE  \E i \in U : blocks[i].addr + HeaderSize = a.ptr
  <2>1. PICK b \in Used(blocks) : b.addr + HeaderSize = a.ptr
    BY <1>1, Zenon DEF Owns
  <2>2. PICK i \in 1 .. Len(blocks) : blocks[i] = b /\ ~b.free
    BY DEF Used
  <2>3. i \in U
    BY <1>2, <2>2
  <2> QED
    BY <2>1, <2>2, <2>3
<1>6. \A a, c \in live : a.ptr = c.ptr => a = c
  BY <1>1, Zenon DEF Owns
<1> HIDE DEF owner
<1>7. f \in [U -> live]
  BY <1>4, Zenon
<1>8. IsInjective(f)
  <2> SUFFICES ASSUME NEW i \in U, NEW j \in U, f[i] = f[j] PROVE i = j
    BY Zenon DEF IsInjective
  <2>1. owner(i) = owner(j)
    OBVIOUS
  <2>2. blocks[i].addr + HeaderSize = blocks[j].addr + HeaderSize
    BY <1>4, <2>1
  <2>3. /\ i \in 1 .. Len(blocks) /\ j \in 1 .. Len(blocks)
        /\ blocks[i].addr \in Nat /\ blocks[j].addr \in Nat
    BY <1>1, <1>2, EntryIs
  <2>4. blocks[i].addr = blocks[j].addr
    BY <2>2, <2>3, Sizes0
  <2> QED
    BY <1>1, <2>3, <2>4, AddressesDiffer
<1>9. \A a \in live : \E i \in U : f[i] = a
  <2> SUFFICES ASSUME NEW a \in live PROVE \E i \in U : f[i] = a
    OBVIOUS
  <2>1. PICK i \in U : blocks[i].addr + HeaderSize = a.ptr
    BY <1>5
  <2>2. owner(i) = a
    BY <1>4, <1>6, <2>1, Zenon
  <2> QED
    BY <2>2
<1> HIDE DEF f
<1>10. ExistsBijection(U, live)
  BY <1>7, <1>8, <1>9, Zenon DEF ExistsBijection, Bijection, Injection, Surjection
<1> HIDE DEF U
<1>11. Cardinality(live) = Cardinality(U)
  BY <1>3, <1>10, FS_Bijection, Zenon
<1> QED
  BY <1>11 DEF U

\* kmalloc, krealloc, kfree: every pointer a client holds is the payload of one
\* used block that is large enough, and every used block has one owner.
THEOREM BlocksHaveOneOwner == Spec => []LiveMatchesUsed
<1>1. HeapInv => LiveMatchesUsed
  <2> SUFFICES ASSUME HeapInv PROVE LiveMatchesUsed
    OBVIOUS
  <2>1. ASSUME NEW a \in live
        PROVE  \E i \in DOMAIN blocks :
                  /\ blocks[i].addr + HeaderSize = a.ptr
                  /\ ~blocks[i].free /\ blocks[i].size >= a.size
    <3>1. Owns(Used(blocks), live) /\ blocks \in Seq(Blocks)
      BY DEF HeapInv, Sound, Lists
    <3>2. PICK b \in Used(blocks) : b.addr + HeaderSize = a.ptr /\ b.size >= a.size
      BY <3>1, Zenon DEF Owns
    <3>3. PICK i \in 1 .. Len(blocks) : blocks[i] = b /\ ~b.free
      BY DEF Used
    <3>4. i \in DOMAIN blocks
      BY <3>1
    <3> QED
      BY <3>2, <3>3, <3>4
  <2> QED
    BY <2>1, UsedAreCounted, Zenon DEF LiveMatchesUsed
<1> QED
  BY <1>1, HeapAlways, PTL

=============================================================================
