----------------------------- MODULE TmpfsProofs ----------------------------
(***************************************************************************)
(* The file system keeps its tree, its reference counts and its buffers in *)
(* order, for every set of paths, directory size, mount table and sequence *)
(* of calls.                                                               *)
(***************************************************************************)
EXTENDS Tmpfs, SequenceTheorems, WellFoundedInduction, TLAPS

(***************************************************************************)
(* Induction, over a set of natural numbers, and sequences.                *)
(***************************************************************************)

\* A set of natural numbers that is not empty has a least element.
LEMMA LeastElement ==
    ASSUME NEW S \in SUBSET Nat, S # {}
    PROVE  \E x \in S : \A y \in S : x <= y
<1>1. \E x \in S : \A y \in S : ~(<<y, x>> \in OpToRel(<, Nat))
  BY NatLessThanWellFounded, WFMin, Zenon
<1>2. PICK x \in S : \A y \in S : ~(<<y, x>> \in OpToRel(<, Nat))
  BY <1>1
<1>3. \A y \in S : ~(y < x)
  <2> SUFFICES ASSUME NEW y \in S, y < x PROVE FALSE
    OBVIOUS
  <2>1. <<y, x>> \in Nat \X Nat
    OBVIOUS
  <2>2. <<y, x>> \in OpToRel(<, Nat)
    BY <2>1, Zenon DEF OpToRel
  <2> QED
    BY <1>2, <2>2, Zenon
<1>4. x \in S /\ \A y \in S : x <= y
  BY <1>3
<1> QED
  BY <1>4

\* A set that holds 0 and with each number the next holds every number.
LEMMA SetInduction ==
    ASSUME NEW S, 0 \in S, \A n \in Nat : n \in S => n + 1 \in S
    PROVE  Nat \subseteq S
<1> SUFFICES ASSUME Nat \ S # {} PROVE FALSE
  OBVIOUS
<1>1. PICK x \in Nat \ S : \A y \in Nat \ S : x <= y
  BY LeastElement
<1>2. x - 1 \in Nat /\ ~(x <= x - 1) /\ (x - 1) + 1 = x
  BY <1>1
<1> QED
  BY <1>1, <1>2

\* A concatenation, entry by entry.
LEMMA Joined ==
    ASSUME NEW S, NEW a \in Seq(S), NEW b \in Seq(S)
    PROVE  /\ a \o b \in Seq(S) /\ Len(a \o b) = Len(a) + Len(b)
           /\ \A j \in 1 .. Len(a) + Len(b) :
                 (a \o b)[j] = IF j <= Len(a) THEN a[j] ELSE b[j - Len(a)]
<1>1. a \o b \in Seq(S)
  OBVIOUS
<1>2. Len(a \o b) = Len(a) + Len(b)
  OBVIOUS
<1>3. \A j \in 1 .. Len(a) + Len(b) :
         (a \o b)[j] = IF j <= Len(a) THEN a[j] ELSE b[j - Len(a)]
  OBVIOUS
<1> QED
  BY <1>1, <1>2, <1>3

\* A sequence without its i-th entry.
LEMMA Without ==
    ASSUME NEW S, NEW s \in Seq(S), NEW i \in 1 .. Len(s)
    PROVE  /\ RemoveAt(s, i) \in Seq(S)
           /\ Len(RemoveAt(s, i)) = Len(s) - 1
           /\ \A j \in 1 .. Len(s) - 1 :
                 RemoveAt(s, i)[j] = IF j < i THEN s[j] ELSE s[j + 1]
<1> DEFINE a == SubSeq(s, 1, i - 1)
           b == SubSeq(s, i + 1, Len(s))
<1>1. /\ a \in Seq(S) /\ Len(a) = i - 1
      /\ \A j \in 1 .. i - 1 : a[j] = s[j]
  OBVIOUS
<1>2. /\ b \in Seq(S) /\ Len(b) = Len(s) - i
      /\ \A j \in 1 .. Len(s) - i : b[j] = s[j + i]
  OBVIOUS
<1>3. RemoveAt(s, i) = a \o b
  BY DEF RemoveAt
<1> HIDE DEF a, b
<1>4. /\ a \o b \in Seq(S) /\ Len(a \o b) = Len(s) - 1
      /\ \A j \in 1 .. Len(s) - 1 :
            (a \o b)[j] = IF j <= Len(a) THEN a[j] ELSE b[j - Len(a)]
  <2>1. /\ a \o b \in Seq(S) /\ Len(a \o b) = Len(a) + Len(b)
        /\ \A j \in 1 .. Len(a) + Len(b) :
              (a \o b)[j] = IF j <= Len(a) THEN a[j] ELSE b[j - Len(a)]
    BY <1>1, <1>2, Joined
  <2>2. Len(a) + Len(b) = Len(s) - 1
    BY <1>1, <1>2
  <2> QED
    BY <2>1, <2>2
<1>5. ASSUME NEW j \in 1 .. Len(s) - 1
      PROVE  (a \o b)[j] = IF j < i THEN s[j] ELSE s[j + 1]
  <2>1. CASE j < i
    BY <1>1, <1>4, <2>1
  <2>2. CASE ~(j < i)
    <3>1. j - (i - 1) \in 1 .. Len(s) - i /\ j - (i - 1) + i = j + 1
      BY <2>2
    <3>2. b[j - (i - 1)] = s[j + 1]
      BY <1>2, <3>1
    <3> QED
      BY <1>1, <1>4, <2>2, <3>2
  <2> QED
    BY <2>1, <2>2
<1> QED
  BY <1>3, <1>4, <1>5

-----------------------------------------------------------------------------
(***************************************************************************)
(* Walking a path.                                                         *)
(***************************************************************************)

\* One turn of the loop of vfs_resolve_path.
Turn(p, i, n) ==
    IF n = None \/ \E j \in 1 .. i : p.comps[j] = "" THEN n ELSE finddir(n, p.comps[i])

\* The nodes the loop has come to after each turn, m turns in all.
IsWalk(p, g, m) == g = [i \in 0 .. m |-> IF i = 0 THEN vfs_root ELSE Turn(p, i, g[i - 1])]

\* vfs_resolve_path is the last node of a walk along the path.
LEMMA ResolveWalks ==
    ASSUME NEW p, Len(p.comps) \in Nat
    PROVE  \E g : IsWalk(p, g, Len(p.comps)) /\ vfs_resolve_path(p) = g[Len(p.comps)]
<1> DEFINE S == {m \in Nat : \E g : IsWalk(p, g, m)}
<1>1. 0 \in S
  <2> DEFINE g == [i \in 0 .. 0 |-> vfs_root]
  <2>1. IsWalk(p, g, 0)
    BY DEF IsWalk
  <2> QED
    BY <2>1
<1>2. ASSUME NEW m \in Nat, m \in S
      PROVE  m + 1 \in S
  <2>1. PICK g : IsWalk(p, g, m)
    BY <1>2
  <2> DEFINE h == [i \in 0 .. m + 1 |-> IF i = m + 1 THEN Turn(p, i, g[m]) ELSE g[i]]
  <2>2. \A i \in 0 .. m : g[i] = IF i = 0 THEN vfs_root ELSE Turn(p, i, g[i - 1])
    BY <2>1 DEF IsWalk
  <2>3. \A i \in 0 .. m + 1 : h[i] = IF i = 0 THEN vfs_root ELSE Turn(p, i, h[i - 1])
    BY <2>2
  <2>4. IsWalk(p, h, m + 1)
    BY <2>3 DEF IsWalk
  <2> HIDE DEF h
  <2> QED
    BY <2>4
<1>3. \E g : IsWalk(p, g, Len(p.comps))
  BY <1>1, <1>2, SetInduction
<1> DEFINE node == CHOOSE g : IsWalk(p, g, Len(p.comps))
<1>4. IsWalk(p, node, Len(p.comps))
  BY <1>3, Zenon
<1>5. vfs_resolve_path(p) = node[Len(p.comps)]
  BY Zenon DEF vfs_resolve_path, IsWalk, Turn
<1> QED
  BY <1>4, <1>5

-----------------------------------------------------------------------------
(***************************************************************************)
(* The inductive invariant.  Inode numbers are never used again, so a node *)
(* that is not allocated is in no directory and has no children of its     *)
(* own, and one that was never made was never opened.                      *)
(***************************************************************************)

Stored == (UNION {{w[i] : i \in DOMAIN w} : w \in Writes}) \cup {"junk"}

FsTypes ==
    /\ alive \subseteq Inodes
    /\ DOMAIN name = Inodes
    /\ children \in [Inodes -> Seq(Inodes)]
    /\ ref_count \in [Inodes -> Nat]
    /\ handles \in [Inodes -> Nat]
    /\ size \in [Inodes -> Nat]
    /\ data \in [Inodes -> Seq(Stored)]
    /\ counter \in 2 .. MaxInodes + 1
    /\ vfs_root \in Inodes
    /\ mounts \in Seq([path : Mounts, root : Inodes])
    /\ DOMAIN ls = {"dir", "idx", "name"}

Unmade ==
    /\ \A n \in alive : n < counter
    /\ \A n \in Inodes \ alive : children[n] = <<>>
    /\ \A n \in Inodes : n >= counter => ref_count[n] = 0 /\ handles[n] = 0

Opened ==
    /\ RefCountExact
    /\ ls.dir # None => ls.dir \in Inodes /\ ls.dir < counter /\ handles[ls.dir] > 0

Covered == \A n \in Inodes : size[n] <= Len(data[n])

FsInv == FsTypes /\ Unmade /\ TreeSound /\ Opened /\ Covered

\* What finddir returns is one of the node's children, at the given position.
LEMMA FindChild ==
    ASSUME FsTypes, NEW n \in Inodes, NEW s, finddir(n, s) # None
    PROVE  /\ Position(n, s) \in 1 .. Len(children[n])
           /\ finddir(n, s) = children[n][Position(n, s)]
           /\ name[finddir(n, s)] = s
<1>0. children[n] \in Seq(Inodes)
  BY DEF FsTypes
<1>1. Called(n, s) # {} /\ Called(n, s) \in SUBSET (1 .. Len(children[n]))
  <2>1. Called(n, s) # {}
    BY DEF finddir
  <2>2. DOMAIN children[n] = 1 .. Len(children[n])
    BY <1>0
  <2> QED
    BY <2>1, <2>2 DEF Called
<1>2. \E i \in Called(n, s) : \A j \in Called(n, s) : i <= j
  BY <1>1, LeastElement
<1>3. Position(n, s) \in Called(n, s)
  BY <1>2, Zenon DEF Position
<1>4. finddir(n, s) = children[n][Position(n, s)]
  BY DEF finddir
<1>5. name[children[n][Position(n, s)]] = s
  BY <1>3 DEF Called
<1> QED
  BY <1>1, <1>3, <1>4, <1>5

\* A walk along any path stays among the allocated nodes.
LEMMA ResolveAlive ==
    ASSUME FsTypes, TreeSound, NEW p, Len(p.comps) \in Nat
    PROVE  vfs_resolve_path(p) \in alive \cup {None}
<1>1. PICK g : IsWalk(p, g, Len(p.comps)) /\ vfs_resolve_path(p) = g[Len(p.comps)]
  BY ResolveWalks
<1> DEFINE N == Len(p.comps)
           S == {m \in Nat : m <= N => g[m] \in alive \cup {None}}
<1>2. \A i \in 0 .. N : g[i] = IF i = 0 THEN vfs_root ELSE Turn(p, i, g[i - 1])
  BY <1>1 DEF IsWalk
<1>3. \A n \in alive \cup {None} : \A i : Turn(p, i, n) \in alive \cup {None}
  <2> SUFFICES ASSUME NEW n \in alive, NEW s, finddir(n, s) # None
               PROVE  finddir(n, s) \in alive
    BY DEF Turn
  <2>1. n \in Inodes /\ children[n] \in Seq(Inodes)
    BY DEF FsTypes
  <2>2. Position(n, s) \in DOMAIN children[n] /\ finddir(n, s) = children[n][Position(n, s)]
    BY <2>1, FindChild
  <2> QED
    BY <2>2 DEF TreeSound
<1>4. 0 \in S
  BY <1>2 DEF TreeSound
<1>5. ASSUME NEW m \in Nat, m \in S
      PROVE  m + 1 \in S
  <2> SUFFICES ASSUME m + 1 <= N PROVE g[m + 1] \in alive \cup {None}
    OBVIOUS
  <2>1. g[m] \in alive \cup {None} /\ m + 1 \in 0 .. N /\ m + 1 # 0 /\ (m + 1) - 1 = m
    BY <1>5
  <2>2. g[m + 1] = Turn(p, m + 1, g[m])
    BY <1>2, <2>1
  <2> QED
    BY <1>3, <2>1, <2>2
<1>6. N \in S
  BY <1>4, <1>5, SetInduction
<1> QED
  BY <1>1, <1>6

\* A path has a length, and so has its directory part.
LEMMA PathTypes ==
    ASSUME NEW p \in Paths
    PROVE  /\ p \in [abs : BOOLEAN, comps : Seq(STRING)]
           /\ Len(p.comps) \in Nat
           /\ Len(vfs_path_dirname(p).comps) \in Nat
<1>1. p \in [abs : BOOLEAN, comps : Seq(STRING)]
  BY TmpfsAssumption
<1>2. p.comps \in Seq(STRING) /\ Len(p.comps) \in Nat
  BY <1>1
<1>3. p.comps # <<>> => Front(p.comps) \in Seq(STRING)
  BY <1>2 DEF Front
<1>4. CASE ~p.abs /\ Len(p.comps) <= 1
  <2>1. vfs_path_dirname(p) = [abs |-> FALSE, comps |-> <<".">>]
    BY <1>4, Zenon DEF vfs_path_dirname
  <2>2. vfs_path_dirname(p).comps = <<".">>
    BY <2>1
  <2> QED
    BY <1>1, <1>2, <2>2
<1>5. CASE ~(~p.abs /\ Len(p.comps) <= 1)
  <2> DEFINE c == IF p.comps = <<>> THEN <<>> ELSE Front(p.comps)
  <2>0. <<>> \in Seq(STRING)
    OBVIOUS
  <2>1. c \in Seq(STRING)
    BY <1>3, <2>0
  <2>2. vfs_path_dirname(p) = [p EXCEPT !.comps = c]
    BY <1>5, Zenon DEF vfs_path_dirname
  <2> HIDE DEF c
  <2>3. vfs_path_dirname(p).comps = c
    BY <1>1, <2>2
  <2> QED
    BY <1>1, <1>2, <2>1, <2>3
<1> QED
  BY <1>4, <1>5

\* The bounds are numbers.
LEMMA Bounds ==
    /\ MaxInodes \in Nat /\ MaxInodes > 0 /\ MaxChildren \in Nat /\ MaxChildren > 0
    /\ MaxMounts \in Nat /\ MaxMounts > 0 /\ Chunk \in Nat /\ Chunk > 0
<1>1. \A x \in {MaxChildren, MaxMounts, Chunk, IdxMod, MaxInodes} : x \in Nat \ {0}
  BY TmpfsAssumption, Zenon
<1>2. /\ MaxInodes \in Nat \ {0} /\ MaxChildren \in Nat \ {0}
      /\ MaxMounts \in Nat \ {0} /\ Chunk \in Nat \ {0}
  BY <1>1, Zenon
<1> QED
  BY <1>2

\* What kmain sets up.
LEMMA FsInitInv == Init => FsInv
<1> SUFFICES ASSUME Init PROVE FsInv
  OBVIOUS
<1>0. /\ alive = {1} /\ counter = 2 /\ vfs_root = 1
      /\ ls = NoLs
      /\ mounts = <<[path |-> RootPath, root |-> 1]>>
  BY Zenon DEF Init
<1>1. /\ children = [n \in Inodes |-> <<>>] /\ data = [n \in Inodes |-> <<>>]
      /\ size = [n \in Inodes |-> 0] /\ ref_count = [n \in Inodes |-> 0]
      /\ handles = [n \in Inodes |-> 0] /\ DOMAIN name = Inodes
  BY Zenon DEF Init
<1>2. 1 \in Inodes
  BY Bounds DEF Inodes
<1>3. FsTypes
  <2>1. [path |-> RootPath, root |-> 1] \in [path : Mounts, root : Inodes]
    BY <1>2, TmpfsAssumption
  <2>2. \A S : \A e \in S : <<e>> \in Seq(S)
    OBVIOUS
  <2>3. mounts \in Seq([path : Mounts, root : Inodes])
    BY <1>0, <2>1, <2>2, Zenon
  <2>4. <<>> \in Seq(Inodes) /\ <<>> \in Seq(Stored)
    OBVIOUS
  <2>5. children \in [Inodes -> Seq(Inodes)] /\ data \in [Inodes -> Seq(Stored)]
    BY <1>1, <2>4, Zenon
  <2>6. counter \in 2 .. MaxInodes + 1
    BY <1>0, Bounds
  <2>7. DOMAIN ls = {"dir", "idx", "name"}
    BY <1>0 DEF NoLs
  <2>8. /\ ref_count \in [Inodes -> Nat] /\ handles \in [Inodes -> Nat]
        /\ size \in [Inodes -> Nat] /\ alive \subseteq Inodes /\ vfs_root \in Inodes
    BY <1>0, <1>1, <1>2
  <2> QED
    BY <1>1, <2>3, <2>5, <2>6, <2>7, <2>8 DEF FsTypes
<1>4. Unmade
  BY <1>0, <1>1 DEF Unmade, Inodes
<1>5. TreeSound
  <2>1. Len(mounts) = 1
    BY <1>0
  <2>2. \A n \in Inodes : Len(children[n]) = 0 /\ DOMAIN children[n] = {}
    BY <1>1
  <2> QED
    BY <1>0, <1>2, <2>1, <2>2, Bounds DEF TreeSound
<1>6. Opened
  BY <1>0, <1>1, <1>2 DEF Opened, RefCountExact, NoLs
<1>7. Covered
  BY <1>1 DEF Covered
<1> QED
  BY <1>3, <1>4, <1>5, <1>6, <1>7 DEF FsInv

\* Directories and mounts are as they were.
LEMMA TreeKept ==
    ASSUME TreeSound, UNCHANGED <<alive, children, vfs_root, mounts>>
    PROVE  TreeSound'
  BY DEF TreeSound, Inodes

\* vfs_mkdir enters a node that is in no directory.
LEMMA MkdirInv ==
    ASSUME FsInv, NEW p \in Paths, vfs_mkdir(p)
    PROVE  FsInv'
<1> DEFINE parent == vfs_resolve_path(vfs_path_dirname(p))
<1>1. parent \in alive /\ parent \in Inodes /\ children[parent] \in Seq(Inodes)
  <2>1. parent # None
    BY DEF vfs_mkdir
  <2>2. parent \in alive
    BY <2>1, ResolveAlive, PathTypes DEF FsInv
  <2> QED
    BY <2>2 DEF FsInv, FsTypes
<1>2. /\ Len(children[parent]) < MaxChildren
      /\ counter \in Inodes
      /\ counter' = counter + 1
      /\ alive' = alive \cup {counter}
      /\ name' = [name EXCEPT ![counter] = vfs_path_basename(p)]
      /\ children' = [children EXCEPT ![parent] = Append(@, counter)]
      /\ UNCHANGED <<data, size, ref_count, vfs_root, mounts, handles, ls>>
  <2>1. UNCHANGED <<content, ref_count, vfs_root, mounts, handles, ls>>
    BY Zenon DEF vfs_mkdir
  <2>2. UNCHANGED <<data, size, ref_count, vfs_root, mounts, handles, ls>>
    BY <2>1 DEF content
  <2> QED
    BY <2>2, Zenon DEF vfs_mkdir, new_inode
<1> HIDE DEF parent
<1>3. counter \notin alive /\ counter # parent /\ children[counter] = <<>>
  <2>1. counter \in Int
    BY DEF FsInv, FsTypes
  <2>2. counter \notin alive
    BY <2>1 DEF FsInv, Unmade
  <2> QED
    BY <1>1, <1>2, <2>2 DEF FsInv, Unmade
<1> DEFINE new == Append(children[parent], counter)
<1>4. /\ new \in Seq(Inodes) /\ Len(new) = Len(children[parent]) + 1
      /\ \A i \in 1 .. Len(children[parent]) : new[i] = children[parent][i]
      /\ new[Len(children[parent]) + 1] = counter
  BY <1>1, <1>2
<1>5. \A n \in Inodes : children'[n] = IF n = parent THEN new ELSE children[n]
  BY <1>1, <1>2 DEF FsInv, FsTypes
<1> HIDE DEF new
<1>6. FsTypes'
  <2>1. children' \in [Inodes -> Seq(Inodes)]
    BY <1>1, <1>2, <1>4 DEF FsInv, FsTypes, new
  <2>2. counter' \in 2 .. MaxInodes + 1
    <3>1. counter \in 1 .. MaxInodes /\ counter \in 2 .. MaxInodes + 1 /\ counter' = counter + 1
      BY <1>2 DEF FsInv, FsTypes, Inodes
    <3> QED
      BY <3>1, Bounds
  <2>3. alive' \subseteq Inodes
    BY <1>2 DEF FsInv, FsTypes
  <2>4. DOMAIN name' = Inodes
    BY <1>2, Zenon DEF FsInv, FsTypes
  <2> QED
    BY <1>2, <2>1, <2>2, <2>3, <2>4, Zenon DEF FsInv, FsTypes, Inodes, Stored
<1>7. Unmade'
  <2>1. \A n \in alive' : n < counter'
    BY <1>2 DEF FsInv, Unmade, FsTypes, Inodes
  <2>2. \A n \in Inodes \ alive' : children'[n] = <<>>
    BY <1>1, <1>2, <1>5 DEF FsInv, Unmade
  <2>3. \A n \in Inodes : n >= counter' => ref_count'[n] = 0 /\ handles'[n] = 0
    BY <1>2 DEF FsInv, Unmade, Inodes
  <2> QED
    BY <2>1, <2>2, <2>3 DEF Unmade, Inodes
<1>8. TreeSound'
  <2>0. \A n \in Inodes : DOMAIN children[n] = 1 .. Len(children[n])
    BY DEF FsInv, FsTypes
  <2>1. \A n \in Inodes : Len(children'[n]) <= MaxChildren
    BY <1>1, <1>2, <1>4, <1>5, Bounds DEF FsInv, TreeSound
  <2>2. DOMAIN new = 1 .. Len(children[parent]) + 1
    BY <1>4
  <2>3. \A n \in alive' : \A i \in DOMAIN children'[n] :
           \/ n \in alive /\ i \in DOMAIN children[n] /\ children'[n][i] = children[n][i]
           \/ n = parent /\ i = Len(children[parent]) + 1 /\ children'[n][i] = counter
    <3> SUFFICES ASSUME NEW n \in alive', NEW i \in DOMAIN children'[n]
                 PROVE
           \/ n \in alive /\ i \in DOMAIN children[n] /\ children'[n][i] = children[n][i]
           \/ n = parent /\ i = Len(children[parent]) + 1 /\ children'[n][i] = counter
      OBVIOUS
    <3>1. CASE n = parent
      BY <1>1, <1>4, <1>5, <2>0, <2>2, <3>1
    <3>2. CASE n = counter
      <4>1. children'[n] = <<>>
        BY <1>2, <1>3, <1>5, <3>2
      <4> QED
        BY <4>1
    <3>3. CASE n \in alive /\ n # parent
      BY <1>5, <3>3 DEF FsInv, FsTypes
    <3> QED
      BY <1>2, <3>1, <3>2, <3>3
  <2>4. \A n \in alive : \A i \in DOMAIN children[n] : children[n][i] \in alive \ {vfs_root}
    BY DEF FsInv, TreeSound
  <2>5. \A m, n \in alive : \A i \in DOMAIN children[m], j \in DOMAIN children[n] :
           children[m][i] = children[n][j] => m = n /\ i = j
    BY DEF FsInv, TreeSound
  <2>6. \A m, n \in alive' : \A i \in DOMAIN children'[m], j \in DOMAIN children'[n] :
           children'[m][i] = children'[n][j] => m = n /\ i = j
    <3> SUFFICES ASSUME NEW m \in alive', NEW n \in alive', NEW i \in DOMAIN children'[m],
                        NEW j \in DOMAIN children'[n], children'[m][i] = children'[n][j]
                 PROVE  m = n /\ i = j
      OBVIOUS
    <3> QED
      BY <1>3, <2>3, <2>4, <2>5
  <2>7. \A n \in alive' : \A i \in DOMAIN children'[n] :
           children'[n][i] \in alive' \ {vfs_root'}
    BY <1>2, <1>3, <2>3, <2>4 DEF FsInv, TreeSound
  <2>8. vfs_root' \in alive' /\ Len(mounts') <= MaxMounts
    BY <1>2 DEF FsInv, TreeSound
  <2> QED
    BY <2>1, <2>6, <2>7, <2>8 DEF TreeSound, Inodes
<1>9. Opened'
  BY <1>2, <1>3 DEF FsInv, Opened, Unmade, RefCountExact, Inodes
<1>10. Covered'
  BY <1>2 DEF FsInv, Covered, Inodes
<1> QED
  BY <1>6, <1>7, <1>8, <1>9, <1>10 DEF FsInv

\* vfs_unlink frees a node that is in one directory and takes it out of there.
LEMMA UnlinkInv ==
    ASSUME FsInv, NEW p \in Paths, vfs_unlink(p)
    PROVE  FsInv'
<1> DEFINE parent == vfs_resolve_path(vfs_path_dirname(p))
           base == vfs_path_basename(p)
           victim == finddir(parent, base)
           at == Position(parent, base)
<1>1. parent \in alive /\ parent \in Inodes /\ children[parent] \in Seq(Inodes)
  <2>1. parent # None
    BY Zenon DEF vfs_unlink
  <2>2. parent \in alive
    BY <2>1, ResolveAlive, PathTypes DEF FsInv
  <2> QED
    BY <2>2 DEF FsInv, FsTypes
<1>2. /\ victim # None
      /\ alive' = alive \ {victim}
      /\ name' = [name EXCEPT ![victim] = ""]
      /\ data' = [data EXCEPT ![victim] = <<>>]
      /\ size' = [size EXCEPT ![victim] = 0]
      /\ ref_count' = [ref_count EXCEPT ![victim] = 0]
      /\ children' = [children EXCEPT ![parent] = RemoveAt(@, at), ![victim] = <<>>]
      /\ UNCHANGED <<counter, vfs_root, mounts, handles, ls>>
  BY Zenon DEF vfs_unlink, free_inode
<1> HIDE DEF parent, base, victim, at
<1>3. at \in 1 .. Len(children[parent]) /\ victim = children[parent][at]
  BY <1>1, <1>2, FindChild DEF FsInv, victim, at
<1>4. victim \in alive /\ victim \in Inodes /\ victim # vfs_root
  <2>1. at \in DOMAIN children[parent]
    BY <1>1, <1>3
  <2> QED
    BY <1>1, <1>3, <2>1 DEF FsInv, TreeSound, FsTypes
<1> DEFINE rest == RemoveAt(children[parent], at)
<1>5. /\ rest \in Seq(Inodes) /\ Len(rest) = Len(children[parent]) - 1
      /\ \A j \in 1 .. Len(children[parent]) - 1 :
            rest[j] = IF j < at THEN children[parent][j] ELSE children[parent][j + 1]
  BY <1>1, <1>3, Without
<1> HIDE DEF rest
<1>6. /\ \A n \in Inodes : children'[n] = IF n = victim THEN <<>>
                                          ELSE IF n = parent THEN rest
                                          ELSE children[n]
      /\ children' \in [Inodes -> Seq(Inodes)]
  <2>1. children' = [[children EXCEPT ![parent] = rest] EXCEPT ![victim] = <<>>]
    BY <1>2, Zenon DEF rest
  <2>2. <<>> \in Seq(Inodes)
    OBVIOUS
  <2>3. children \in [Inodes -> Seq(Inodes)]
    BY DEF FsInv, FsTypes
  <2> QED
    BY <1>1, <1>4, <1>5, <2>1, <2>2, <2>3
<1>7. FsTypes'
  <2>1. /\ alive' \subseteq Inodes
        /\ size' \in [Inodes -> Nat] /\ ref_count' \in [Inodes -> Nat]
    BY <1>2 DEF FsInv, FsTypes
  <2>2. <<>> \in Seq(Stored)
    OBVIOUS
  <2>3. data' \in [Inodes -> Seq(Stored)] /\ DOMAIN name' = Inodes
    BY <1>2, <2>2, Zenon DEF FsInv, FsTypes
  <2> QED
    BY <1>2, <1>6, <2>1, <2>3, Zenon DEF FsInv, FsTypes, Inodes, Stored
<1>8. Unmade'
  <2>1. \A n \in Inodes \ alive' : children'[n] = <<>>
    BY <1>1, <1>2, <1>6 DEF FsInv, Unmade
  <2>2. \A n \in alive' : n < counter'
    BY <1>2 DEF FsInv, Unmade
  <2>3. \A n \in Inodes : n >= counter' => ref_count'[n] = 0 /\ handles'[n] = 0
    BY <1>2 DEF FsInv, FsTypes, Unmade
  <2> QED
    BY <2>1, <2>2, <2>3 DEF Unmade, Inodes
<1>9. TreeSound'
  <2>0. \A n \in Inodes : DOMAIN children[n] = 1 .. Len(children[n]) /\ Len(children[n]) \in Nat
    BY DEF FsInv, FsTypes
  <2>1. \A n \in Inodes : Len(children'[n]) <= MaxChildren
    <3>0. Len(children[parent]) <= MaxChildren /\ Len(children[parent]) \in Nat
      BY <1>1, <2>0 DEF FsInv, TreeSound
    <3>1. Len(<<>>) = 0 /\ Len(rest) <= MaxChildren
      BY <1>5, <3>0, Bounds
    <3>2. \A n \in Inodes : Len(children[n]) <= MaxChildren
      BY DEF FsInv, TreeSound
    <3>3. 0 <= MaxChildren
      BY Bounds
    <3> TAKE n \in Inodes
    <3>4. CASE n = victim
      <4>1. children'[n] = <<>>
        BY <1>6, <3>4
      <4> QED
        BY <3>1, <3>3, <4>1
    <3>5. CASE n # victim
      BY <1>6, <3>1, <3>2, <3>5
    <3> QED
      BY <3>4, <3>5
  <2> DEFINE Old(n, i) == IF n = parent /\ i >= at THEN i + 1 ELSE i
  <2>2. ASSUME NEW n \in alive', NEW i \in DOMAIN children'[n]
        PROVE  /\ n \in alive /\ n \in Inodes /\ i \in Nat
               /\ Old(n, i) \in DOMAIN children[n]
               /\ n = parent => Old(n, i) # at
               /\ children'[n][i] = children[n][Old(n, i)]
    <3>1. n \in alive /\ n \in Inodes /\ n # victim
      BY <1>2 DEF FsInv, FsTypes
    <3>2. CASE n = parent
      <4>1. children'[n] = rest
        BY <1>6, <3>1, <3>2
      <4>2. DOMAIN rest = 1 .. Len(children[parent]) - 1
        BY <1>5
      <4>3. i \in 1 .. Len(children[parent]) - 1
        BY <2>2, <4>1, <4>2
      <4> QED
        BY <1>1, <1>3, <1>5, <2>0, <3>1, <3>2, <4>1, <4>3
    <3>3. CASE n # parent
      BY <1>6, <2>0, <2>2, <3>1, <3>3
    <3> QED
      BY <3>2, <3>3
  <2>3. \A n \in alive : \A i \in DOMAIN children[n] : children[n][i] \in alive \ {vfs_root}
    BY DEF FsInv, TreeSound
  <2>4. \A m, n \in alive : \A i \in DOMAIN children[m], j \in DOMAIN children[n] :
           children[m][i] = children[n][j] => m = n /\ i = j
    BY DEF FsInv, TreeSound
  <2>5. \A n, i, j : i \in Nat /\ j \in Nat /\ Old(n, i) = Old(n, j) => i = j
    BY <1>3
  <2> HIDE DEF Old
  <2>6. ASSUME NEW m \in alive', NEW n \in alive', NEW i \in DOMAIN children'[m],
               NEW j \in DOMAIN children'[n], children'[m][i] = children'[n][j]
        PROVE  m = n /\ i = j
    BY <2>2, <2>4, <2>5, <2>6
  <2>7. ASSUME NEW n \in alive', NEW i \in DOMAIN children'[n]
        PROVE  children'[n][i] \in alive' \ {vfs_root'}
    <3>1. at \in DOMAIN children[parent] /\ parent \in alive
      BY <1>1, <1>3, <2>0
    <3>2. /\ n \in alive /\ Old(n, i) \in DOMAIN children[n]
          /\ n = parent => Old(n, i) # at
          /\ children'[n][i] = children[n][Old(n, i)]
      BY <2>2, <2>7
    <3>3. children[n][Old(n, i)] # children[parent][at]
      BY <2>4, <3>1, <3>2
    <3>4. children[n][Old(n, i)] \in alive \ {vfs_root}
      BY <2>3, <3>2
    <3>5. alive' = alive \ {victim} /\ vfs_root' = vfs_root
      BY <1>2
    <3>6. children'[n][i] # victim /\ children'[n][i] \in alive \ {vfs_root}
      BY <1>3, <3>2, <3>3, <3>4
    <3> QED
      BY <3>5, <3>6
  <2>8. vfs_root' \in alive' /\ Len(mounts') <= MaxMounts
    BY <1>2, <1>4 DEF FsInv, TreeSound
  <2> QED
    BY <2>1, <2>6, <2>7, <2>8 DEF TreeSound, Inodes
<1>10. Opened'
  <2>1. \A n \in alive' : ref_count'[n] = ref_count[n] /\ n \in alive
    BY <1>2 DEF FsInv, FsTypes
  <2> QED
    BY <1>2, <2>1 DEF FsInv, Opened, RefCountExact, Inodes
<1>11. Covered'
  <2>1. Len(<<>>) = 0
    OBVIOUS
  <2>2. \A n \in Inodes : IF n = victim THEN size'[n] = 0 /\ data'[n] = <<>>
                          ELSE size'[n] = size[n] /\ data'[n] = data[n]
    BY <1>2 DEF FsInv, FsTypes
  <2> QED
    BY <2>1, <2>2 DEF FsInv, Covered, Inodes
<1> QED
  BY <1>7, <1>8, <1>9, <1>10, <1>11 DEF FsInv

\* Steps that only open and close nodes keep the rest of the invariant.
LEMMA HandlesInv ==
    ASSUME FsInv, UNCHANGED <<tree, content, vfs_root, mounts>>,
           ref_count' \in [Inodes -> Nat], handles' \in [Inodes -> Nat],
           DOMAIN ls' = {"dir", "idx", "name"},
           \A n \in Inodes : n >= counter => ref_count'[n] = 0 /\ handles'[n] = 0,
           Opened'
    PROVE  FsInv'
<1>1. UNCHANGED <<alive, name, children, counter, data, size, vfs_root, mounts>>
  BY DEF tree, content
<1>2. FsTypes'
  BY <1>1, Zenon DEF FsInv, FsTypes, Inodes, Stored
<1>3. Unmade'
  BY <1>1 DEF FsInv, Unmade, Inodes
<1>4. TreeSound'
  BY <1>1, TreeKept DEF FsInv
<1>5. Covered'
  BY <1>1 DEF FsInv, Covered, Inodes
<1> QED
  BY <1>2, <1>3, <1>4, <1>5 DEF FsInv

\* vfs_open and ls open a node that is allocated.
LEMMA OpenInv ==
    ASSUME FsInv, NEW p \in Paths, vfs_open(p) \/ ls_open(p)
    PROVE  FsInv'
<1> DEFINE n == vfs_resolve_path(p)
<1>1. /\ n # None
      /\ ref_count' = [ref_count EXCEPT ![n] = @ + 1]
      /\ handles' = [handles EXCEPT ![n] = @ + 1]
      /\ UNCHANGED <<tree, content, vfs_root, mounts>>
  <2>1. CASE vfs_open(p)
    <3>1. UNCHANGED <<tree, content, vfs_root, mounts, ls>>
      BY <2>1, Zenon DEF vfs_open
    <3>2. UNCHANGED <<tree, content, vfs_root, mounts>>
      BY <3>1
    <3> QED
      BY <2>1, <3>2, Zenon DEF vfs_open, open_node
  <2>2. CASE ls_open(p)
    BY <2>2, Zenon DEF ls_open, open_node
  <2> QED
    BY <2>1, <2>2
<1>2. n \in alive
  BY <1>1, ResolveAlive, PathTypes DEF FsInv
<1> HIDE DEF n
<1>3. n \in Inodes /\ n < counter /\ counter \in Int
  BY <1>2 DEF FsInv, FsTypes, Unmade
<1>4. ref_count' \in [Inodes -> Nat] /\ handles' \in [Inodes -> Nat]
  <2>1. ref_count \in [Inodes -> Nat] /\ handles \in [Inodes -> Nat]
    BY DEF FsInv, FsTypes
  <2>2. ref_count[n] + 1 \in Nat /\ handles[n] + 1 \in Nat
    BY <1>3, <2>1
  <2> QED
    BY <1>1, <1>3, <2>1, <2>2, Zenon
<1>5. \A m \in Inodes :
         /\ ref_count'[m] = IF m = n THEN ref_count[m] + 1 ELSE ref_count[m]
         /\ handles'[m] = IF m = n THEN handles[m] + 1 ELSE handles[m]
  BY <1>1 DEF FsInv, FsTypes
<1>6. \A m \in Inodes : m >= counter => ref_count'[m] = 0 /\ handles'[m] = 0
  <2>1. \A m \in Inodes : m >= counter => m # n
    BY <1>3 DEF Inodes
  <2> QED
    BY <1>5, <2>1 DEF FsInv, Unmade
<1>7. ls' = ls \/ (DOMAIN ls' = {"dir", "idx", "name"} /\ ls'.dir = n)
  <2>1. CASE vfs_open(p)
    <3>1. UNCHANGED <<tree, content, vfs_root, mounts, ls>>
      BY <2>1, Zenon DEF vfs_open
    <3> QED
      BY <3>1
  <2>2. CASE ls_open(p)
    <3>1. PICK garbage \in Names :
             ls' = [dir |-> vfs_resolve_path(p), idx |-> 0, name |-> garbage]
      BY <2>2, Zenon DEF ls_open
    <3>2. ls' = [dir |-> n, idx |-> 0, name |-> garbage]
      BY <3>1, Zenon DEF n
    <3> QED
      BY <3>2
  <2> QED
    BY <2>1, <2>2
<1>8. DOMAIN ls' = {"dir", "idx", "name"}
  BY <1>7 DEF FsInv, FsTypes
<1>9. Opened'
  <2>1. alive' = alive /\ counter' = counter
    BY <1>1 DEF tree
  <2>2. RefCountExact'
    BY <1>5, <2>1 DEF FsInv, FsTypes, Opened, RefCountExact
  <2>3. handles'[n] > 0
    BY <1>3, <1>5 DEF FsInv, FsTypes
  <2>4. ls.dir # None => ls.dir \in Inodes /\ ls.dir < counter /\ handles'[ls.dir] > 0
    <3>1. ls.dir # None => ls.dir \in Inodes /\ ls.dir < counter /\ handles[ls.dir] > 0
      BY DEF FsInv, Opened
    <3>2. handles \in [Inodes -> Nat]
      BY DEF FsInv, FsTypes
    <3> QED
      BY <1>5, <3>1, <3>2
  <2> QED
    BY <1>3, <1>7, <2>1, <2>2, <2>3, <2>4 DEF Opened, Inodes, None
<1> QED
  BY <1>1, <1>4, <1>6, <1>8, <1>9, HandlesInv

\* A node is closed as often as it was opened: the count never stops at 0.
LEMMA CloseInv ==
    ASSUME FsInv, NEW n \in alive, close_node(n),
           UNCHANGED <<tree, content, vfs_root, mounts>>,
           DOMAIN ls' = {"dir", "idx", "name"}, ls'.dir = None \/ ls' = ls,
           handles[n] > IF ls'.dir = n THEN 1 ELSE 0
    PROVE  FsInv'
<1>1. n \in Inodes /\ handles[n] \in Nat /\ ref_count[n] = handles[n] /\ handles[n] > 0
  BY DEF FsInv, FsTypes, Opened, RefCountExact
<1>2. /\ handles' = [handles EXCEPT ![n] = @ - 1]
      /\ ref_count' = [ref_count EXCEPT ![n] = @ - 1]
  BY <1>1 DEF close_node
<1>3. ref_count' \in [Inodes -> Nat] /\ handles' \in [Inodes -> Nat]
  <2>1. ref_count \in [Inodes -> Nat] /\ handles \in [Inodes -> Nat]
    BY DEF FsInv, FsTypes
  <2>2. handles[n] - 1 \in Nat /\ ref_count[n] - 1 \in Nat
    BY <1>1
  <2> QED
    BY <1>1, <1>2, <2>1, <2>2, Zenon
<1>4. \A m \in Inodes :
         /\ ref_count'[m] = IF m = n THEN ref_count[m] - 1 ELSE ref_count[m]
         /\ handles'[m] = IF m = n THEN handles[m] - 1 ELSE handles[m]
  BY <1>2 DEF FsInv, FsTypes
<1>5. \A m \in Inodes : m >= counter => ref_count'[m] = 0 /\ handles'[m] = 0
  <2>1. \A m \in Inodes : m >= counter => m # n
    BY <1>1 DEF FsInv, Unmade
  <2> QED
    BY <1>4, <2>1 DEF FsInv, Unmade
<1>6. Opened'
  <2>1. alive' = alive /\ counter' = counter
    BY DEF tree
  <2>2. RefCountExact'
    BY <1>4, <2>1 DEF FsInv, FsTypes, Opened, RefCountExact
  <2>3. ls' = ls /\ ls.dir # None
           => ls.dir \in Inodes /\ ls.dir < counter /\ handles'[ls.dir] > 0
    BY <1>1, <1>4, SMTT(30) DEF FsInv, FsTypes, Opened
  <2> QED
    BY <2>1, <2>2, <2>3 DEF Opened, Inodes, None
<1> QED
  BY <1>3, <1>5, <1>6, HandlesInv

\* vfs_close closes a node the client has open, beside the shell's own handle.
LEMMA VfsCloseInv ==
    ASSUME FsInv, NEW n \in Inodes, vfs_close(n)
    PROVE  FsInv'
<1>1. n \in alive /\ Mine(n) > 0 /\ close_node(n)
  BY Zenon DEF vfs_close
<1>2. UNCHANGED <<tree, content, vfs_root, mounts, ls>>
  BY Zenon DEF vfs_close
<1>3. UNCHANGED <<tree, content, vfs_root, mounts>> /\ ls' = ls
  BY <1>2
<1>4. handles[n] > IF ls'.dir = n THEN 1 ELSE 0
  <2>1. handles[n] \in Nat
    BY DEF FsInv, FsTypes
  <2> QED
    BY <1>1, <1>3, <2>1 DEF Mine
<1>5. DOMAIN ls' = {"dir", "idx", "name"}
  BY <1>3 DEF FsInv, FsTypes
<1> QED
  BY <1>1, <1>3, <1>4, <1>5, CloseInv

\* A turn of the loop of ls moves its index or closes its directory.
LEMMA LsNextInv ==
    ASSUME FsInv, ls_next
    PROVE  FsInv'
<1>1. ls.dir \in alive /\ UNCHANGED <<tree, content, vfs_root, mounts>>
  BY Zenon DEF ls_next
<1>2. /\ ls.dir \in Inodes /\ ls.dir # None /\ ls.dir < counter /\ handles[ls.dir] > 0
      /\ DOMAIN ls = {"dir", "idx", "name"}
  <2>1. ls.dir \in Inodes
    BY <1>1 DEF FsInv, FsTypes
  <2>2. ls.dir # None
    BY <2>1 DEF Inodes, None
  <2> QED
    BY <2>1, <2>2 DEF FsInv, FsTypes, Opened
<1>3. ASSUME ls' = [ls EXCEPT !.idx = (@ + 1) % IdxMod, !.name = Listed],
             UNCHANGED <<ref_count, handles>>
      PROVE  FsInv'
  <2>1. DOMAIN ls' = {"dir", "idx", "name"} /\ ls'.dir = ls.dir
    BY <1>2, <1>3
  <2>2. alive' = alive /\ counter' = counter
    BY <1>1 DEF tree
  <2>3. Opened'
    BY <1>2, <1>3, <2>1, <2>2 DEF FsInv, Opened, RefCountExact, Inodes
  <2>4. ref_count' \in [Inodes -> Nat] /\ handles' \in [Inodes -> Nat]
    BY <1>3 DEF FsInv, FsTypes
  <2>5. \A n \in Inodes : n >= counter => ref_count'[n] = 0 /\ handles'[n] = 0
    BY <1>3 DEF FsInv, Unmade
  <2> QED
    BY <1>1, <2>1, <2>3, <2>4, <2>5, HandlesInv
<1>4. ASSUME ls' = NoLs, close_node(ls.dir)
      PROVE  FsInv'
  <2> DEFINE n == ls.dir
  <2>1. DOMAIN ls' = {"dir", "idx", "name"} /\ ls'.dir = None
    BY <1>4 DEF NoLs
  <2>2. n \in alive /\ close_node(n)
    BY <1>1, <1>4
  <2>3. handles[n] > IF ls'.dir = n THEN 1 ELSE 0
    BY <1>2, <2>1
  <2> HIDE DEF n
  <2> QED
    BY <1>1, <2>1, <2>2, <2>3, CloseInv
<1> QED
  BY <1>3, <1>4, Zenon DEF ls_next

\* Dropping an entry of mount_table leaves the tree alone.
LEMMA UnmountInv ==
    ASSUME FsInv, NEW p \in Mounts, vfs_unmount(p)
    PROVE  FsInv'
<1>1. UNCHANGED <<tree, content, ref_count, vfs_root, handles, ls>>
  BY Zenon DEF vfs_unmount
<1>2. UNCHANGED <<alive, name, children, counter, data, size, ref_count, vfs_root,
                  handles, ls>>
  BY <1>1 DEF tree, content
<1>3. PICK i \in DOMAIN mounts : mounts' = RemoveAt(mounts, i)
  BY Zenon DEF vfs_unmount
<1> DEFINE R == [path : Mounts, root : Inodes]
<1>4. mounts \in Seq(R) /\ R = R'
  BY DEF FsInv, FsTypes, Inodes
<1> HIDE DEF R
<1>5. mounts' \in Seq(R) /\ Len(mounts') = Len(mounts) - 1
  BY <1>3, <1>4, Without
<1>6. FsTypes'
  <2>1. mounts' \in Seq([path : Mounts, root : Inodes])
    BY <1>5 DEF R
  <2> QED
    BY <1>2, <2>1, Zenon DEF FsInv, FsTypes, Inodes, Stored
<1>7. Unmade' /\ Opened' /\ Covered'
  BY <1>2 DEF FsInv, Unmade, Opened, RefCountExact, Covered, Inodes
<1>8. TreeSound'
  <2>1. Len(mounts') <= MaxMounts
    BY <1>4, <1>5, Bounds DEF FsInv, TreeSound
  <2> QED
    BY <1>2, <2>1 DEF FsInv, TreeSound, Inodes
<1> QED
  BY <1>6, <1>7, <1>8 DEF FsInv

\* A new root is a node that is in no directory.
LEMMA MountInv ==
    ASSUME FsInv, NEW p \in Mounts, vfs_mount(p)
    PROVE  FsInv'
<1>1. /\ Len(mounts) < MaxMounts
      /\ counter \in Inodes
      /\ counter' = counter + 1
      /\ alive' = alive \cup {counter}
      /\ name' = [name EXCEPT ![counter] = "tmpfs"]
      /\ mounts' = Append(mounts, [path |-> p, root |-> counter])
      /\ vfs_root' = IF p = RootPath THEN counter ELSE vfs_root
      /\ UNCHANGED <<children, data, size, ref_count, handles, ls>>
  <2>1. UNCHANGED <<children, content, ref_count, handles, ls>>
    BY Zenon DEF vfs_mount
  <2>2. UNCHANGED <<children, data, size, ref_count, handles, ls>>
    BY <2>1 DEF content
  <2> QED
    BY <2>2, Zenon DEF vfs_mount, new_inode
<1>2. counter \notin alive /\ children[counter] = <<>>
  <2>1. counter \in Int
    BY DEF FsInv, FsTypes
  <2>2. counter \notin alive
    BY <2>1 DEF FsInv, Unmade
  <2> QED
    BY <1>1, <2>2 DEF FsInv, Unmade
<1> DEFINE R == [path : Mounts, root : Inodes]
           e == [path |-> p, root |-> counter]
<1>3. e \in R /\ mounts \in Seq(R)
  BY <1>1 DEF FsInv, FsTypes
<1> HIDE DEF R, e
<1>4. mounts' \in Seq(R) /\ Len(mounts') = Len(mounts) + 1
  BY <1>1, <1>3 DEF e
<1>5. FsTypes'
  <2>1. mounts' \in Seq([path : Mounts, root : Inodes])
    BY <1>4 DEF R
  <2>2. counter' \in 2 .. MaxInodes + 1
    <3>1. counter \in 1 .. MaxInodes /\ counter \in 2 .. MaxInodes + 1 /\ counter' = counter + 1
      BY <1>1 DEF FsInv, FsTypes, Inodes
    <3> QED
      BY <3>1, Bounds
  <2>3. alive' \subseteq Inodes /\ vfs_root' \in Inodes
    BY <1>1 DEF FsInv, FsTypes
  <2>4. DOMAIN name' = Inodes
    BY <1>1, Zenon DEF FsInv, FsTypes
  <2> QED
    BY <1>1, <2>1, <2>2, <2>3, <2>4, Zenon DEF FsInv, FsTypes, Inodes, Stored
<1>6. Unmade'
  <2>1. \A n \in alive' : n < counter'
    BY <1>1 DEF FsInv, Unmade, FsTypes, Inodes
  <2>2. \A n \in Inodes \ alive' : children'[n] = <<>>
    BY <1>1 DEF FsInv, Unmade
  <2>3. \A n \in Inodes : n >= counter' => ref_count'[n] = 0 /\ handles'[n] = 0
    BY <1>1 DEF FsInv, Unmade, Inodes
  <2> QED
    BY <2>1, <2>2, <2>3 DEF Unmade, Inodes
<1>7. TreeSound'
  <2>1. \A n \in Inodes : Len(children'[n]) <= MaxChildren
    BY <1>1 DEF FsInv, TreeSound
  <2>2. Len(mounts') <= MaxMounts
    BY <1>1, <1>3, <1>4, Bounds
  <2>3. vfs_root' \in alive'
    BY <1>1 DEF FsInv, TreeSound
  <2>4. ASSUME NEW n \in alive', NEW i \in DOMAIN children'[n]
        PROVE  n \in alive /\ i \in DOMAIN children[n] /\ children'[n][i] = children[n][i]
    <3>1. n # counter
      <4>1. DOMAIN <<>> = {}
        OBVIOUS
      <4> QED
        BY <1>1, <1>2, <2>4, <4>1
    <3> QED
      BY <1>1, <2>4, <3>1
  <2>5. \A n \in alive : \A i \in DOMAIN children[n] : children[n][i] \in alive \ {vfs_root}
    BY DEF FsInv, TreeSound
  <2>6. \A m, n \in alive : \A i \in DOMAIN children[m], j \in DOMAIN children[n] :
           children[m][i] = children[n][j] => m = n /\ i = j
    BY DEF FsInv, TreeSound
  <2>7. \A m, n \in alive' : \A i \in DOMAIN children'[m], j \in DOMAIN children'[n] :
           children'[m][i] = children'[n][j] => m = n /\ i = j
    BY <2>4, <2>6
  <2>8. \A n \in alive' : \A i \in DOMAIN children'[n] :
           children'[n][i] \in alive' \ {vfs_root'}
    BY <1>1, <1>2, <2>4, <2>5
  <2> QED
    BY <2>1, <2>2, <2>3, <2>7, <2>8 DEF TreeSound, Inodes
<1>8. Opened'
  BY <1>1, <1>2 DEF FsInv, Opened, Unmade, RefCountExact, Inodes, FsTypes
<1>9. Covered'
  BY <1>1 DEF FsInv, Covered, Inodes
<1> QED
  BY <1>5, <1>6, <1>7, <1>8, <1>9 DEF FsInv

\* The capacity is the number of bytes needed, rounded up.
LEMMA Rounded ==
    ASSUME NEW x \in Nat
    PROVE  AlignUp(x) \in Nat /\ AlignUp(x) >= x
<1> DEFINE y == x + Chunk - 1
           q == y \div Chunk
<1>1. y \in Nat /\ Chunk \in Nat /\ Chunk > 0
  BY Bounds
<1> HIDE DEF y
<1>2. q \in Nat /\ y < (q + 1) * Chunk
  BY <1>1
<1> HIDE DEF q
<1>3. q * Chunk \in Nat /\ (q + 1) * Chunk = (q * Chunk) + Chunk
  BY <1>1, <1>2
<1>4. AlignUp(x) = q * Chunk
  BY DEF AlignUp, q, y
<1>5. x + Chunk - 1 < (q * Chunk) + Chunk
  BY <1>2, <1>3 DEF y
<1> QED
  BY <1>1, <1>3, <1>4, <1>5

\* krealloc keeps what was there and makes room for what is written.
LEMMA BufferFits ==
    ASSUME FsInv, NEW n \in Inodes, NEW end \in Nat
    PROVE  /\ Buffer(n, end) \in Seq(Stored)
           /\ Len(Buffer(n, end)) >= end
           /\ Len(Buffer(n, end)) >= Len(data[n])
<1>1. data[n] \in Seq(Stored)
  BY DEF FsInv, FsTypes
<1>2. CASE end <= Len(data[n])
  BY <1>1, <1>2 DEF Buffer
<1>3. CASE end > Len(data[n])
  <2> DEFINE k == AlignUp(end) - Len(data[n])
             more == [i \in 1 .. k |-> "junk"]
  <2>1. k \in Nat /\ k + Len(data[n]) >= end
    <3>1. AlignUp(end) \in Nat /\ AlignUp(end) >= end
      BY Rounded
    <3> QED
      BY <1>1, <1>3, <3>1
  <2>2. "junk" \in Stored
    BY Zenon DEF Stored
  <2> HIDE DEF k
  <2>3. more \in Seq(Stored) /\ Len(more) = k
    BY <2>1, <2>2
  <2> HIDE DEF more
  <2>4. Buffer(n, end) = data[n] \o more
    <3>1. ~(end <= Len(data[n]))
      BY <1>1, <1>3
    <3> QED
      BY <3>1, Zenon DEF Buffer, more, k
  <2> QED
    BY <1>1, <2>1, <2>3, <2>4
<1> QED
  BY <1>1, <1>2, <1>3

\* vfs_write moves size only within the buffer it has made.
LEMMA WriteInv ==
    ASSUME FsInv, NEW n \in Inodes, NEW offset \in Offsets, NEW buf \in Writes,
           vfs_write(n, offset, buf)
    PROVE  FsInv'
<1> DEFINE end == offset + Len(buf)
           room == Buffer(n, end)
           bytes == [i \in 1 .. Len(room) |->
                        IF i \in offset + 1 .. end THEN buf[i - offset] ELSE room[i]]
           long == IF end > size[n] THEN end ELSE size[n]
<1>1. /\ data' = [data EXCEPT ![n] = bytes]
      /\ size' = [size EXCEPT ![n] = long]
  BY Zenon DEF vfs_write
<1>2. UNCHANGED <<alive, name, children, counter, ref_count, vfs_root, mounts, handles, ls>>
  <2>1. UNCHANGED <<tree, ref_count, vfs_root, mounts, handles, ls>>
    BY Zenon DEF vfs_write
  <2> QED
    BY <2>1 DEF tree
<1>3. offset \in Nat /\ Len(buf) \in Nat /\ DOMAIN buf = 1 .. Len(buf)
  BY TmpfsAssumption
<1>4. \A i \in DOMAIN buf : buf[i] \in Stored
  <2>1. {buf[i] : i \in DOMAIN buf} \in {{w[i] : i \in DOMAIN w} : w \in Writes}
    BY Zenon
  <2>2. \A i \in DOMAIN buf : buf[i] \in {buf[j] : j \in DOMAIN buf}
    BY Zenon
  <2> QED
    BY <2>1, <2>2, Zenon DEF Stored
<1>5. end \in Nat
  BY <1>3
<1> HIDE DEF room
<1>6. room \in Seq(Stored) /\ Len(room) \in Nat /\ Len(room) >= end /\ Len(room) >= Len(data[n])
  <2>1. room \in Seq(Stored) /\ Len(room) >= end /\ Len(room) >= Len(data[n])
    BY <1>5, BufferFits DEF room
  <2> QED
    BY <2>1
<1>7. \A i \in 1 .. Len(room) :
         (IF i \in offset + 1 .. end THEN buf[i - offset] ELSE room[i]) \in Stored
  <2> TAKE i \in 1 .. Len(room)
  <2>1. room[i] \in Stored
    BY <1>6
  <2>2. i \in offset + 1 .. end => i - offset \in DOMAIN buf
    BY <1>3
  <2> QED
    BY <1>4, <2>1, <2>2
<1>8. bytes \in Seq(Stored) /\ Len(bytes) = Len(room)
  <2>1. bytes \in [1 .. Len(room) -> Stored]
    BY <1>7, Zenon
  <2> HIDE DEF bytes
  <2> QED
    BY <1>6, <2>1
<1> HIDE DEF bytes
<1>9. long \in Nat /\ long <= Len(bytes)
  <2>1. size[n] \in Nat /\ data[n] \in Seq(Stored)
    BY DEF FsInv, FsTypes
  <2>2. size[n] <= Len(data[n]) /\ Len(data[n]) \in Nat
    BY <2>1 DEF FsInv, Covered
  <2> QED
    BY <1>5, <1>6, <1>8, <2>1, <2>2
<1> HIDE DEF long
<1>10. FsTypes'
  <2>1. data \in [Inodes -> Seq(Stored)] /\ size \in [Inodes -> Nat]
    BY DEF FsInv, FsTypes
  <2>2. data' \in [Inodes -> Seq(Stored)] /\ size' \in [Inodes -> Nat]
    BY <1>1, <1>8, <1>9, <2>1, Zenon
  <2> QED
    BY <1>2, <2>2, Zenon DEF FsInv, FsTypes, Inodes, Stored
<1>11. Covered'
  <2>1. \A m \in Inodes : /\ data'[m] = IF m = n THEN bytes ELSE data[m]
                          /\ size'[m] = IF m = n THEN long ELSE size[m]
    BY <1>1 DEF FsInv, FsTypes
  <2> QED
    BY <1>9, <2>1 DEF FsInv, Covered, Inodes
<1>12. Unmade' /\ Opened'
  BY <1>2 DEF FsInv, Unmade, Opened, RefCountExact, Inodes
<1>13. TreeSound'
  BY <1>2, TreeKept DEF FsInv
<1> QED
  BY <1>10, <1>11, <1>12, <1>13 DEF FsInv

LEMMA FsNext == FsInv /\ [Next]_vars => FsInv'
<1> SUFFICES ASSUME FsInv, [Next]_vars PROVE FsInv'
  OBVIOUS
<1>1. ASSUME NEW p \in Paths, vfs_mkdir(p) PROVE FsInv'
  BY <1>1, MkdirInv
<1>2. ASSUME NEW p \in Paths, vfs_unlink(p) PROVE FsInv'
  BY <1>2, UnlinkInv
<1>3. ASSUME NEW p \in Paths, vfs_open(p) \/ ls_open(p) PROVE FsInv'
  BY <1>3, OpenInv
<1>4. ASSUME NEW p \in Mounts, vfs_mount(p) PROVE FsInv'
  BY <1>4, MountInv
<1>5. ASSUME NEW p \in Mounts, vfs_unmount(p) PROVE FsInv'
  BY <1>5, UnmountInv
<1>6. ASSUME NEW n \in Inodes, vfs_close(n) PROVE FsInv'
  BY <1>6, VfsCloseInv
<1>7. ASSUME NEW n \in Inodes, NEW o \in Offsets, NEW w \in Writes, vfs_write(n, o, w)
      PROVE  FsInv'
  BY <1>7, WriteInv
<1>8. ASSUME ls_next PROVE FsInv'
  BY <1>8, LsNextInv
<1>9. ASSUME UNCHANGED vars PROVE FsInv'
  <2>1. UNCHANGED <<alive, name, children, data, size, ref_count, counter, vfs_root,
                    mounts, handles, ls>>
    BY <1>9, Zenon DEF vars
  <2>2. FsTypes'
    BY <2>1, Zenon DEF FsInv, FsTypes, Inodes, Stored
  <2>3. Unmade' /\ Opened' /\ Covered'
    BY <2>1 DEF FsInv, Unmade, Opened, RefCountExact, Covered, Inodes
  <2>4. TreeSound'
    BY <2>1, TreeKept DEF FsInv
  <2> QED
    BY <2>2, <2>3, <2>4 DEF FsInv
<1> QED
  BY <1>1, <1>2, <1>3, <1>4, <1>5, <1>6, <1>7, <1>8, <1>9, Zenon DEF Next

LEMMA FsAlways == Spec => []FsInv
  BY FsInitInv, FsNext, PTL DEF Spec

\* Over any order of mkdir, unlink, mount, unmount, open, close, write and ls,
\* for any limits: tmpfs_unlink shifts the entries so that no directory keeps a
\* pointer to a freed inode and no inode is entered twice, and neither
\* children[TMPFS_MAX_CHILDREN] nor mount_table overflows.
THEOREM TreeStaysSound == Spec => []TreeSound
<1>1. FsInv => TreeSound
  BY DEF FsInv
<1> QED
  BY <1>1, FsAlways, PTL

\* vfs_open and vfs_close, and ls, which opens a directory and closes it turns
\* of its loop later, leave in ref_count how often the node is open; the test
\* for 0 in vfs_close never stops a count that a client still has open.
THEOREM CountsAreExact == Spec => []RefCountExact
<1>1. FsInv => RefCountExact
  BY DEF FsInv, Opened
<1> QED
  BY <1>1, FsAlways, PTL

\* tmpfs_write rounds the capacity up so that no write, at any offset, leaves a
\* size beyond the buffer that tmpfs_read copies from.
THEOREM BuffersCoverFiles == Spec => []DataCovered
<1>1. FsInv => DataCovered
  BY DEF FsInv, FsTypes, Covered, DataCovered
<1> QED
  BY <1>1, FsAlways, PTL

-----------------------------------------------------------------------------
(***************************************************************************)
(* vfs_mkdir and vfs_open agree on paths.                                  *)
(***************************************************************************)

\* What holds of every state holds of the next one.
AllWalk == \A p : Len(p.comps) \in Nat =>
              \E g : IsWalk(p, g, Len(p.comps)) /\ vfs_resolve_path(p) = g[Len(p.comps)]

LEMMA AllWalkHere == AllWalk
  BY ResolveWalks DEF AllWalk

LEMMA AllWalkNext == AllWalk'
  BY AllWalkHere, PTL

\* What is found in a directory is allocated.
LEMMA FindAlive ==
    ASSUME FsInv, NEW n \in alive, NEW s, finddir(n, s) # None
    PROVE  finddir(n, s) \in alive
<1>1. FsTypes /\ n \in Inodes /\ children[n] \in Seq(Inodes)
  BY DEF FsInv, FsTypes
<1>2. Position(n, s) \in DOMAIN children[n] /\ finddir(n, s) = children[n][Position(n, s)]
  BY <1>1, FindChild
<1> QED
  BY <1>2 DEF FsInv, TreeSound

\* Two walks that turn alike come to the same nodes.
LEMMA SameWalk ==
    ASSUME NEW N \in Nat, NEW g, NEW h, g[0] = h[0],
           \A i \in 1 .. N : g[i - 1] = h[i - 1] => g[i] = h[i]
    PROVE  \A i \in 0 .. N : g[i] = h[i]
<1> DEFINE S == {m \in Nat : m <= N => g[m] = h[m]}
<1>1. 0 \in S
  OBVIOUS
<1>2. ASSUME NEW m \in Nat, m \in S
      PROVE  m + 1 \in S
  <2> SUFFICES ASSUME m + 1 <= N PROVE g[m + 1] = h[m + 1]
    OBVIOUS
  <2>1. m + 1 \in 1 .. N /\ (m + 1) - 1 = m /\ g[m] = h[m]
    BY <1>2
  <2> QED
    BY <2>1
<1>3. Nat \subseteq S
  BY <1>1, <1>2, SetInduction
<1> QED
  BY <1>3

\* A walk that does not end in NULL never was there.
LEMMA WalkNotNull ==
    ASSUME NEW p, NEW N \in Nat, NEW g, IsWalk(p, g, N), g[N] # None
    PROVE  \A i \in 0 .. N : g[i] # None
<1> SUFFICES ASSUME NEW k \in 0 .. N, g[k] = None PROVE FALSE
  OBVIOUS
<1> DEFINE S == {m \in Nat : m + k <= N => g[m + k] = None}
<1>1. \A i \in 0 .. N : g[i] = IF i = 0 THEN vfs_root ELSE Turn(p, i, g[i - 1])
  BY DEF IsWalk
<1>2. 0 \in S
  OBVIOUS
<1>3. ASSUME NEW m \in Nat, m \in S
      PROVE  m + 1 \in S
  <2> SUFFICES ASSUME (m + 1) + k <= N PROVE g[(m + 1) + k] = None
    OBVIOUS
  <2> DEFINE i == (m + 1) + k
  <2>1. i \in 0 .. N /\ i # 0 /\ i - 1 = m + k /\ g[m + k] = None
    BY <1>3
  <2> HIDE DEF i
  <2>2. g[i] = Turn(p, i, None)
    BY <1>1, <2>1
  <2> QED
    BY <2>2 DEF Turn, i
<1>4. Nat \subseteq S
  BY <1>2, <1>3, SetInduction
<1>5. N - k \in Nat /\ (N - k) + k = N
  OBVIOUS
<1> QED
  BY <1>4, <1>5

\* What finddir finds is the first of that name, whatever is entered after it.
LEMMA FirstIsFound ==
    ASSUME FsTypes, NEW n \in Inodes, NEW s, NEW i \in 1 .. Len(children[n]),
           name[children[n][i]] = s,
           \A j \in 1 .. i - 1 : name[children[n][j]] # s
    PROVE  finddir(n, s) = children[n][i]
<1>1. children[n] \in Seq(Inodes) /\ Len(children[n]) \in Nat
  BY DEF FsTypes
<1>2. DOMAIN children[n] = 1 .. Len(children[n])
  BY <1>1
<1>3. i \in Called(n, s)
  BY <1>2 DEF Called
<1>4. \A j \in Called(n, s) : i <= j /\ j \in Nat
  <2> TAKE j \in Called(n, s)
  <2>1. j \in 1 .. Len(children[n]) /\ name[children[n][j]] = s
    BY <1>2 DEF Called
  <2>2. j \notin 1 .. i - 1
    BY <2>1
  <2> QED
    BY <1>1, <2>1, <2>2
<1>5. \E k \in Called(n, s) : \A j \in Called(n, s) : k <= j
  BY <1>3, <1>4
<1>6. Position(n, s) \in Called(n, s) /\ \A j \in Called(n, s) : Position(n, s) <= j
  BY <1>5, Zenon DEF Position
<1>7. Position(n, s) = i
  <2>1. Position(n, s) <= i /\ i <= Position(n, s) /\ Position(n, s) \in Nat /\ i \in Nat
    BY <1>3, <1>4, <1>6
  <2> QED
    BY <2>1
<1> QED
  BY <1>3, <1>7 DEF finddir

AllFound == FsTypes => \A n \in Inodes : \A s : \A i \in 1 .. Len(children[n]) :
               name[children[n][i]] = s /\ (\A j \in 1 .. i - 1 : name[children[n][j]] # s)
                  => finddir(n, s) = children[n][i]

LEMMA AllFoundHere == AllFound
  BY FirstIsFound DEF AllFound

LEMMA AllFoundNext == AllFound'
  BY AllFoundHere, PTL

\* The children before the one that finddir returns have other names; if it
\* returns NULL all of them have.
LEMMA FoundIsFirst ==
    ASSUME FsTypes, NEW n \in Inodes, NEW s
    PROVE  \/ /\ finddir(n, s) = None
              /\ \A j \in 1 .. Len(children[n]) : name[children[n][j]] # s
           \/ \E i \in 1 .. Len(children[n]) :
                 /\ finddir(n, s) = children[n][i] /\ finddir(n, s) # None
                 /\ name[children[n][i]] = s
                 /\ \A j \in 1 .. i - 1 : name[children[n][j]] # s
<1>1. children[n] \in Seq(Inodes) /\ Len(children[n]) \in Nat
  BY DEF FsTypes
<1>2. DOMAIN children[n] = 1 .. Len(children[n])
  BY <1>1
<1>3. CASE Called(n, s) = {}
  BY <1>2, <1>3 DEF finddir, Called
<1>4. CASE Called(n, s) # {}
  <2>1. Called(n, s) \in SUBSET Nat
    BY <1>1, <1>2 DEF Called
  <2>2. \E i \in Called(n, s) : \A j \in Called(n, s) : i <= j
    BY <1>4, <2>1, LeastElement
  <2>3. PICK i \in Called(n, s) : i = Position(n, s) /\ \A j \in Called(n, s) : i <= j
    BY <2>2, Zenon DEF Position
  <2>4. i \in 1 .. Len(children[n]) /\ name[children[n][i]] = s
    BY <1>2, <2>3 DEF Called
  <2>5. \A j \in 1 .. i - 1 : name[children[n][j]] # s
    <3> SUFFICES ASSUME NEW j \in 1 .. i - 1, name[children[n][j]] = s PROVE FALSE
      OBVIOUS
    <3>1. j \in Called(n, s) /\ ~(i <= j)
      BY <1>1, <1>2, <2>4 DEF Called
    <3> QED
      BY <2>3, <3>1
  <2>6. finddir(n, s) = children[n][i]
    BY <1>4, <2>3 DEF finddir
  <2>7. children[n][i] \in Inodes
    BY <1>1, <2>4
  <2>8. 0 \notin Inodes
    BY DEF Inodes
  <2> QED
    BY <2>4, <2>5, <2>6, <2>7, <2>8 DEF None
<1> QED
  BY <1>3, <1>4

\* What vfs_mkdir enters comes after what the directory holds already: what
\* finddir found before it finds still, and what it did not find is the new
\* node, if it has that name.
LEMMA MkdirFinds ==
    ASSUME FsInv, FsInv', NEW p \in Paths, vfs_mkdir(p), NEW n \in alive, NEW s
    PROVE  /\ vfs_root' = vfs_root
           /\ finddir(n, s) # None => finddir(n, s)' = finddir(n, s)
           /\ finddir(n, s) = None /\ s = vfs_path_basename(p)
              /\ n = vfs_resolve_path(vfs_path_dirname(p)) => finddir(n, s)' = counter
<1> DEFINE parent == vfs_resolve_path(vfs_path_dirname(p))
           base == vfs_path_basename(p)
           new == Append(children[parent], counter)
<1>1. /\ counter \in Inodes
      /\ name' = [name EXCEPT ![counter] = base]
      /\ children' = [children EXCEPT ![parent] = new]
      /\ parent # None
  BY Zenon DEF vfs_mkdir, new_inode
<1>2. vfs_root' = vfs_root
  <2>1. UNCHANGED <<content, ref_count, vfs_root, mounts, handles, ls>>
    BY Zenon DEF vfs_mkdir
  <2> QED
    BY <2>1
<1>3. parent \in alive
  BY <1>1, ResolveAlive, PathTypes DEF FsInv
<1>4. n \in Inodes /\ parent \in Inodes /\ n' = n
  BY <1>3 DEF FsInv, FsTypes
<1> HIDE DEF parent, base
<1>5. children[n] \in Seq(Inodes) /\ Len(children[n]) \in Nat
  BY <1>4 DEF FsInv, FsTypes
<1>6. children'[n] = IF n = parent THEN Append(children[n], counter) ELSE children[n]
  BY <1>1, <1>4 DEF FsInv, FsTypes
<1>7. /\ Len(children'[n]) \in Nat /\ Len(children'[n]) >= Len(children[n])
      /\ \A i \in 1 .. Len(children[n]) : children'[n][i] = children[n][i]
      /\ n = parent => /\ Len(children'[n]) = Len(children[n]) + 1
                       /\ children'[n][Len(children[n]) + 1] = counter
  <2> DEFINE c == children[n]
             d == Append(c, counter)
  <2>1. /\ Len(d) = Len(c) + 1 /\ d[Len(c) + 1] = counter
        /\ \A i \in 1 .. Len(c) : d[i] = c[i]
    BY <1>1, <1>5
  <2>2. children'[n] = IF n = parent THEN d ELSE c
    BY <1>6
  <2>3. Len(c) \in Nat
    BY <1>5
  <2> HIDE DEF c, d
  <2>4. /\ Len(children'[n]) \in Nat /\ Len(children'[n]) >= Len(c)
        /\ \A i \in 1 .. Len(c) : children'[n][i] = c[i]
        /\ n = parent => Len(children'[n]) = Len(c) + 1 /\ children'[n][Len(c) + 1] = counter
    BY <2>1, <2>2, <2>3
  <2> QED
    BY <2>4 DEF c
<1>8. \A i \in 1 .. Len(children[n]) : name'[children'[n][i]] = name[children[n][i]]
  <2> TAKE i \in 1 .. Len(children[n])
  <2>1. children[n][i] \in alive
    <3>1. i \in DOMAIN children[n]
      BY <1>5
    <3> QED
      BY <3>1 DEF FsInv, TreeSound
  <2>2. children[n][i] # counter /\ children[n][i] \in Inodes
    <3>1. counter \in Int /\ counter \notin alive
      BY DEF FsInv, FsTypes, Unmade
    <3> QED
      BY <2>1, <3>1 DEF FsInv, FsTypes
  <2>3. name'[children[n][i]] = name[children[n][i]]
    BY <1>1, <2>2 DEF FsInv, FsTypes
  <2> QED
    BY <1>7, <2>3
<1>9. ASSUME NEW i \in 1 .. Len(children'[n]), name'[children'[n][i]] = s,
             \A j \in 1 .. i - 1 : name'[children'[n][j]] # s
      PROVE  finddir(n, s)' = children'[n][i]
  BY <1>4, <1>9, AllFoundNext DEF AllFound, FsInv, Inodes
<1>10. CASE finddir(n, s) = None
  <2>1. \A j \in 1 .. Len(children[n]) : name[children[n][j]] # s
    BY <1>4, <1>10, FoundIsFirst DEF FsInv
  <2>2. ASSUME n = parent, s = base PROVE finddir(n, s)' = counter
    <3> DEFINE i == Len(children[n]) + 1
    <3>1. i \in 1 .. Len(children'[n]) /\ children'[n][i] = counter
      BY <1>5, <1>7, <2>2
    <3>2. name'[counter] = s
      BY <1>1, <2>2 DEF FsInv, FsTypes
    <3>3. \A j \in 1 .. i - 1 : name'[children'[n][j]] # s
      BY <1>5, <1>8, <2>1
    <3> HIDE DEF i
    <3> QED
      BY <1>9, <3>1, <3>2, <3>3
  <2> QED
    BY <1>2, <1>10, <2>2 DEF parent, base
<1>11. CASE finddir(n, s) # None
  <2>1. PICK i \in 1 .. Len(children[n]) :
           /\ finddir(n, s) = children[n][i] /\ name[children[n][i]] = s
           /\ \A j \in 1 .. i - 1 : name[children[n][j]] # s
    BY <1>4, <1>11, FoundIsFirst DEF FsInv
  <2>2. i \in 1 .. Len(children'[n]) /\ name'[children'[n][i]] = s
    BY <1>5, <1>7, <1>8, <2>1
  <2>3. \A j \in 1 .. i - 1 : name'[children'[n][j]] # s
    <3> TAKE j \in 1 .. i - 1
    <3>1. j \in 1 .. Len(children[n])
      BY <1>5
    <3> QED
      BY <1>8, <2>1, <3>1
  <2>4. finddir(n, s)' = children'[n][i]
    BY <1>9, <2>2, <2>3
  <2> QED
    BY <1>2, <1>7, <1>11, <2>1, <2>4
<1> QED
  BY <1>10, <1>11

\* All entries of a sequence but the last.
LEMMA FrontIs ==
    ASSUME NEW S, NEW c \in Seq(S), Len(c) # 0
    PROVE  Len(Front(c)) = Len(c) - 1 /\ \A i \in 1 .. Len(c) - 1 : Front(c)[i] = c[i]
<1> DEFINE k == Len(c) - 1
<1>1. k \in Nat /\ k <= Len(c)
  OBVIOUS
<1>2. Front(c) = SubSeq(c, 1, k)
  BY DEF Front
<1> HIDE DEF k
<1>3. Len(SubSeq(c, 1, k)) = k /\ \A i \in 1 .. k : SubSeq(c, 1, k)[i] = c[i]
  BY <1>1
<1> QED
  BY <1>2, <1>3 DEF k

\* AsMade(p) is the directory in which vfs_mkdir makes the node, with the name
\* of the node at its end.
LEMMA MadeSplits ==
    ASSUME NEW p \in Paths, Len(p.comps) # 0
    PROVE  LET q == AsMade(p)
               d == vfs_path_dirname(p)
           IN  /\ Len(q.comps) \in Nat \ {0}
               /\ Len(d.comps) = Len(q.comps) - 1
               /\ \A i \in 1 .. Len(q.comps) - 1 : d.comps[i] = q.comps[i]
               /\ q.comps[Len(q.comps)] = vfs_path_basename(p)
               /\ \A j \in 1 .. Len(q.comps) :
                     q.comps[j] = "." \/ \E i \in DOMAIN p.comps : q.comps[j] = p.comps[i]
<1> DEFINE q == AsMade(p)
           d == vfs_path_dirname(p)
           c == p.comps
<1>1. p \in [abs : BOOLEAN, comps : Seq(STRING)] /\ c \in Seq(STRING) /\ Len(c) \in Nat
  BY PathTypes
<1>2. DOMAIN c = 1 .. Len(c) /\ c # <<>>
  BY <1>1
<1>3. vfs_path_basename(p) = c[Len(c)]
  BY <1>2 DEF vfs_path_basename, Last
<1>4. CASE ~p.abs /\ Len(c) = 1
  <2>1. d = [abs |-> FALSE, comps |-> <<".">>]
    BY <1>4 DEF vfs_path_dirname
  <2>2. q = [abs |-> FALSE, comps |-> <<".">> \o c]
    BY <1>4, Zenon DEF AsMade
  <2>3. d.comps = <<".">> /\ q.comps = <<".">> \o c
    BY <2>1, <2>2
  <2>4. /\ Len(<<".">> \o c) = 2
        /\ (<<".">> \o c)[1] = "." /\ (<<".">> \o c)[2] = c[1]
    <3> DEFINE dot == <<".">>
               S == STRING \cup {"."}
    <3>1. dot \in Seq(S) /\ c \in Seq(S) /\ Len(dot) = 1 /\ dot[1] = "."
      BY <1>1
    <3> HIDE DEF dot, S
    <3>2. /\ Len(dot \o c) = Len(dot) + Len(c)
          /\ \A j \in 1 .. Len(dot) + Len(c) :
                (dot \o c)[j] = IF j <= Len(dot) THEN dot[j] ELSE c[j - Len(dot)]
      BY <3>1, Joined
    <3>3. (dot \o c)[1] = dot[1] /\ (dot \o c)[2] = c[1] /\ Len(dot \o c) = 2
      BY <1>4, <3>1, <3>2
    <3> QED
      BY <3>1, <3>2, <3>3 DEF dot
  <2> HIDE DEF q, d
  <2>5. \A j \in 1 .. 2 : j = 1 \/ j = 2
    OBVIOUS
  <2>6. 1 \in DOMAIN c /\ \A i \in 1 .. 2 - 1 : i = 1
    BY <1>2, <1>4
  <2>7. Len(d.comps) = 1 /\ d.comps[1] = "."
    BY <2>3
  <2> QED
    BY <1>3, <1>4, <2>3, <2>4, <2>5, <2>6, <2>7 DEF q, d
<1>5. CASE ~(~p.abs /\ Len(c) = 1)
  <2>1. q = p
    BY <1>5, Zenon DEF AsMade
  <2>2. d = [p EXCEPT !.comps = Front(c)]
    <3>1. ~(~p.abs /\ Len(c) <= 1)
      BY <1>1, <1>5
    <3> QED
      BY <1>2, <3>1 DEF vfs_path_dirname
  <2>3. d.comps = Front(c)
    BY <1>1, <2>2
  <2>4. Len(Front(c)) = Len(c) - 1 /\ \A i \in 1 .. Len(c) - 1 : Front(c)[i] = c[i]
    BY <1>1, FrontIs
  <2> HIDE DEF q, d
  <2> QED
    BY <1>1, <1>2, <1>3, <2>1, <2>3, <2>4 DEF q, d
<1> QED
  BY <1>4, <1>5

Full(p) == \A i \in DOMAIN p.comps : p.comps[i] # ""

\* After vfs_mkdir(p) the walk along AsMade(p) comes to the node it has made, or
\* to the one of that name that was there before.
LEMMA MkdirIsFound ==
    ASSUME FsInv, FsInv', NEW p \in Paths, vfs_mkdir(p), Full(p), NEW w, w = AsMade(p)
    PROVE  /\ vfs_resolve_path(w)' # None
           /\ vfs_resolve_path(w)' = counter \/ vfs_resolve_path(w)' = vfs_resolve_path(w)
<1> DEFINE q == vfs_path_dirname(p)
           parent == vfs_resolve_path(q)
           base == vfs_path_basename(p)
           N == Len(w.comps)
<1>1. N \in Nat /\ Len(q.comps) \in Nat
  <2>1. Len(p.comps) \in Nat /\ Len(q.comps) \in Nat
    BY PathTypes
  <2>2. Len(p.comps) = 0 => w = p
    <3>1. Len(p.comps) = 0 => ~(~p.abs /\ Len(p.comps) = 1)
      OBVIOUS
    <3> QED
      BY <3>1, Zenon DEF AsMade
  <2>3. Len(p.comps) # 0 => N \in Nat
    BY MadeSplits
  <2> QED
    BY <2>1, <2>2, <2>3
<1>2. parent # None
  BY DEF vfs_mkdir
<1>3. parent \in alive
  BY <1>1, <1>2, ResolveAlive DEF FsInv
<1>4. counter \in Inodes /\ vfs_root' = vfs_root
  <2>1. counter \in Inodes
    BY Zenon DEF vfs_mkdir, new_inode
  <2> QED
    BY <1>3, <2>1, MkdirFinds
<1>5. PICK f : IsWalk(w, f, N) /\ vfs_resolve_path(w) = f[N]
  BY <1>1, ResolveWalks
<1>6. PICK h : IsWalk(w, h, N)' /\ vfs_resolve_path(w)' = h[N]
  BY <1>1, AllWalkNext DEF AllWalk
<1>7. \A i \in 0 .. N : f[i] = IF i = 0 THEN vfs_root ELSE Turn(w, i, f[i - 1])
  BY <1>5 DEF IsWalk
<1>8. \A i \in 0 .. N : h[i] = IF i = 0 THEN vfs_root ELSE Turn(w, i, h[i - 1])'
  BY <1>4, <1>6 DEF IsWalk
<1>9. CASE Len(p.comps) = 0
  <2>0. N = 0
    <3>1. ~(Len(p.comps) = 1)
      BY <1>9
    <3> QED
      BY <1>9, <3>1 DEF AsMade
  <2>1. h[0] = vfs_root /\ f[0] = vfs_root
    BY <1>7, <1>8, <2>0
  <2>2. vfs_root # None
    BY DEF FsInv, FsTypes, Inodes, None
  <2> QED
    BY <1>5, <1>6, <2>0, <2>1, <2>2
<1>10. CASE Len(p.comps) # 0
  <2>0. N # 0
    BY <1>10, MadeSplits
  <2>1. Len(q.comps) = N - 1 /\ \A i \in 1 .. N - 1 : q.comps[i] = w.comps[i]
    BY <1>10, MadeSplits
  <2>2. N - 1 \in Nat /\ N \in 0 .. N
    BY <1>1, <2>0
  <2>3. \A i \in 1 .. N : w.comps[i] # ""
    <3>1. \A j \in 1 .. N : w.comps[j] = "." \/ \E i \in DOMAIN p.comps : w.comps[j] = p.comps[i]
      BY <1>10, MadeSplits
    <3> QED
      BY <3>1 DEF Full
  <2> HIDE DEF q
  <2>4. PICK g : IsWalk(q, g, N - 1) /\ parent = g[N - 1]
    <3>1. \E g : IsWalk(q, g, Len(q.comps)) /\ vfs_resolve_path(q) = g[Len(q.comps)]
      BY <1>1, ResolveWalks
    <3> QED
      BY <2>1, <3>1, Zenon
  <2>5. \A i \in 0 .. N - 1 : g[i] = IF i = 0 THEN vfs_root ELSE Turn(q, i, g[i - 1])
    BY <2>4 DEF IsWalk
  <2> HIDE DEF parent, N
  <2>6. \A i \in 0 .. N - 1 : g[i] # None
    BY <1>2, <2>2, <2>4, WalkNotNull
  <2>7. \A i \in 1 .. N - 1 : /\ g[i] = finddir(g[i - 1], w.comps[i])
                              /\ g[i - 1] # None /\ g[i] # None
    <3> TAKE i \in 1 .. N - 1
    <3>1. i \in 0 .. N - 1 /\ i # 0 /\ i - 1 \in 0 .. N - 1 /\ i \in 1 .. N
      BY <2>2
    <3>2. g[i] = Turn(q, i, g[i - 1]) /\ g[i - 1] # None /\ g[i] # None
      BY <2>5, <2>6, <3>1
    <3>3. \A j \in 1 .. i : q.comps[j] = w.comps[j] /\ w.comps[j] # ""
      <4> TAKE j \in 1 .. i
      <4>1. j \in 1 .. N - 1 /\ j \in 1 .. N
        BY <2>2
      <4> QED
        BY <2>1, <2>3, <4>1
    <3>4. q.comps[i] = w.comps[i]
      BY <2>1
    <3>5. ~(\E j \in 1 .. i : q.comps[j] = "")
      BY <3>3
    <3> QED
      BY <3>2, <3>4, <3>5 DEF Turn
  <2>8. \A i \in 1 .. N : \A n : n # None => /\ Turn(w, i, n) = finddir(n, w.comps[i])
                                             /\ Turn(w, i, n)' = finddir(n, w.comps[i])'
    <3> SUFFICES ASSUME NEW i \in 1 .. N, NEW n, n # None
                 PROVE  /\ Turn(w, i, n) = finddir(n, w.comps[i])
                        /\ Turn(w, i, n)' = finddir(n, w.comps[i])'
      OBVIOUS
    <3>0. \A j \in 1 .. i : j \in 1 .. N
      BY <2>2
    <3>1. ~(\E j \in 1 .. i : w.comps[j] = "")
      BY <2>3, <3>0, Zenon
    <3> QED
      BY <3>1 DEF Turn, None
  <2>9. \A i \in 0 .. N - 1 : g[i] \in alive
    <3> SUFFICES ASSUME NEW i \in 0 .. N - 1 PROVE g[i] \in alive
      OBVIOUS
    <3> DEFINE S == {m \in Nat : m <= N - 1 => g[m] \in alive}
    <3>1. 0 \in S
      BY <2>2, <2>5 DEF FsInv, TreeSound
    <3>2. ASSUME NEW m \in Nat, m \in S
          PROVE  m + 1 \in S
      <4> SUFFICES ASSUME m + 1 <= N - 1 PROVE g[m + 1] \in alive
        OBVIOUS
      <4>1. m + 1 \in 1 .. N - 1 /\ (m + 1) - 1 = m /\ g[m] \in alive
        BY <2>2, <3>2
      <4>2. g[m + 1] = finddir(g[m], w.comps[m + 1]) /\ g[m + 1] # None
        BY <2>7, <4>1
      <4> QED
        BY <4>1, <4>2, FindAlive
    <3>3. Nat \subseteq S
      BY <3>1, <3>2, SetInduction
    <3>4. i \in Nat /\ i <= N - 1
      BY <2>2
    <3> QED
      BY <3>3, <3>4
  <2>10. \A i \in 0 .. N - 1 : g[i] = f[i]
    <3>1. g[0] = f[0]
      BY <1>7, <2>2, <2>5
    <3>2. ASSUME NEW i \in 1 .. N - 1, g[i - 1] = f[i - 1]
          PROVE  g[i] = f[i]
      <4>1. f[i] = Turn(w, i, f[i - 1]) /\ i \in 1 .. N
        BY <1>7, <2>2
      <4> QED
        BY <2>7, <2>8, <3>2, <4>1
    <3> QED
      BY <2>2, <3>1, <3>2, SameWalk
  <2>11. \A i \in 0 .. N - 1 : g[i] = h[i]
    <3>1. g[0] = h[0]
      BY <1>8, <2>2, <2>5
    <3>2. ASSUME NEW i \in 1 .. N - 1, g[i - 1] = h[i - 1]
          PROVE  g[i] = h[i]
      <4>1. h[i] = Turn(w, i, h[i - 1])' /\ i \in 1 .. N /\ i - 1 \in 0 .. N - 1
        BY <1>8, <2>2
      <4>2. h[i] = finddir(g[i - 1], w.comps[i])'
        BY <2>7, <2>8, <3>2, <4>1
      <4>3. g[i - 1] \in alive /\ finddir(g[i - 1], w.comps[i]) # None
        BY <2>7, <2>9, <4>1
      <4>4. finddir(g[i - 1], w.comps[i])' = finddir(g[i - 1], w.comps[i])
        BY <4>3, MkdirFinds
      <4> QED
        BY <2>7, <4>2, <4>4
    <3> QED
      BY <2>2, <3>1, <3>2, SameWalk
  <2>12. w.comps[N] = base
    BY <1>10, MadeSplits DEF N, base
  <2> HIDE DEF base
  <2>13. f[N - 1] = parent /\ h[N - 1] = parent /\ N \in 1 .. N /\ N # 0
    BY <2>0, <2>2, <2>4, <2>10, <2>11
  <2>14. f[N] = Turn(w, N, f[N - 1]) /\ h[N] = Turn(w, N, h[N - 1])'
    BY <1>7, <1>8, <2>2, <2>13
  <2>15. f[N] = finddir(parent, base) /\ h[N] = finddir(f[N - 1], base)'
    BY <1>2, <2>8, <2>12, <2>13, <2>14
  <2> DEFINE m == f[N - 1]
  <2>16. m \in alive /\ m = parent /\ f[N] = finddir(m, base) /\ h[N] = finddir(m, base)'
    BY <1>3, <2>13, <2>15
  <2> HIDE DEF m
  <2>17. /\ finddir(m, base) # None => finddir(m, base)' = finddir(m, base)
         /\ finddir(m, base) = None => finddir(m, base)' = counter
    <3>1. base = vfs_path_basename(p) /\ m = vfs_resolve_path(vfs_path_dirname(p))
      BY <2>16 DEF base, parent, q
    <3> QED
      BY <2>16, <3>1, MkdirFinds
  <2>18. counter # None
    BY <1>4 DEF Inodes, None
  <2> QED
    BY <1>5, <1>6, <2>16, <2>17, <2>18
<1> QED
  BY <1>1, <1>9, <1>10

\* What mkdir has made is found by open, for every tree and every path without
\* empty components, those that go through "." included: vfs_mkdir cuts the path
\* at its last slash (and takes "." for the directory of a path without one),
\* vfs_resolve_path walks it.  The walk along AsMade of the path comes to the new
\* node or to the first of that name.
THEOREM MadePathsAreFound == Spec => MadeIsFound
<1>1. FsInv /\ FsInv' =>
         \A p \in Paths :
            vfs_mkdir(p) /\ (\A i \in DOMAIN p.comps : p.comps[i] # "")
               => LET q == AsMade(p)
                      found == vfs_resolve_path(q)'
                  IN  found # None /\ (found = counter \/ found = vfs_resolve_path(q))
  <2> SUFFICES ASSUME FsInv, FsInv', NEW p \in Paths, vfs_mkdir(p), Full(p)
               PROVE  LET q == AsMade(p)
                      IN  /\ vfs_resolve_path(q)' # None
                          /\ \/ vfs_resolve_path(q)' = counter
                             \/ vfs_resolve_path(q)' = vfs_resolve_path(q)
    BY Zenon DEF Full
  <2> QED
    BY MkdirIsFound
<1> QED
  BY <1>1, FsAlways, PTL DEF Spec, MadeIsFound

=============================================================================
