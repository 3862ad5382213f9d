---------------------------- MODULE RbaseProofs ----------------------------
(***************************************************************************)
(* Proofs about the parts of MCRbase that own memory or data: the linear   *)
(* allocator, strings, the writer and the allocator of backtrace, for any  *)
(* sizes and limits, any threads and any sequence of calls.                *)
(***************************************************************************)
EXTENDS MCRbase, TLAPS, WellFoundedInduction

-----------------------------------------------------------------------------
(* Arithmetic.                                                             *)

\* A number of units and what is over.
LEMMA Divided ==
  ASSUME NEW n \in Nat, NEW u \in Nat \ {0}
  PROVE  /\ n \div u \in Nat /\ n % u \in 0 .. u - 1
         /\ n = u * (n \div u) + (n % u)
OBVIOUS

\* Whole units are added, compared and divided as their numbers are.
LEMMA Units ==
  ASSUME NEW j \in Nat, NEW k \in Nat, NEW u \in Nat \ {0}
  PROVE  /\ u * j \in Nat /\ j * u = u * j /\ (u * j) % u = 0
         /\ (u * k) \div u = k
         /\ j <= k => u * j <= u * k
         /\ u * j < u * k => j < k
         /\ u * (j + k) = u * j + u * k
         /\ u * (j + 1) = u * j + u
OBVIOUS

\* What has no remainder is whole units.
LEMMA Whole ==
  ASSUME NEW n \in Nat, NEW u \in Nat \ {0}, n % u = 0
  PROVE  \E k \in Nat : n = u * k
<1>1. n = u * (n \div u) + 0 /\ n \div u \in Nat
  BY Divided
<1>2. u * (n \div u) \in Nat
  BY <1>1, Units
<1> QED BY <1>1, <1>2

\* Rounding up to units: to a multiple, and to no more than a multiple there is room for.
LEMMA RoundedUp ==
  ASSUME NEW n \in Nat, NEW u \in Nat \ {0}
  PROVE  \E k \in Nat :
           /\ k = (n + u - 1) \div u /\ k * u = u * k
           /\ n <= u * k /\ u * k < n + u
           /\ \A j \in Nat : n <= u * j => k <= j /\ u * k <= u * j
<1>1. n + u - 1 \in Nat
  OBVIOUS
<1>2. PICK k \in Nat, r \in 0 .. u - 1 : k = (n + u - 1) \div u /\ n + u - 1 = u * k + r
  BY <1>1, Divided
<1>3. u * k \in Nat /\ k * u = u * k
  BY Units
<1>4. n <= u * k /\ u * k < n + u
  BY <1>2, <1>3
<1>5. ASSUME NEW j \in Nat, n <= u * j PROVE k <= j /\ u * k <= u * j
  <2>1. u * j \in Nat /\ u * (j + 1) = u * j + u
    BY Units
  <2>2. u * k < u * (j + 1)
    BY <1>3, <1>4, <1>5, <2>1
  <2>3. j + 1 \in Nat
    OBVIOUS
  <2>4. k < j + 1
    BY <2>2, <2>3, Units
  <2>5. k <= j
    BY <2>4
  <2> QED BY <2>5, Units
<1> QED BY <1>2, <1>3, <1>4, <1>5

\* A set of numbers has a least one.
LEMMA Least ==
  ASSUME NEW T, T \subseteq Nat, T # {}
  PROVE  \E m \in T : \A x \in T : m <= x
<1> DEFINE R == OpToRel(<, Nat)
<1>1. IsWellFoundedOn(R, Nat)
  BY NatLessThanWellFounded
<1>2. PICK m \in T : \A y \in T : ~ (<<y, m>> \in R)
  <2> HIDE DEF R
  <2> QED BY <1>1, WFMin
<1>3. ASSUME NEW y \in T PROVE m <= y
  <2>1. <<y, m>> \notin R
    BY <1>2
  <2>2. <<y, m>> \in Nat \X Nat /\ ~(y < m)
    BY <2>1 DEF OpToRel
  <2> QED BY <2>2
<1> QED BY <1>3

-----------------------------------------------------------------------------
(* The allocator of backtrace.  Its state in MCRbase:                      *)

freelist == s1
lock     == s2
live     == s3
pages    == s4
unmapped == s5
pc       == s6

USE DEF freelist, lock, live, pages, unmapped, pc

Blocks == [from : Nat, size : Nat]

Apart(b, c) == Maps!Apart(b, c)

\* b is a part of c.
Within(b, c) == c.from <= b.from /\ b.from + b.size <= c.from + c.size

\* The threads that are about to free a block, which is theirs.
Freeing == {t \in Threads : pc[t].at \in {"free", "put"}}

MapsType ==
  /\ freelist \in Seq(Blocks) /\ Len(freelist) <= MaxEntries
  /\ live \subseteq Blocks /\ \A b \in live : b.size > 0
  /\ pages \in Nat /\ \A p \in unmapped : p \in Nat /\ p < pages
  /\ pc \in [Threads -> {pc[t] : t \in Threads}]
  /\ \A t \in Threads :
       /\ pc[t].at \in {"idle", "alloc", "search", "take", "map", "free", "put"}
       /\ pc[t].at \in {"alloc", "search", "take", "map"} => pc[t].size \in MapSizes
       /\ pc[t].at \in {"free", "put"} => pc[t].block \in Blocks

\* Who works on the list has the lock, so that the place it found is still that of the block.
LockHeld ==
  \A t \in Threads :
    /\ pc[t].at \in {"search", "take", "put"} => lock = t
    /\ pc[t].at = "take" => /\ pc[t].pp \in 1 .. Len(freelist)
                            /\ freelist[pc[t].pp].size >= pc[t].size

\* Every byte is in one block at most, of those in use, on the list, or being freed.
Disjoint ==
  /\ \A b, c \in live : b # c => Apart(b, c)
  /\ \A b \in live : \A t \in Freeing : Apart(b, pc[t].block)
  /\ \A t, u \in Freeing : t # u => Apart(pc[t].block, pc[u].block)
  /\ \A i \in 1 .. Len(freelist) :
       /\ \A b \in live : Apart(freelist[i], b)
       /\ \A t \in Freeing : Apart(freelist[i], pc[t].block)
       /\ \A j \in 1 .. Len(freelist) : i # j => Apart(freelist[i], freelist[j])

\* A block of pages that are mapped, which begins where anything may.
Sound(b) == Maps!Mapped(b) /\ b.from % Align = 0

AllSound ==
  /\ \A b \in live : Sound(b)
  /\ \A t \in Freeing : Sound(pc[t].block)
  /\ \A i \in 1 .. Len(freelist) : Sound(freelist[i])

MapsInv == MapsType /\ LockHeld /\ Disjoint /\ AllSound

\* Parts of what is apart are apart.
LEMMA PartsApart ==
  ASSUME NEW b \in Blocks, NEW c \in Blocks, NEW d \in Blocks, Within(b, c)
  PROVE  /\ Apart(c, d) => Apart(b, d)
         /\ Apart(d, c) => Apart(d, b)
         /\ Apart(d, c) <=> Apart(c, d)
  BY DEF Within, Apart, Maps!Apart, Blocks

\* A part of a block is mapped if the block is.
LEMMA PartMapped ==
  ASSUME NEW b \in Blocks, NEW c \in Blocks, Within(b, c), Maps!Mapped(c),
         pages \in Nat, \A p \in unmapped : p \in Nat
  PROVE  Maps!Mapped(b)
<1>1. ASSUME NEW p \in unmapped PROVE Maps!Apart(b, Maps!Block(p * MapPage, MapPage))
  <2>1. p * MapPage \in Nat /\ MapPage \in Nat
    BY <1>1, Units, MapAssumption
  <2>2. Maps!Apart(c, Maps!Block(p * MapPage, MapPage))
    BY <1>1 DEF Maps!Mapped
  <2> QED BY <2>1, <2>2 DEF Within, Maps!Apart, Maps!Block, Blocks
<1>2. pages * MapPage \in Nat
  BY Units, MapAssumption
<1> QED BY <1>1, <1>2 DEF Maps!Mapped, Within, Blocks

\* What of the sizes the list of free blocks depends on.
LEMMA MapConstants == Align \in Nat \ {0} /\ MinBlock \in Nat \ {0} /\ MaxEntries \in Nat \ {0}
  BY MapAssumption

\* "More than 16 entries": one of the smallest is found.
LEMMA SmallestIs ==
  ASSUME NEW l \in Seq(Blocks), Len(l) > 0
  PROVE  Maps!Smallest(l) \in 1 .. Len(l)
<1>1. DOMAIN l = 1 .. Len(l) /\ \A i \in DOMAIN l : l[i].size \in Nat
  <2>1. DOMAIN l = 1 .. Len(l) /\ \A i \in DOMAIN l : l[i] \in Blocks
    OBVIOUS
  <2> QED BY ONLY <2>1 DEF Blocks
<1>2. PICK m \in {l[i].size : i \in DOMAIN l} : \A x \in {l[i].size : i \in DOMAIN l} : m <= x
  <2> DEFINE T == {l[i].size : i \in DOMAIN l}
  <2>1. T \subseteq Nat /\ T # {}
    BY <1>1
  <2> HIDE DEF T
  <2>2. \E n \in T : \A x \in T : n <= x
    BY <2>1, Least
  <2> QED BY <2>2 DEF T
<1>3. PICK k \in {i \in DOMAIN l : l[i].size = m} : \A j \in {i \in DOMAIN l : l[i].size = m} : k <= j
  <2> DEFINE T == {i \in DOMAIN l : l[i].size = m}
  <2>1. T \subseteq Nat /\ T # {}
    BY <1>1, <1>2
  <2> HIDE DEF T
  <2>2. \E n \in T : \A x \in T : n <= x
    BY <2>1, Least
  <2> QED BY <2>2 DEF T
<1>4. \A j \in DOMAIN l : l[k].size < l[j].size \/ (l[k].size = l[j].size /\ k <= j)
  <2>1. \A j \in DOMAIN l : m <= l[j].size
    BY <1>2
  <2>2. l[k].size = m /\ m \in Nat
    BY <1>1, <1>3
  <2> QED BY ONLY <1>1, <1>3, <2>1, <2>2
<1>5. Maps!Smallest(l) \in DOMAIN l
  BY <1>3, <1>4 DEF Maps!Smallest
<1> QED BY <1>1, <1>5

\* What is left of a list without one of its blocks.
LEMMA Removed ==
  ASSUME NEW l \in Seq(Blocks), NEW k \in 1 .. Len(l), NEW m, m = Maps!RemoveAt(l, k)
  PROVE  /\ m \in Seq(Blocks) /\ Len(m) = Len(l) - 1
         /\ \A i \in 1 .. Len(m) : m[i] = l[IF i < k THEN i ELSE i + 1]
<1>1. PICK p : p = SubSeq(l, 1, k - 1)
  OBVIOUS
<1>2. PICK q : q = SubSeq(l, k + 1, Len(l))
  OBVIOUS
<1>3. p \in Seq(Blocks) /\ Len(p) = k - 1 /\ \A i \in 1 .. k - 1 : p[i] = l[i]
  BY ONLY l \in Seq(Blocks), k \in 1 .. Len(l), <1>1
<1>4. q \in Seq(Blocks) /\ Len(q) = Len(l) - k /\ \A i \in 1 .. Len(l) - k : q[i] = l[k + i]
  BY ONLY l \in Seq(Blocks), k \in 1 .. Len(l), <1>2
<1>5. m = p \o q
  BY <1>1, <1>2 DEF Maps!RemoveAt
<1>6. m \in Seq(Blocks) /\ Len(m) = Len(p) + Len(q)
      /\ \A i \in 1 .. Len(m) : m[i] = IF i <= Len(p) THEN p[i] ELSE q[i - Len(p)]
  <2>1. p \in Seq(Blocks) /\ q \in Seq(Blocks)
    BY <1>3, <1>4
  <2> QED BY ONLY <1>5, <2>1
<1>7. Len(l) \in Nat /\ Len(p) = k - 1 /\ Len(m) = Len(l) - 1
  BY <1>3, <1>4, <1>6
<1>8. ASSUME NEW i \in 1 .. Len(m) PROVE m[i] = l[IF i < k THEN i ELSE i + 1]
  <2>1. CASE i < k
    BY ONLY <1>3, <1>6, <1>7, <1>8, <2>1, k \in 1 .. Len(l)
  <2>2. CASE ~(i < k)
    <3>1. i - (k - 1) \in 1 .. Len(l) - k /\ k + (i - (k - 1)) = i + 1
      BY ONLY <1>7, <1>8, <2>2, k \in 1 .. Len(l)
    <3>2. m[i] = q[i - (k - 1)]
      BY ONLY <1>6, <1>7, <1>8, <2>2, k \in 1 .. Len(l)
    <3> QED BY <1>4, <2>2, <3>1, <3>2
  <2> QED BY <2>1, <2>2
<1> QED BY <1>6, <1>7, <1>8

\* What backtrace_free_locked makes of a list: blocks of it and the one that is freed.
LEMMA FreeLockedIs ==
  ASSUME NEW l \in Seq(Blocks), NEW b \in Blocks, Len(l) <= MaxEntries,
         \A i \in 1 .. Len(l) : Apart(l[i], b) /\ \A j \in 1 .. Len(l) : i # j => Apart(l[i], l[j]),
         NEW m, m = Maps!FreeLocked(l, b)
  PROVE  /\ m \in Seq(Blocks) /\ Len(m) <= MaxEntries
         /\ \A i \in 1 .. Len(m) : m[i] = b \/ \E j \in 1 .. Len(l) : m[i] = l[j]
         /\ \A i, j \in 1 .. Len(m) : i # j => Apart(m[i], m[j])
<1> USE MapConstants
<1>1. CASE b.size < MinBlock
  BY <1>1 DEF Maps!FreeLocked
<1>2. ASSUME NEW r \in Seq(Blocks), m = <<b>> \o r, Len(r) < MaxEntries,
             \A i \in 1 .. Len(r) : \E j \in 1 .. Len(l) : r[i] = l[j],
             \A i, j \in 1 .. Len(r) : i # j => Apart(r[i], r[j])
      PROVE  /\ m \in Seq(Blocks) /\ Len(m) <= MaxEntries
             /\ \A i \in 1 .. Len(m) : m[i] = b \/ \E j \in 1 .. Len(l) : m[i] = l[j]
             /\ \A i, j \in 1 .. Len(m) : i # j => Apart(m[i], m[j])
  <2>1. m \in Seq(Blocks) /\ Len(m) = Len(r) + 1 /\ m[1] = b
        /\ \A i \in 1 .. Len(m) : i # 1 => i - 1 \in 1 .. Len(r) /\ m[i] = r[i - 1]
    BY <1>2
  <2>2. \A i \in 1 .. Len(r) : Apart(r[i], b) /\ Apart(b, r[i])
    BY <1>2 DEF Apart, Maps!Apart
  <2>3. ASSUME NEW i \in 1 .. Len(m), NEW j \in 1 .. Len(m), i # j PROVE Apart(m[i], m[j])
    <3>1. CASE i # 1 /\ j # 1
      <4>1. i - 1 # j - 1 /\ i - 1 \in 1 .. Len(r) /\ j - 1 \in 1 .. Len(r)
            /\ m[i] = r[i - 1] /\ m[j] = r[j - 1]
        BY <2>1, <2>3, <3>1
      <4> QED BY <1>2, <4>1
    <3>2. CASE i = 1
      <4>1. m[i] = b /\ j - 1 \in 1 .. Len(r) /\ m[j] = r[j - 1]
        BY <2>1, <2>3, <3>2
      <4> QED BY <2>2, <4>1
    <3>3. CASE j = 1
      <4>1. m[j] = b /\ i - 1 \in 1 .. Len(r) /\ m[i] = r[i - 1]
        BY <2>1, <2>3, <3>3
      <4> QED BY <2>2, <4>1
    <3> QED BY <3>1, <3>2, <3>3
  <2>4. ASSUME NEW i \in 1 .. Len(m) PROVE m[i] = b \/ \E j \in 1 .. Len(l) : m[i] = l[j]
    <3>1. CASE i # 1
      <4>1. i - 1 \in 1 .. Len(r) /\ m[i] = r[i - 1]
        BY <2>1, <3>1
      <4> QED BY <1>2, <4>1
    <3> QED BY <2>1, <3>1
  <2>5. m \in Seq(Blocks) /\ Len(m) <= MaxEntries
    BY ONLY <1>2, <2>1, MapConstants
  <2> QED BY ONLY <2>3, <2>4, <2>5
<1>3. CASE b.size >= MinBlock /\ Len(l) < MaxEntries
  BY <1>2, <1>3 DEF Maps!FreeLocked, Blocks
<1>4. CASE b.size >= MinBlock /\ Len(l) = MaxEntries
  <2>1. PICK k \in 1 .. Len(l) : k = Maps!Smallest(l)
    BY <1>4, SmallestIs
  <2>2. CASE b.size <= l[k].size
    BY <1>4, <2>1, <2>2 DEF Maps!FreeLocked, Blocks
  <2>3. CASE ~(b.size <= l[k].size)
    <3>1. PICK r : r = Maps!RemoveAt(l, k)
      OBVIOUS
    <3>2. r \in Seq(Blocks) /\ Len(r) = Len(l) - 1
          /\ \A i \in 1 .. Len(r) : r[i] = l[IF i < k THEN i ELSE i + 1]
      BY <3>1, Removed
    <3>3. ASSUME NEW i \in 1 .. Len(r)
          PROVE  (IF i < k THEN i ELSE i + 1) \in 1 .. Len(l)
      <4>1. i \in Nat /\ 1 <= i /\ i <= Len(l) - 1 /\ Len(l) \in Nat
        BY ONLY <3>2, <3>3, l \in Seq(Blocks)
      <4> QED BY ONLY <4>1, k \in 1 .. Len(l)
    <3>4. ASSUME NEW i \in 1 .. Len(r) PROVE \E j \in 1 .. Len(l) : r[i] = l[j]
      BY ONLY <3>2, <3>3, <3>4
    <3>5. ASSUME NEW i \in 1 .. Len(r), NEW j \in 1 .. Len(r), i # j PROVE Apart(r[i], r[j])
      <4>1. PICK x, y : x = (IF i < k THEN i ELSE i + 1) /\ y = (IF j < k THEN j ELSE j + 1)
        OBVIOUS
      <4>2. x # y
        BY ONLY <3>5, <4>1, i \in 1 .. Len(r), j \in 1 .. Len(r), k \in 1 .. Len(l)
      <4>3. x \in 1 .. Len(l) /\ y \in 1 .. Len(l) /\ r[i] = l[x] /\ r[j] = l[y]
        BY ONLY <3>2, <3>3, <4>1, i \in 1 .. Len(r), j \in 1 .. Len(r)
      <4> QED BY <4>2, <4>3
    <3>6. m = <<b>> \o r
      BY <1>4, <2>1, <2>3, <3>1 DEF Maps!FreeLocked, Blocks
    <3>7. Len(r) < MaxEntries
      BY <1>4, <3>2
    <3> QED BY <1>2, <3>2, <3>4, <3>5, <3>6, <3>7
  <2> QED BY <2>2, <2>3
<1> QED
  <2>1. b.size \in Nat /\ MinBlock \in Nat /\ Len(l) \in Nat /\ MaxEntries \in Nat
    BY DEF Blocks
  <2>2. \/ b.size < MinBlock \/ (b.size >= MinBlock /\ Len(l) < MaxEntries)
        \/ (b.size >= MinBlock /\ Len(l) = MaxEntries)
    BY <2>1
  <2> QED BY <1>1, <1>3, <1>4, <2>2

\* A thread goes on, and the others stay where they are.
LEMMA GoesTo ==
  ASSUME MapsType, NEW t \in Threads, NEW to, Maps!Goes(t, to)
  PROVE  /\ pc'[t] = to /\ \A u \in Threads : u # t => pc'[u] = pc[u]
         /\ pc' \in [Threads -> {pc'[u] : u \in Threads}]
  BY DEF MapsType, Maps!Goes

\* A thread without a block to free goes on: nothing is anywhere else.
LEMMA CalmKeeps ==
  ASSUME MapsInv, NEW t \in Threads, NEW to, Maps!Goes(t, to),
         UNCHANGED <<freelist, live, pages, unmapped>>,
         \/ lock' = lock \/ lock = "none" \/ (lock = t /\ lock' = "none"),
         pc[t].at \in {"idle", "alloc", "search"}, to.at \in {"alloc", "search", "take", "map"},
         to.size \in MapSizes,
         to.at \in {"search", "take"} => lock' = t,
         to.at = "take" => to.pp \in 1 .. Len(freelist) /\ freelist[to.pp].size >= to.size
  PROVE  MapsInv'
<1>1. /\ pc'[t] = to /\ \A u \in Threads : u # t => pc'[u] = pc[u]
      /\ pc' \in [Threads -> {pc'[u] : u \in Threads}]
  BY GoesTo DEF MapsInv
<1>2. MapsType'
  BY <1>1 DEF MapsInv, MapsType
<1>3. LockHeld'
  <2>1. ASSUME NEW u \in Threads, u # t, pc[u].at \in {"search", "take", "put"} PROVE lock' = u
    BY <2>1, MapAssumption DEF MapsInv, LockHeld
  <2> QED BY <1>1, <2>1 DEF MapsInv, LockHeld
<1>4. Freeing' = Freeing /\ \A u \in Freeing : pc'[u] = pc[u]
  BY <1>1 DEF Freeing
<1>5. Disjoint' /\ AllSound'
  BY <1>4 DEF MapsInv, Disjoint, AllSound, Sound, Maps!Mapped
<1> QED BY <1>2, <1>3, <1>5 DEF MapsInv

\* backtrace_alloc up to the block it takes.
LEMMA SearchKeeps ==
  ASSUME MapsInv, NEW t \in Threads,
         Maps!CallAlloc(t) \/ Maps!AllocTry(t) \/ Maps!AllocSearch(t)
  PROVE  MapsInv'
<1>1. CASE Maps!CallAlloc(t)
  <2>1. PICK size \in MapSizes : Maps!Goes(t, [at |-> "alloc", size |-> size])
    BY <1>1 DEF Maps!CallAlloc
  <2>2. pc[t].at = "idle" /\ UNCHANGED <<freelist, lock, live, pages, unmapped>>
    BY <1>1 DEF Maps!CallAlloc
  <2> DEFINE to == [at |-> "alloc", size |-> size]
  <2>3. to.at = "alloc" /\ to.size \in MapSizes
    OBVIOUS
  <2> HIDE DEF to
  <2> QED BY <2>1, <2>2, <2>3, CalmKeeps DEF to
<1>2. CASE Maps!AllocTry(t)
  <2>1. pc[t].at = "alloc" /\ UNCHANGED <<freelist, live, pages, unmapped>> /\ pc[t].size \in MapSizes
    BY <1>2 DEF Maps!AllocTry, MapsInv, MapsType
  <2>2. PICK to :
          /\ Maps!Goes(t, to) /\ to.at \in {"search", "map"} /\ to.size = pc[t].size
          /\ lock' = lock \/ lock = "none"
          /\ to.at = "search" => lock' = t
    BY <1>2 DEF Maps!AllocTry, Maps!NoThread
  <2> QED BY <2>1, <2>2, CalmKeeps
<1>3. CASE Maps!AllocSearch(t)
  <2>1. /\ pc[t].at = "search" /\ UNCHANGED <<freelist, live, pages, unmapped>> /\ pc[t].size \in MapSizes
        /\ lock = t
    BY <1>3 DEF Maps!AllocSearch, MapsInv, MapsType, LockHeld
  <2>2. PICK to :
          /\ Maps!Goes(t, to) /\ to.at \in {"take", "map"} /\ to.size = pc[t].size
          /\ lock' = lock \/ lock' = "none"
          /\ to.at = "take" => /\ lock' = lock
                               /\ to.pp \in DOMAIN freelist /\ freelist[to.pp].size >= to.size
    <3>1. \/ lock' = "none" /\ Maps!Goes(t, [at |-> "map", size |-> pc[t].size])
          \/ /\ \E i \in DOMAIN freelist :
                  /\ freelist[i].size >= pc[t].size
                  /\ Maps!Goes(t, [at |-> "take", size |-> pc[t].size, pp |-> i])
             /\ lock' = lock
      BY <1>3 DEF Maps!AllocSearch, Maps!NoThread
    <3>2. ASSUME NEW i PROVE LET to == [at |-> "take", size |-> pc[t].size, pp |-> i]
                             IN  to.at = "take" /\ to.size = pc[t].size /\ to.pp = i
      OBVIOUS
    <3>3. LET to == [at |-> "map", size |-> pc[t].size] IN to.at = "map" /\ to.size = pc[t].size
      OBVIOUS
    <3> QED BY <3>1, <3>2, <3>3
  <2>3. DOMAIN freelist = 1 .. Len(freelist)
    BY DEF MapsInv, MapsType
  <2> QED BY <2>1, <2>2, <2>3, CalmKeeps
<1> QED BY <1>1, <1>2, <1>3

\* What a step that moves blocks has to show: where they are now, nothing is twice.
Goes(t, to) ==
  /\ Maps!Goes(t, to)
  /\ to.at \in {"idle", "free"}
  /\ \/ UNCHANGED <<lock, freelist>> /\ pc[t].at \notin {"search", "take", "put"}
     \/ lock = t /\ lock' = "none"
  /\ UNCHANGED unmapped /\ pages' \in Nat /\ pages' >= pages

InUse(L) ==
  /\ live' = L
  /\ \A b \in L : b \in Blocks /\ b.size > 0 /\ Sound(b)'
  /\ \A b, c \in L : b # c => Apart(b, c)

Kept(L, O, H) ==
  /\ \A b \in H : b \in Blocks /\ Sound(b)'
  /\ \A b \in L : \A c \in O \cup H : Apart(b, c)
  /\ \A b \in H : \A c \in O : Apart(b, c)

Listed(l, L, O, H) ==
  /\ freelist' = l /\ l \in Seq(Blocks) /\ Len(l) <= MaxEntries
  /\ \A i \in 1 .. Len(l) :
       /\ Sound(l[i])'
       /\ \A b \in L : Apart(l[i], b)
       /\ \A b \in O \cup H : Apart(l[i], b)
       /\ \A j \in 1 .. Len(l) : i # j => Apart(l[i], l[j])

\* The blocks that the others are freeing.
Others(t) == {pc[u].block : u \in Freeing \ {t}}

LEMMA MoveKeeps ==
  ASSUME MapsInv, NEW t \in Threads, NEW to, NEW l, NEW L, NEW H, Goes(t, to), InUse(L),
         H = (IF to.at = "free" THEN {to.block} ELSE {}), Kept(L, Others(t), H), Listed(l, L, Others(t), H)
  PROVE  MapsInv'
<1> USE DEF Goes, InUse, Kept, Listed
<1>1. /\ pc'[t] = to /\ \A u \in Threads : u # t => pc'[u] = pc[u]
      /\ pc' \in [Threads -> {pc'[u] : u \in Threads}]
  BY GoesTo DEF MapsInv
<1>2. MapsType'
  <2>1. \A p \in unmapped' : p \in Nat /\ p < pages'
    BY DEF MapsInv, MapsType
  <2>2. ASSUME NEW u \in Threads
        PROVE  /\ pc'[u].at \in {"idle", "alloc", "search", "take", "map", "free", "put"}
               /\ pc'[u].at \in {"alloc", "search", "take", "map"} => pc'[u].size \in MapSizes
               /\ pc'[u].at \in {"free", "put"} => pc'[u].block \in Blocks
    <3>1. CASE u = t
      BY <1>1, <3>1
    <3>2. CASE u # t
      BY <1>1, <3>2 DEF MapsInv, MapsType
    <3> QED BY <3>1, <3>2
  <2>3. freelist' \in Seq(Blocks) /\ Len(freelist') <= MaxEntries
    OBVIOUS
  <2> QED BY <1>1, <2>1, <2>2, <2>3 DEF MapsType
<1>3. LockHeld'
  <2>1. ASSUME NEW u \in Threads, u # t, pc[u].at \in {"search", "take", "put"}
        PROVE  lock' = u /\ freelist' = freelist
    BY <2>1, MapAssumption DEF MapsInv, LockHeld
  <2> QED BY <1>1, <2>1 DEF MapsInv, LockHeld
<1>4. ASSUME NEW u \in Freeing'
      PROVE  IF u = t THEN pc'[u].block \in H ELSE u \in Freeing \ {t} /\ pc'[u].block \in Others(t)
  BY <1>1 DEF Freeing, Others
<1>5. \A u \in Freeing' : u # t => pc'[u].block = pc[u].block
  BY <1>1 DEF Freeing
<1>6. \A u, v \in Freeing' : u # v => Apart(pc'[u].block, pc'[v].block)
  <2>1. ASSUME NEW u \in Freeing', NEW v \in Freeing', u # v PROVE Apart(pc'[u].block, pc'[v].block)
    <3>1. CASE u # t /\ v # t
      BY <1>4, <1>5, <2>1, <3>1 DEF MapsInv, Disjoint
    <3>2. CASE u = t
      BY <1>4, <2>1, <3>2
    <3>3. CASE v = t
      BY <1>4, <2>1, <3>3 DEF Apart, Maps!Apart
    <3> QED BY <3>1, <3>2, <3>3
  <2> QED BY <2>1
<1>7. Disjoint'
  BY <1>4, <1>6 DEF Disjoint
<1>8. ASSUME NEW u \in Freeing', NEW b, b = pc'[u].block PROVE Sound(b)'
  <2>1. CASE u = t
    BY <1>1, <1>4, <1>8, <2>1
  <2>2. CASE u # t
    <3>2. Sound(b) /\ b \in Blocks /\ b = pc'[u].block
      BY <1>4, <1>5, <1>8, <2>2 DEF MapsInv, AllSound, MapsType, Freeing
    <3>3. Sound(b)'
      <4>1. pages * MapPage <= pages' * MapPage /\ pages * MapPage \in Nat /\ pages' * MapPage \in Nat
        BY Units, MapAssumption DEF MapsInv, MapsType
      <4> QED BY <3>2, <4>1 DEF Sound, Maps!Mapped, Blocks
    <3> QED BY <3>3
  <2> QED BY <2>1, <2>2
<1>9. AllSound'
  <2>1. \A u \in Freeing' : Sound(pc[u].block)'
    BY <1>8
  <2> QED BY <2>1 DEF AllSound
<1> QED BY <1>2, <1>3, <1>7, <1>9 DEF MapsInv

\* A block is cut in two where what is used of it, rounded up, ends.
LEMMA CutInTwo ==
  ASSUME NEW b \in Blocks, b.from % Align = 0, NEW n \in Nat, n <= b.size,
         NEW first, first = Maps!Block(b.from, n), NEW rest, rest = Maps!Rest(b, n)
  PROVE  /\ first \in Blocks /\ Within(first, b) /\ first.from % Align = 0 /\ first.size = n
         /\ rest.size > 0 \/ b.size % Align = 0 =>
              rest \in Blocks /\ Within(rest, b) /\ rest.from % Align = 0 /\ Apart(first, rest)
<1>1. b.from \in Nat /\ b.size \in Nat
  BY DEF Blocks
<1>2. first \in Blocks /\ first.from = b.from /\ first.size = n
  BY <1>1 DEF Maps!Block, Blocks
<1>3. PICK k \in Nat : /\ Maps!Up(n, Align) = Align * k /\ n <= Align * k
                       /\ \A j \in Nat : n <= Align * j => Align * k <= Align * j
  <2>1. PICK k \in Nat : /\ k = (n + Align - 1) \div Align /\ k * Align = Align * k
                         /\ n <= Align * k /\ \A j \in Nat : n <= Align * j => Align * k <= Align * j
    BY ONLY n \in Nat, MapConstants, RoundedUp
  <2>2. Maps!Up(n, Align) = Align * k
    BY ONLY <2>1 DEF Maps!Up
  <2> QED BY ONLY <2>1, <2>2
<1>4. PICK up \in Nat : up = Align * k
  BY Units, MapAssumption
<1>5. rest.from = b.from + up /\ rest.size = b.size - up /\ n <= up
  BY <1>3, <1>4 DEF Maps!Rest, Maps!Block
<1>6. rest = [from |-> b.from + up, size |-> b.size - up]
  BY <1>3, <1>4 DEF Maps!Rest, Maps!Block
<1>7. rest.size > 0 \/ b.size % Align = 0 => up <= b.size
  <2>1. CASE rest.size > 0
    BY <1>1, <1>5, <2>1
  <2>2. CASE b.size % Align = 0
    <3>1. PICK j \in Nat : b.size = Align * j
      BY <1>1, <2>2, Whole, MapAssumption
    <3> QED BY <1>3, <1>4, <3>1
  <2> QED BY <2>1, <2>2
<1>8. (b.from + up) % Align = 0
  <2>1. PICK q \in Nat : b.from = Align * q
    BY <1>1, Whole, MapAssumption
  <2>2. b.from + up = Align * (q + k) /\ q + k \in Nat
    BY <1>4, <2>1, Units, MapAssumption
  <2> QED BY <2>2, Units, MapAssumption
<1> QED BY <1>1, <1>2, <1>5, <1>6, <1>7, <1>8 DEF Within, Blocks, Apart, Maps!Apart

\* Where a block is apart from all others, its parts are.
LEMMA PartsFree ==
  ASSUME MapsInv, NEW t \in Threads, NEW c \in Blocks, NEW b \in Blocks, Within(b, c)
  PROVE  /\ Sound(c) /\ b.from % Align = 0 => Sound(b)
         /\ \A d \in live : Apart(c, d) => Apart(b, d) /\ Apart(d, b)
         /\ \A d \in Others(t) : Apart(c, d) => Apart(b, d) /\ Apart(d, b)
         /\ \A i \in 1 .. Len(freelist) : Apart(freelist[i], c) => Apart(freelist[i], b)
<1>1. /\ live \subseteq Blocks /\ Others(t) \subseteq Blocks
      /\ freelist \in Seq(Blocks)
  BY DEF MapsInv, MapsType, Freeing, Others
<1>2. Sound(c) /\ b.from % Align = 0 => Sound(b)
  BY PartMapped DEF Sound, MapsInv, MapsType
<1> QED BY <1>1, <1>2, PartsApart

\* Where the blocks are before a step: as they are after it, for all that does not move.
LEMMA Before ==
  ASSUME MapsInv, NEW t \in Threads, UNCHANGED <<pages, unmapped>>
  PROVE  /\ \A b \in live : b \in Blocks /\ b.size \in Nat /\ b.size > 0 /\ Sound(b) /\ Sound(b)'
         /\ \A b, c \in live : b # c => Apart(b, c)
         /\ \A b \in live : \A c \in Others(t) : Apart(b, c)
         /\ freelist \in Seq(Blocks) /\ Len(freelist) <= MaxEntries /\ pages \in Nat
         /\ \A i \in 1 .. Len(freelist) :
              /\ freelist[i] \in Blocks /\ Sound(freelist[i])
              /\ \A b \in live : Apart(freelist[i], b)
              /\ \A b \in Others(t) : Apart(freelist[i], b)
              /\ \A j \in 1 .. Len(freelist) : i # j => Apart(freelist[i], freelist[j])
<1>1. \A b : Sound(b)' <=> Sound(b)
  BY DEF Sound, Maps!Mapped
<1>2. \A b \in live : b \in Blocks /\ b.size > 0 /\ Sound(b)
  BY DEF MapsInv, MapsType, AllSound
<1>3. \A b \in Blocks : b.size \in Nat
  BY DEF Blocks
<1>4. \A i \in 1 .. Len(freelist) : freelist[i] \in Blocks /\ Sound(freelist[i])
  BY DEF MapsInv, MapsType, AllSound
<1>5. /\ \A b, c \in live : b # c => Apart(b, c)
      /\ \A b \in live : \A c \in Others(t) : Apart(b, c)
      /\ \A i \in 1 .. Len(freelist) :
           /\ \A b \in live : Apart(freelist[i], b)
           /\ \A b \in Others(t) : Apart(freelist[i], b)
           /\ \A j \in 1 .. Len(freelist) : i # j => Apart(freelist[i], freelist[j])
  BY DEF MapsInv, Disjoint, Others
<1> QED BY <1>1, <1>2, <1>3, <1>4, <1>5 DEF MapsInv, MapsType

\* backtrace_free is called with a block, or with the end of one.
LEMMA CallFreeKeeps ==
  ASSUME MapsInv, NEW t \in Threads, Maps!CallFree(t)
  PROVE  MapsInv'
<1>1. pc[t].at = "idle" /\ UNCHANGED <<freelist, lock, pages, unmapped>>
  BY DEF Maps!CallFree
<1>2. PICK O : O = Others(t)
  OBVIOUS
<1>3. /\ \A b \in live : b \in Blocks /\ b.size \in Nat /\ b.size > 0 /\ Sound(b) /\ Sound(b)'
      /\ \A b, c \in live : b # c => Apart(b, c)
      /\ \A b \in live : \A c \in O : Apart(b, c)
      /\ freelist \in Seq(Blocks) /\ Len(freelist) <= MaxEntries /\ pages \in Nat
  BY <1>1, <1>2, Before
<1>4. \A i \in 1 .. Len(freelist) :
        /\ freelist[i] \in Blocks /\ Sound(freelist[i])
        /\ \A b \in live : Apart(freelist[i], b)
        /\ \A b \in O : Apart(freelist[i], b)
        /\ \A j \in 1 .. Len(freelist) : i # j => Apart(freelist[i], freelist[j])
  BY <1>1, <1>2, Before
<1>5. PICK l : l = freelist
  OBVIOUS
<1>6. /\ freelist' = l /\ l \in Seq(Blocks) /\ Len(l) <= MaxEntries
      /\ \A i \in 1 .. Len(l) : Sound(l[i])'
  BY <1>1, <1>3, <1>4, <1>5 DEF Sound, Maps!Mapped
<1>7. ASSUME NEW b \in live, live' = live \ {b}, Maps!Goes(t, [at |-> "free", block |-> b])
      PROVE  MapsInv'
  <2> DEFINE to == [at |-> "free", block |-> b]
  <2>1. to.at = "free" /\ to.block = b
    OBVIOUS
  <2>2. Maps!Goes(t, to)
    BY <1>7
  <2> HIDE DEF to
  <2>3. Goes(t, to)
    BY <1>1, <1>3, <2>1, <2>2 DEF Goes
  <2>4. PICK L : L = live \ {b}
    OBVIOUS
  <2>5. InUse(L) /\ Kept(L, O, {b}) /\ Listed(l, L, O, {b})
    BY <1>3, <1>4, <1>5, <1>6, <1>7, <2>4 DEF InUse, Kept, Listed
  <2> QED BY <1>2, <2>1, <2>3, <2>5, MoveKeeps
<1>8. ASSUME NEW b \in live, NEW used \in MapSizes, used <= b.size - 1, b.size % Align = 0,
             NEW first, first = Maps!Block(b.from, used), NEW rest, rest = Maps!Rest(b, used),
             live' = (live \ {b}) \cup {first}, Maps!Goes(t, [at |-> "free", block |-> rest])
      PROVE  MapsInv'
  <2> DEFINE to == [at |-> "free", block |-> rest]
  <2>1. to.at = "free" /\ to.block = rest
    OBVIOUS
  <2>2. Maps!Goes(t, to)
    BY <1>8
  <2> HIDE DEF to
  <2>3. Goes(t, to)
    BY <1>1, <1>3, <2>1, <2>2 DEF Goes
  <2>4. used \in Nat /\ used > 0 /\ used <= b.size
    BY <1>3, <1>8, MapAssumption
  <2>5. b.from % Align = 0
    BY <1>3 DEF Sound
  <2>6. /\ first \in Blocks /\ Within(first, b) /\ first.from % Align = 0 /\ first.size = used
        /\ rest \in Blocks /\ Within(rest, b) /\ rest.from % Align = 0 /\ Apart(first, rest)
    BY <1>3, <1>8, <2>4, <2>5, CutInTwo
  <2>7. /\ Sound(first) /\ Sound(rest)
        /\ \A c \in live \ {b} : Apart(first, c) /\ Apart(c, first) /\ Apart(c, rest)
        /\ \A c \in O : Apart(first, c) /\ Apart(rest, c)
        /\ \A i \in 1 .. Len(l) : Apart(l[i], first) /\ Apart(l[i], rest)
    BY <1>2, <1>3, <1>4, <1>5, <2>6, PartsFree
  <2>8. Sound(first)' /\ Sound(rest)'
    BY <1>1, <2>7 DEF Sound, Maps!Mapped
  <2>9. PICK L : L = (live \ {b}) \cup {first}
    OBVIOUS
  <2>10. InUse(L)
    BY <1>3, <1>8, <2>4, <2>6, <2>7, <2>8, <2>9 DEF InUse
  <2>11. Kept(L, O, {rest})
    BY <1>3, <2>6, <2>7, <2>8, <2>9 DEF Kept
  <2>12. Listed(l, L, O, {rest})
    BY <1>4, <1>5, <1>6, <2>7, <2>9 DEF Listed
  <2> QED BY <1>2, <2>1, <2>3, <2>10, <2>11, <2>12, MoveKeeps
<1>9. \E b \in live :
        \/ live' = live \ {b} /\ Maps!Goes(t, [at |-> "free", block |-> b])
        \/ \E used \in MapSizes \cap (1 .. b.size - 1) :
             /\ b.size % Align = 0
             /\ live' = (live \ {b}) \cup {Maps!Block(b.from, used)}
             /\ Maps!Goes(t, [at |-> "free", block |-> Maps!Rest(b, used)])
  BY DEF Maps!CallFree, Maps!Rest
<1>10. PICK b \in live :
         \/ live' = live \ {b} /\ Maps!Goes(t, [at |-> "free", block |-> b])
         \/ \E used \in MapSizes \cap (1 .. b.size - 1) :
              /\ b.size % Align = 0
              /\ live' = (live \ {b}) \cup {Maps!Block(b.from, used)}
              /\ Maps!Goes(t, [at |-> "free", block |-> Maps!Rest(b, used)])
  BY <1>9
<1>11. ASSUME NEW used \in MapSizes \cap (1 .. b.size - 1), b.size % Align = 0,
              live' = (live \ {b}) \cup {Maps!Block(b.from, used)},
              Maps!Goes(t, [at |-> "free", block |-> Maps!Rest(b, used)])
       PROVE  MapsInv'
  <2>1. used \in MapSizes /\ used <= b.size - 1
    BY <1>3
  <2> QED BY <1>8, <1>11, <2>1
<1> QED BY <1>7, <1>10, <1>11

\* What is apart from a block of whole pages stays mapped when they are given back.
LEMMA UnmapKeeps ==
  ASSUME MapsInv, NEW b \in Blocks, Sound(b), Maps!WholePages(b), UNCHANGED pages,
         unmapped' = unmapped \cup {p \in 0 .. MaxPages - 1 : b.from <= p * MapPage /\ p * MapPage < b.from + b.size}
  PROVE  /\ \A p \in unmapped' : p \in Nat /\ p < pages
         /\ \A c \in Blocks : Sound(c) /\ Apart(c, b) => Sound(c)'
<1>1. b.from \in Nat /\ b.size \in Nat /\ b.from % MapPage = 0 /\ b.size % MapPage = 0
      /\ b.from + b.size <= pages * MapPage /\ pages \in Nat /\ MapPage \in Nat \ {0} /\ MaxPages \in Nat
  BY MapAssumption DEF Blocks, Sound, Maps!Mapped, Maps!WholePages, MapsInv, MapsType
<1>2. PICK i \in Nat : b.from = MapPage * i
  BY <1>1, Whole
<1>3. PICK j \in Nat : b.size = MapPage * j
  BY <1>1, Whole
<1>4. b.from + b.size = MapPage * (i + j) /\ i + j \in Nat
  BY <1>1, <1>2, <1>3, Units
<1>5. ASSUME NEW p \in Nat, b.from <= p * MapPage, p * MapPage < b.from + b.size,
             NEW d, d = Maps!Block(p * MapPage, MapPage)
      PROVE  p < pages /\ d \in Blocks /\ Within(d, b)
  <2>1. p * MapPage \in Nat /\ p * MapPage = MapPage * p /\ pages * MapPage = MapPage * pages
        /\ MapPage * pages \in Nat
    BY <1>1, Units
  <2>2. p < i + j
    <3>1. MapPage * p < MapPage * (i + j)
      BY <1>4, <1>5, <2>1
    <3> QED BY <1>1, <1>4, <3>1, Units
  <2>3. p < pages
    <3>1. MapPage * p < MapPage * pages
      BY <1>1, <1>5, <2>1
    <3> QED BY <1>1, <3>1, Units
  <2>4. MapPage * p + MapPage <= MapPage * (i + j)
    <3>1. p + 1 \in Nat /\ p + 1 <= i + j
      BY <1>4, <2>2
    <3> QED BY <1>1, <1>4, <3>1, Units
  <2>5. d \in Blocks /\ d.from = p * MapPage /\ d.size = MapPage
    BY <1>1, <1>5, <2>1 DEF Blocks, Maps!Block
  <2> QED BY <1>4, <1>5, <2>1, <2>3, <2>4, <2>5 DEF Within
<1>6. \A p \in unmapped' : p \in Nat /\ p < pages
  BY <1>1, <1>5 DEF MapsInv, MapsType
<1>7. ASSUME NEW c \in Blocks, Sound(c), Apart(c, b) PROVE Sound(c)'
  <2>1. ASSUME NEW p \in unmapped' PROVE Maps!Apart(c, Maps!Block(p * MapPage, MapPage))
    <3>1. CASE p \in unmapped
      BY <1>7, <3>1 DEF Sound, Maps!Mapped
    <3>2. CASE p \notin unmapped
      <4>1. PICK d : d = Maps!Block(p * MapPage, MapPage)
        OBVIOUS
      <4>2. p \in Nat /\ b.from <= p * MapPage /\ p * MapPage < b.from + b.size
        BY <1>1, <2>1, <3>2
      <4>3. d \in Blocks /\ Within(d, b)
        BY <1>5, <4>1, <4>2
      <4>4. Apart(b, c)
        BY <1>7, PartsApart DEF Apart, Maps!Apart
      <4>5. Apart(c, d)
        BY <1>7, <4>3, <4>4, PartsApart
      <4> QED BY <4>1, <4>5 DEF Apart
    <3> QED BY <3>1, <3>2
  <2>2. c.from >= 0 /\ c.from + c.size <= pages' * MapPage /\ c.from % Align = 0
    BY <1>7 DEF Sound, Maps!Mapped
  <2> QED BY <2>1, <2>2 DEF Sound, Maps!Mapped
<1> QED BY <1>6, <1>7

\* backtrace_free: the block is given back to the system, waits for the list, or leaks.
LEMMA FreeTryKeeps ==
  ASSUME MapsInv, NEW t \in Threads, Maps!FreeTry(t)
  PROVE  MapsInv'
<1>1. PICK b : b = pc[t].block
  OBVIOUS
<1>2. pc[t].at = "free" /\ t \in Freeing /\ b \in Blocks /\ Sound(b) /\ UNCHANGED <<freelist, live, pages>>
  BY <1>1 DEF Maps!FreeTry, MapsInv, MapsType, AllSound, Freeing
<1>3. PICK to :
        /\ Maps!Goes(t, to)
        /\ \/ to.at = "idle" /\ lock' = lock
           \/ to.at = "put" /\ to.block = b /\ lock = "none" /\ lock' = t /\ UNCHANGED unmapped
        /\ \/ UNCHANGED unmapped
           \/ /\ Maps!WholePages(b) /\ to.at = "idle"
              /\ unmapped' = unmapped \cup {p \in 0 .. MaxPages - 1 : b.from <= p * MapPage /\ p * MapPage < b.from + b.size}
  <2>1. Maps!Idle.at = "idle"
    BY DEF Maps!Idle
  <2>2. LET to == [at |-> "put", block |-> b] IN to.at = "put" /\ to.block = b
    OBVIOUS
  <2> QED BY <1>1, <2>1, <2>2 DEF Maps!FreeTry, Maps!NoThread
<1>4. /\ pc'[t] = to /\ \A u \in Threads : u # t => pc'[u] = pc[u]
      /\ pc' \in [Threads -> {pc'[u] : u \in Threads}]
  BY <1>3, GoesTo DEF MapsInv
<1>5. /\ \A p \in unmapped' : p \in Nat /\ p < pages
      /\ \A c \in Blocks : Sound(c) /\ (to.at = "idle" => Apart(c, b)) => Sound(c)'
  <2>1. CASE UNCHANGED unmapped
    BY <1>2, <2>1 DEF MapsInv, MapsType, Sound, Maps!Mapped
  <2>2. CASE ~ UNCHANGED unmapped
    BY <1>2, <1>3, <2>2, UnmapKeeps
  <2> QED BY <2>1, <2>2
<1>6. MapsType'
  <2>1. ASSUME NEW u \in Threads
        PROVE  /\ pc'[u].at \in {"idle", "alloc", "search", "take", "map", "free", "put"}
               /\ pc'[u].at \in {"alloc", "search", "take", "map"} => pc'[u].size \in MapSizes
               /\ pc'[u].at \in {"free", "put"} => pc'[u].block \in Blocks
    <3>1. CASE u = t
      BY <1>2, <1>3, <1>4, <3>1
    <3>2. CASE u # t
      BY <1>4, <3>2 DEF MapsInv, MapsType
    <3> QED BY <3>1, <3>2
  <2> QED BY <1>2, <1>4, <1>5, <2>1 DEF MapsInv, MapsType
<1>7. LockHeld'
  <2>1. ASSUME NEW u \in Threads, u # t, pc[u].at \in {"search", "take", "put"} PROVE lock' = u
    BY <1>3, <2>1, MapAssumption DEF MapsInv, LockHeld
  <2> QED BY <1>2, <1>3, <1>4, <2>1 DEF MapsInv, LockHeld
<1>8. /\ Freeing' \subseteq Freeing /\ \A u \in Freeing' : pc'[u].block = pc[u].block
      /\ to.at = "idle" => t \notin Freeing'
  BY <1>1, <1>2, <1>3, <1>4 DEF Freeing
<1>9. Disjoint'
  BY <1>2, <1>8 DEF MapsInv, Disjoint
<1>10. AllSound'
  <2>1. ASSUME NEW c \in live PROVE Sound(c)'
    BY <1>1, <1>2, <1>5, <2>1 DEF MapsInv, MapsType, AllSound, Disjoint
  <2>2. ASSUME NEW u \in Freeing', NEW c, c = pc'[u].block PROVE Sound(c)'
    <3>1. Sound(c) /\ c \in Blocks
      BY <1>8, <2>2 DEF MapsInv, MapsType, AllSound, Freeing
    <3>2. to.at = "idle" => Apart(c, b)
      BY <1>1, <1>2, <1>8, <2>2 DEF MapsInv, Disjoint
    <3> QED BY <1>5, <3>1, <3>2
  <2>3. ASSUME NEW i \in 1 .. Len(freelist), NEW c, c = freelist[i] PROVE Sound(c)'
    <3>1. Sound(c) /\ c \in Blocks /\ Apart(c, b)
      BY <1>1, <1>2, <2>3 DEF MapsInv, MapsType, AllSound, Disjoint
    <3> QED BY <1>5, <3>1
  <2>4. \A u \in Freeing' : Sound(pc[u].block)'
    BY <2>2
  <2>5. \A i \in 1 .. Len(freelist) : Sound(freelist[i])'
    BY <2>3, <1>2
  <2> QED BY <1>2, <2>1, <2>4, <2>5 DEF AllSound
<1> QED BY <1>6, <1>7, <1>9, <1>10 DEF MapsInv

\* The block comes onto the list.
LEMMA FreePutKeeps ==
  ASSUME MapsInv, NEW t \in Threads, Maps!FreePut(t)
  PROVE  MapsInv'
<1>1. pc[t].at = "put" /\ t \in Freeing /\ UNCHANGED <<live, pages, unmapped>> /\ lock' = "none" /\ lock = t
  BY DEF Maps!FreePut, Maps!NoThread, Freeing, MapsInv, LockHeld
<1>2. PICK O : O = Others(t)
  OBVIOUS
<1>3. PICK b : b = pc[t].block
  OBVIOUS
<1>4. PICK L : L = live
  OBVIOUS
<1>5. PICK l : l = freelist
  OBVIOUS
<1>6. PICK m : m = Maps!FreeLocked(l, b)
  OBVIOUS
<1>7. b \in Blocks /\ Sound(b) /\ (\A c \in L : Apart(c, b)) /\ (\A c \in O : Apart(b, c))
      /\ (\A i \in 1 .. Len(l) : Apart(l[i], b))
  BY <1>1, <1>2, <1>3, <1>4, <1>5 DEF MapsInv, MapsType, AllSound, Disjoint, Freeing, Others
<1>8. /\ \A c \in L : c \in Blocks /\ c.size > 0 /\ Sound(c)'
      /\ \A c, d \in L : c # d => Apart(c, d)
      /\ \A c \in L : \A d \in O : Apart(c, d)
      /\ l \in Seq(Blocks) /\ Len(l) <= MaxEntries /\ pages \in Nat
  BY <1>1, <1>2, <1>4, <1>5, Before
<1>9. \A i \in 1 .. Len(l) :
        /\ l[i] \in Blocks /\ Sound(l[i])
        /\ \A c \in L : Apart(l[i], c)
        /\ \A c \in O : Apart(l[i], c)
        /\ \A j \in 1 .. Len(l) : i # j => Apart(l[i], l[j])
  BY <1>1, <1>2, <1>4, <1>5, Before
<1>10. /\ m \in Seq(Blocks) /\ Len(m) <= MaxEntries
       /\ \A i \in 1 .. Len(m) : m[i] = b \/ \E j \in 1 .. Len(l) : m[i] = l[j]
       /\ \A i, j \in 1 .. Len(m) : i # j => Apart(m[i], m[j])
  BY <1>6, <1>7, <1>8, <1>9, FreeLockedIs
<1>11. \A c : Sound(c) => Sound(c)'
  BY <1>1 DEF Sound, Maps!Mapped
<1> DEFINE to == Maps!Idle
<1>12. Maps!Goes(t, to) /\ to.at = "idle" /\ freelist' = m
  BY <1>3, <1>5, <1>6 DEF Maps!FreePut, Maps!Idle
<1> HIDE DEF to
<1>13. Goes(t, to)
  BY <1>1, <1>8, <1>12 DEF Goes
<1>14. InUse(L)
  BY <1>1, <1>4, <1>8 DEF InUse
<1>15. Kept(L, O, {})
  BY <1>8 DEF Kept
<1>16. \A c \in L : Apart(b, c)
  BY <1>7 DEF Apart, Maps!Apart
<1>17. ASSUME NEW i \in 1 .. Len(m)
       PROVE  Sound(m[i])' /\ (\A c \in L : Apart(m[i], c)) /\ (\A c \in O : Apart(m[i], c))
  <2>1. PICK c : c = m[i] /\ Sound(c) /\ (\A d \in L : Apart(c, d)) /\ (\A d \in O : Apart(c, d))
    BY <1>7, <1>9, <1>10, <1>16
  <2> QED BY <2>1, <1>11
<1>18. Listed(m, L, O, {})
  BY <1>10, <1>12, <1>17 DEF Listed
<1> QED BY <1>2, <1>12, <1>13, <1>14, <1>15, <1>18, MoveKeeps

\* The first block that is large enough is taken off the list, and what is over comes back.
LEMMA AllocTakeKeeps ==
  ASSUME MapsInv, NEW t \in Threads, Maps!AllocTake(t)
  PROVE  MapsInv'
<1>1. pc[t].at = "take" /\ t \notin Freeing /\ UNCHANGED <<pages, unmapped>> /\ lock' = "none" /\ lock = t
  BY DEF Maps!AllocTake, Maps!NoThread, Freeing, MapsInv, LockHeld
<1>2. PICK O : O = Others(t)
  OBVIOUS
<1>3. PICK l : l = freelist
  OBVIOUS
<1>4. PICK k, n : k = pc[t].pp /\ n = pc[t].size
  OBVIOUS
<1>5. l \in Seq(Blocks) /\ k \in 1 .. Len(l) /\ n \in Nat /\ n > 0 /\ n <= l[k].size
  BY <1>1, <1>3, <1>4, MapAssumption DEF MapsInv, MapsType, LockHeld, Blocks
<1>6. /\ \A c \in live : c \in Blocks /\ c.size > 0 /\ Sound(c)'
      /\ \A c, d \in live : c # d => Apart(c, d)
      /\ \A c \in live : \A d \in O : Apart(c, d)
      /\ Len(l) <= MaxEntries /\ pages \in Nat
  BY <1>1, <1>2, <1>3, Before
<1>7. \A i \in 1 .. Len(l) :
        /\ l[i] \in Blocks /\ Sound(l[i])
        /\ \A c \in live : Apart(l[i], c)
        /\ \A c \in O : Apart(l[i], c)
        /\ \A j \in 1 .. Len(l) : i # j => Apart(l[i], l[j])
  BY <1>1, <1>2, <1>3, Before
<1>8. PICK b : b = l[k]
  OBVIOUS
<1>9. PICK first : first = Maps!Block(b.from, n)
  OBVIOUS
<1>10. PICK rest : rest = Maps!Rest(b, n)
  OBVIOUS
<1>11. PICK list : list = Maps!RemoveAt(l, k)
  OBVIOUS
<1>12. PICK m : m = IF rest.size > 0 THEN Maps!FreeLocked(list, rest) ELSE list
  OBVIOUS
<1>13. PICK L : L = live \cup {first}
  OBVIOUS
<1>14. b \in Blocks /\ b.from % Align = 0 /\ n <= b.size /\ Sound(b)
  BY <1>5, <1>7, <1>8 DEF Sound
<1>15. /\ first \in Blocks /\ Within(first, b) /\ first.from % Align = 0 /\ first.size = n
       /\ rest.size > 0 => rest \in Blocks /\ Within(rest, b) /\ rest.from % Align = 0 /\ Apart(first, rest)
  BY <1>5, <1>9, <1>10, <1>14, CutInTwo
<1>16. /\ list \in Seq(Blocks) /\ Len(list) = Len(l) - 1
       /\ \A i \in 1 .. Len(list) : list[i] = l[IF i < k THEN i ELSE i + 1]
  BY <1>5, <1>11, Removed
\* What is left of the list is apart from the block, and from its parts.
<1>17. /\ \A i \in 1 .. Len(list) : \E j \in 1 .. Len(l) : j # k /\ list[i] = l[j]
       /\ \A i, j \in 1 .. Len(list) : i # j => Apart(list[i], list[j])
  <2>1. \A i \in 1 .. Len(list) :
          (IF i < k THEN i ELSE i + 1) \in 1 .. Len(l) /\ (IF i < k THEN i ELSE i + 1) # k
    BY <1>5, <1>16
  <2>2. \A i \in 1 .. Len(list) : \E j \in 1 .. Len(l) : j # k /\ list[i] = l[j]
    BY <1>16, <2>1
  <2>3. ASSUME NEW i \in 1 .. Len(list), NEW j \in 1 .. Len(list), i # j
        PROVE  Apart(list[i], list[j])
    <3>1. PICK x, y : x = (IF i < k THEN i ELSE i + 1) /\ y = (IF j < k THEN j ELSE j + 1)
      OBVIOUS
    <3>2. x # y
      BY <1>5, <2>3, <3>1
    <3>3. x \in 1 .. Len(l) /\ y \in 1 .. Len(l) /\ list[i] = l[x] /\ list[j] = l[y]
      BY <1>16, <2>1, <3>1
    <3> QED BY <1>7, <3>2, <3>3
  <2> QED BY <2>2, <2>3
<1>18. ASSUME NEW c \in Blocks, Within(c, b), c.from % Align = 0
       PROVE  /\ Sound(c)
              /\ \A d \in live : Apart(c, d) /\ Apart(d, c)
              /\ \A d \in O : Apart(c, d)
              /\ \A i \in 1 .. Len(list) : Apart(list[i], c)
  <2>1. /\ Sound(c)
        /\ \A d \in live : Apart(c, d) /\ Apart(d, c)
        /\ \A d \in O : Apart(c, d)
        /\ \A i \in 1 .. Len(l) : Apart(l[i], b) => Apart(l[i], c)
    BY <1>2, <1>3, <1>5, <1>7, <1>8, <1>14, <1>18, PartsFree
  <2>2. \A i \in 1 .. Len(list) : Apart(list[i], c)
    BY <1>5, <1>7, <1>8, <1>17, <2>1
  <2> QED BY <2>1, <2>2
<1>19. /\ m \in Seq(Blocks) /\ Len(m) <= MaxEntries
       /\ \A i \in 1 .. Len(m) :
            (rest.size > 0 /\ m[i] = rest) \/ \E j \in 1 .. Len(list) : m[i] = list[j]
       /\ \A i, j \in 1 .. Len(m) : i # j => Apart(m[i], m[j])
  <2>1. CASE rest.size > 0
    <3>1. Len(list) <= MaxEntries
      BY <1>5, <1>6, <1>16, MapAssumption
    <3>2. \A i \in 1 .. Len(list) :
            Apart(list[i], rest) /\ \A j \in 1 .. Len(list) : i # j => Apart(list[i], list[j])
      BY <1>15, <1>17, <1>18, <2>1
    <3>3. rest \in Blocks /\ m = Maps!FreeLocked(list, rest)
      BY <1>12, <1>15, <2>1
    <3>4. /\ m \in Seq(Blocks) /\ Len(m) <= MaxEntries
          /\ \A i \in 1 .. Len(m) : m[i] = rest \/ \E j \in 1 .. Len(list) : m[i] = list[j]
          /\ \A i, j \in 1 .. Len(m) : i # j => Apart(m[i], m[j])
      BY <1>16, <3>1, <3>2, <3>3, FreeLockedIs
    <3> QED BY <2>1, <3>4
  <2>2. CASE ~(rest.size > 0)
    <3>1. m = list
      BY <1>12, <2>2
    <3>2. Len(list) <= MaxEntries
      <4>1. Len(l) \in Nat /\ Len(l) <= MaxEntries /\ Len(list) = Len(l) - 1
        BY <1>5, <1>6, <1>16
      <4> QED BY ONLY <4>1, MapConstants
    <3>3. list \in Seq(Blocks)
      BY ONLY <1>16
    <3> QED BY ONLY <1>17, <2>2, <3>1, <3>2, <3>3
  <2> QED BY <2>1, <2>2
<1> DEFINE to == Maps!Idle
<1>20. Maps!Goes(t, to) /\ to.at = "idle" /\ freelist' = m /\ live' = L
  BY <1>3, <1>4, <1>8, <1>9, <1>10, <1>11, <1>12, <1>13 DEF Maps!AllocTake, Maps!Idle
<1> HIDE DEF to
<1>21. Goes(t, to)
  BY <1>1, <1>6, <1>20 DEF Goes
<1>22. \A c : Sound(c) => Sound(c)'
  BY <1>1 DEF Sound, Maps!Mapped
<1>23. InUse(L)
  BY <1>5, <1>6, <1>13, <1>15, <1>18, <1>20, <1>22 DEF InUse
<1>24. Kept(L, O, {})
  BY <1>6, <1>13, <1>15, <1>18 DEF Kept
<1>25. ASSUME NEW i \in 1 .. Len(m)
       PROVE  Sound(m[i])' /\ (\A c \in L : Apart(m[i], c)) /\ (\A c \in O : Apart(m[i], c))
  <2>1. \A c \in L : Apart(first, c) => Apart(c, first)
    BY DEF Apart, Maps!Apart
  <2>2. PICK c : c = m[i]
    OBVIOUS
  <2>3. Sound(c) /\ (\A d \in L : Apart(c, d)) /\ (\A d \in O : Apart(c, d))
    <3>1. CASE rest.size > 0 /\ c = rest
      <4>1. Apart(rest, first)
        BY <1>15, <3>1 DEF Apart, Maps!Apart
      <4> QED BY <1>13, <1>15, <1>18, <3>1, <4>1
    <3>2. CASE \E j \in 1 .. Len(list) : c = list[j]
      <4>1. PICK j \in 1 .. Len(list) : c = list[j]
        BY <3>2
      <4>2. Apart(c, first)
        BY <1>15, <1>18, <4>1
      <4> QED BY <1>7, <1>13, <1>17, <4>1, <4>2
    <3> QED BY <1>19, <2>2, <3>1, <3>2
  <2> QED BY <2>2, <2>3, <1>22
<1>26. Listed(m, L, O, {})
  BY <1>19, <1>20, <1>25 DEF Listed
<1> QED BY <1>2, <1>20, <1>21, <1>23, <1>24, <1>26, MoveKeeps

\* New pages come after all that were mapped.
LEMMA NewPages ==
  ASSUME MapsInv, NEW k \in Nat, pages' = pages + k, UNCHANGED unmapped,
         NEW b, b = Maps!Block(pages * MapPage, k * MapPage)
  PROVE  /\ b \in Blocks /\ b.from % Align = 0
         /\ \A c \in Blocks : Within(c, b) /\ c.from % Align = 0 => Sound(c)'
         /\ \A c \in Blocks : Sound(c) => Sound(c)'
         /\ \A c, d \in Blocks : Within(c, b) /\ Sound(d) => Apart(c, d) /\ Apart(d, c)
<1>1. pages \in Nat /\ MapPage \in Nat \ {0} /\ Align \in Nat \ {0} /\ MapPage % Align = 0
      /\ \A p \in unmapped : p \in Nat /\ p < pages
  BY MapAssumption DEF MapsInv, MapsType
<1>2. PICK end \in Nat, more \in Nat : end = pages * MapPage /\ more = k * MapPage
  BY <1>1, Units
<1>3. pages' * MapPage = end + more
  BY <1>1, <1>2, Units
<1>4. b \in Blocks /\ b.from = end /\ b.size = more
  BY <1>2 DEF Blocks, Maps!Block
<1>5. end % Align = 0
  <2>1. PICK q \in Nat : MapPage = Align * q
    BY <1>1, Whole
  <2>2. end = Align * (q * pages) /\ q * pages \in Nat
    BY <1>1, <1>2, <2>1, Units
  <2> QED BY <1>1, <2>2, Units
<1>6. ASSUME NEW c \in Blocks, Within(c, b), c.from % Align = 0 PROVE Sound(c)'
  <2>1. ASSUME NEW p \in unmapped PROVE Maps!Apart(c, Maps!Block(p * MapPage, MapPage))
    <3>1. p * MapPage \in Nat /\ p * MapPage + MapPage <= end
      <4>1. p + 1 \in Nat /\ p + 1 <= pages /\ p \in Nat
        BY <1>1, <2>1
      <4>2. MapPage * (p + 1) <= MapPage * pages /\ MapPage * (p + 1) = MapPage * p + MapPage
            /\ MapPage * p = p * MapPage /\ MapPage * pages = pages * MapPage /\ p * MapPage \in Nat
        BY <1>1, <4>1, Units
      <4> QED BY <1>2, <4>2
    <3> QED BY <1>1, <1>4, <1>6, <3>1 DEF Maps!Apart, Maps!Block, Within, Blocks
  <2> QED BY <1>3, <1>4, <1>6, <2>1 DEF Sound, Maps!Mapped, Within, Blocks
<1>7. ASSUME NEW c \in Blocks, Sound(c) PROVE Sound(c)'
  <2>1. c.from >= 0 /\ c.from + c.size <= end + more /\ c.from % Align = 0
    BY <1>2, <1>7 DEF Sound, Maps!Mapped, Blocks
  <2>2. \A p \in unmapped' : Maps!Apart(c, Maps!Block(p * MapPage, MapPage))
    BY <1>7 DEF Sound, Maps!Mapped
  <2> QED BY <1>3, <2>1, <2>2 DEF Sound, Maps!Mapped
<1>8. ASSUME NEW c \in Blocks, NEW d \in Blocks, Within(c, b), Sound(d)
      PROVE  Apart(c, d) /\ Apart(d, c)
  BY <1>2, <1>4, <1>8 DEF Sound, Maps!Mapped, Within, Blocks, Apart, Maps!Apart
<1> QED BY <1>4, <1>5, <1>6, <1>7, <1>8

LEMMA AllocMapKeeps ==
  ASSUME MapsInv, NEW t \in Threads, Maps!AllocMap(t)
  PROVE  MapsInv'
<1>1. pc[t].at = "map" /\ t \notin Freeing /\ UNCHANGED <<freelist, lock, unmapped>>
  BY DEF Maps!AllocMap, Freeing
<1>2. PICK O : O = Others(t)
  OBVIOUS
<1>3. PICK l : l = freelist
  OBVIOUS
<1>4. PICK n : n = pc[t].size
  OBVIOUS
<1>5. n \in Nat /\ n > 0 /\ O \subseteq Blocks /\ (\A c \in O : Sound(c)) /\ pages \in Nat
      /\ \A c, d \in live : c # d => Apart(c, d)
  BY <1>1, <1>2, <1>4, MapAssumption DEF MapsInv, MapsType, AllSound, Others, Freeing, Disjoint
<1>6. PICK k \in Nat : /\ k = (n + MapPage - 1) \div MapPage /\ k * MapPage = MapPage * k
                       /\ n <= MapPage * k
  BY <1>5, RoundedUp, MapAssumption
<1>7. Maps!Up(n, MapPage) \div MapPage = k
  BY <1>5, <1>6, Units, MapAssumption DEF Maps!Up
<1>8. PICK b : b = Maps!Block(pages * MapPage, k * MapPage)
  OBVIOUS
<1>9. PICK first : first = Maps!Block(b.from, n)
  OBVIOUS
<1>10. PICK rest : rest = Maps!Rest(b, n)
  OBVIOUS
<1>11. PICK L : L = live \cup {first}
  OBVIOUS
<1>12. /\ \A c \in live : c \in Blocks /\ c.size > 0 /\ Sound(c)
       /\ \A c \in live : \A d \in O : Apart(c, d)
       /\ l \in Seq(Blocks) /\ Len(l) <= MaxEntries
  BY <1>2, <1>3 DEF MapsInv, MapsType, AllSound, Disjoint, Others, Freeing
<1>13. \A i \in 1 .. Len(l) :
         /\ l[i] \in Blocks /\ Sound(l[i])
         /\ \A c \in live : Apart(l[i], c)
         /\ \A c \in O : Apart(l[i], c)
         /\ \A j \in 1 .. Len(l) : i # j => Apart(l[i], l[j])
  BY <1>2, <1>3 DEF MapsInv, MapsType, AllSound, Disjoint, Others, Freeing
<1>14. CASE UNCHANGED <<pages, live>> /\ Maps!Goes(t, Maps!Idle)
  <2> DEFINE to == Maps!Idle
  <2>1. to.at = "idle" /\ Maps!Goes(t, to)
    BY <1>14 DEF Maps!Idle
  <2> HIDE DEF to
  <2>2. \A c : Sound(c) => Sound(c)'
    BY <1>1, <1>14 DEF Sound, Maps!Mapped
  <2>3. Goes(t, to)
    BY <1>1, <1>5, <1>14, <2>1 DEF Goes
  <2>4. InUse(live)
    BY <1>5, <1>12, <1>14, <2>2 DEF InUse
  <2>5. Kept(live, O, {}) /\ Listed(l, live, O, {})
    BY <1>1, <1>3, <1>12, <1>13, <2>2 DEF Kept, Listed
  <2> QED BY <1>2, <2>1, <2>3, <2>4, <2>5, MoveKeeps
<1>15. ASSUME pages' = pages + k, live' = L,
              NEW to, to.at = IF rest.size > 0 THEN "free" ELSE "idle",
              to.at = "free" => to.block = rest, Maps!Goes(t, to)
       PROVE  MapsInv'
  <2>1. PICK H : H = IF to.at = "free" THEN {to.block} ELSE {}
    OBVIOUS
  <2>2. /\ b \in Blocks /\ b.from % Align = 0
        /\ \A c \in Blocks : Within(c, b) /\ c.from % Align = 0 => Sound(c)'
        /\ \A c \in Blocks : Sound(c) => Sound(c)'
        /\ \A c, d \in Blocks : Within(c, b) /\ Sound(d) => Apart(c, d) /\ Apart(d, c)
    BY <1>1, <1>8, <1>15, NewPages
  <2>3. n <= b.size
    BY <1>6, <1>8 DEF Maps!Block
  <2>4. /\ first \in Blocks /\ Within(first, b) /\ first.from % Align = 0 /\ first.size = n
        /\ rest.size > 0 => rest \in Blocks /\ Within(rest, b) /\ rest.from % Align = 0 /\ Apart(first, rest)
    BY <1>5, <1>9, <1>10, <2>2, <2>3, CutInTwo
  <2>5. \A c \in H : c = rest /\ c \in Blocks /\ Within(c, b) /\ c.from % Align = 0 /\ Apart(first, c)
    BY <1>15, <2>1, <2>4
  <2>6. Goes(t, to)
    BY <1>1, <1>5, <1>6, <1>15 DEF Goes
  <2>7. InUse(L)
    BY <1>5, <1>11, <1>12, <1>15, <2>2, <2>4 DEF InUse
  <2>8. Kept(L, O, H)
    BY <1>5, <1>11, <1>12, <2>2, <2>4, <2>5 DEF Kept
  <2>9. Listed(l, L, O, H)
    BY <1>1, <1>3, <1>11, <1>12, <1>13, <2>2, <2>4, <2>5 DEF Listed
  <2> QED BY <1>2, <1>15, <2>1, <2>6, <2>7, <2>8, <2>9, MoveKeeps
<1>16. \/ UNCHANGED <<pages, live>> /\ Maps!Goes(t, Maps!Idle)
       \/ /\ pages' = pages + k /\ live' = L
          /\ Maps!Goes(t, IF rest.size > 0 THEN [at |-> "free", block |-> rest] ELSE Maps!Idle)
  BY <1>4, <1>7, <1>8, <1>9, <1>10, <1>11 DEF Maps!AllocMap
<1>17. PICK to : to = IF rest.size > 0 THEN [at |-> "free", block |-> rest] ELSE Maps!Idle
  OBVIOUS
<1>18. /\ to.at = IF rest.size > 0 THEN "free" ELSE "idle"
       /\ to.at = "free" => to.block = rest
  BY <1>17 DEF Maps!Idle
<1> QED BY <1>14, <1>15, <1>16, <1>17, <1>18

LEMMA MapsInit == Maps!Init => MapsInv
<1> SUFFICES ASSUME Maps!Init PROVE MapsInv
  OBVIOUS
<1>1. \A t \in Threads : pc[t].at = "idle"
  BY DEF Maps!Init, Maps!Idle
<1>2. freelist = <<>> /\ live = {} /\ pages = 0 /\ unmapped = {} /\ DOMAIN pc = Threads
      /\ pc = [t \in Threads |-> pc[t]]
  BY DEF Maps!Init
<1>3. Freeing = {}
  BY <1>1 DEF Freeing
<1>4. MapsType
  BY <1>1, <1>2, MapAssumption DEF MapsType
<1> QED BY <1>1, <1>2, <1>3, <1>4 DEF MapsInv, LockHeld, Disjoint, AllSound

LEMMA MapsNext == MapsInv /\ Maps!Next => MapsInv'
  BY SearchKeeps, AllocTakeKeeps, AllocMapKeeps, CallFreeKeeps, FreeTryKeeps, FreePutKeeps
  DEF Maps!Next, Maps!Step

\* What is in use or being freed is nobody else's.
LEMMA MapsOwn == MapsInv => Maps!OwnMemory
<1> SUFFICES ASSUME MapsInv PROVE Maps!OwnMemory
  OBVIOUS
<1> USE DEF Apart
<1>1. Maps!Freed = {pc[t].block : t \in Freeing}
  BY DEF Maps!Freed, Freeing
<1>2. ASSUME NEW b \in live \cup Maps!Freed, NEW c \in live \cup Maps!Freed, b # c
      PROVE  Maps!Apart(b, c)
  <2>1. \A d, e : Maps!Apart(d, e) => Maps!Apart(e, d)
    BY DEF Maps!Apart
  <2> QED BY <1>1, <1>2, <2>1 DEF MapsInv, Disjoint
<1>3. live \cap Maps!Freed = {}
  <2>1. ASSUME NEW b \in live, b \in Maps!Freed PROVE FALSE
    <3>1. Maps!Apart(b, b) /\ b \in Blocks /\ b.size > 0
      BY <1>1, <2>1 DEF MapsInv, MapsType, Disjoint
    <3> QED BY <3>1 DEF Maps!Apart, Blocks
  <2> QED BY <2>1
<1>4. DOMAIN freelist = 1 .. Len(freelist)
  BY DEF MapsInv, MapsType
<1>5. ASSUME NEW i \in DOMAIN freelist
      PROVE  /\ \A b \in live \cup Maps!Freed : Maps!Apart(freelist[i], b)
             /\ \A j \in DOMAIN freelist : i # j => Maps!Apart(freelist[i], freelist[j])
             /\ Maps!Mapped(freelist[i])
  BY <1>1, <1>4, <1>5 DEF MapsInv, Disjoint, AllSound, Sound
<1>6. Len(freelist) <= MaxEntries /\ \A b \in live : Maps!Mapped(b) /\ b.from % Align = 0
  BY DEF MapsInv, MapsType, AllSound, Sound
<1>7. \A t \in Threads :
        pc[t].at = "take" => pc[t].pp \in DOMAIN freelist /\ freelist[pc[t].pp].size >= pc[t].size
  BY <1>4 DEF MapsInv, LockHeld
<1> QED BY <1>2, <1>3, <1>5, <1>6, <1>7 DEF Maps!OwnMemory

-----------------------------------------------------------------------------
(* The linear allocator.  Its state in MCRbase:                            *)

blocks == s1
allocs == s2
mapped == s3
broken == s4

USE DEF blocks, allocs, mapped, broken

Frames == [size : Nat, len : Nat, pages : Nat]

Chunks == [blk : Nat, off : Nat, size : Nat, req : Nat]

\* The block with a name: the oldest is the first.
At(c, k) == c[Len(c) + 1 - k]

\* The size of a block is that of its pages without its header.
Shape(c) ==
  /\ c \in Seq(Frames)
  /\ \A i \in 1 .. Len(c) : c[i].pages * PageSize = c[i].size + 3 * PtrSize

PagesOfAll(c) == UNION {{n} \X (1 .. At(c, n).pages) : n \in 1 .. Len(c)}

\* The allocator itself is at the start of the oldest.
Base(k) == IF k = 1 THEN 5 * PtrSize ELSE 0

Placed(c, a) ==
  /\ a \in Chunks /\ a.blk \in 1 .. Len(c) /\ a.req <= a.size
  /\ Base(a.blk) + PtrSize <= a.off /\ a.off + a.size <= At(c, a.blk).len

\* Neither is in the other, or in its header.
Clear(a, b) ==
  a.blk = b.blk => a.off + a.size + PtrSize <= b.off \/ b.off + b.size + PtrSize <= a.off

Filled(c) == \A k \in 1 .. Len(c) : Base(k) <= At(c, k).len /\ At(c, k).len <= At(c, k).size

Owned(c, L) ==
  /\ Filled(c)
  /\ \A a \in L : Placed(c, a)
  /\ \A a, b \in L : a # b => Clear(a, b)

MemInv ==
  /\ Shape(blocks) /\ mapped = PagesOfAll(blocks)
  /\ broken = "no" => Owned(blocks, allocs)

LEMMA Pointer == PtrSize \in Nat \ {0}
  BY MemAssumption

\* A block comes in front of the others, whose names stay.
Fronted(c, d, f) ==
  /\ Shape(c) /\ f \in Frames /\ f.pages * PageSize = f.size + 3 * PtrSize
  /\ d = <<f>> \o c

LEMMA Pushed ==
  ASSUME NEW c, NEW d, NEW f, Fronted(c, d, f)
  PROVE  /\ Shape(d) /\ Len(d) = Len(c) + 1 /\ Len(c) \in Nat
         /\ At(d, Len(d)) = f /\ \A k \in 1 .. Len(c) : At(d, k) = At(c, k)
         /\ PagesOfAll(d) = PagesOfAll(c) \cup ({Len(c) + 1} \X (1 .. f.pages))
<1> USE DEF Fronted
<1>1. c \in Seq(Frames)
  BY DEF Shape
<1>2. d \in Seq(Frames) /\ Len(d) = Len(c) + 1 /\ Len(c) \in Nat /\ d[1] = f
      /\ \A i \in 1 .. Len(d) : i # 1 => d[i] = c[i - 1]
  BY <1>1
<1>3. At(d, Len(d)) = f /\ \A k \in 1 .. Len(c) : At(d, k) = At(c, k)
  <2>1. \A k \in 1 .. Len(c) : /\ Len(d) + 1 - k \in 1 .. Len(d) /\ Len(d) + 1 - k # 1
                               /\ (Len(d) + 1 - k) - 1 = Len(c) + 1 - k
    BY <1>2
  <2>2. Len(d) + 1 - Len(d) = 1
    BY <1>2
  <2> QED BY <1>2, <2>1, <2>2 DEF At
<1>4. Shape(d)
  <2>1. ASSUME NEW i \in 1 .. Len(d) PROVE d[i].pages * PageSize = d[i].size + 3 * PtrSize
    <3>1. CASE i = 1
      BY <1>2, <3>1
    <3>2. CASE i # 1
      <4>1. i - 1 \in 1 .. Len(c) /\ d[i] = c[i - 1]
        BY <1>2, <3>2
      <4> QED BY <4>1 DEF Shape
    <3> QED BY <3>1, <3>2
  <2> QED BY <1>2, <2>1 DEF Shape
<1>5. PagesOfAll(d) = PagesOfAll(c) \cup ({Len(c) + 1} \X (1 .. f.pages))
  <2>1. \A n : n \in 1 .. Len(d) <=> n \in 1 .. Len(c) \/ n = Len(c) + 1
    BY <1>2
  <2>2. ASSUME NEW x \in PagesOfAll(d) PROVE x \in PagesOfAll(c) \cup ({Len(c) + 1} \X (1 .. f.pages))
    <3>1. PICK n \in 1 .. Len(d) : x \in {n} \X (1 .. At(d, n).pages)
      BY <2>2 DEF PagesOfAll
    <3>2. CASE n = Len(d)
      BY <1>2, <1>3, <3>1, <3>2
    <3>3. CASE n \in 1 .. Len(c)
      BY <1>3, <3>1, <3>3 DEF PagesOfAll
    <3> QED BY <1>2, <2>1, <3>2, <3>3
  <2>3. ASSUME NEW x \in PagesOfAll(c) PROVE x \in PagesOfAll(d)
    <3>1. PICK n \in 1 .. Len(c) : x \in {n} \X (1 .. At(c, n).pages)
      BY <2>3 DEF PagesOfAll
    <3> QED BY <1>3, <2>1, <3>1 DEF PagesOfAll
  <2>4. ASSUME NEW x \in {Len(c) + 1} \X (1 .. f.pages) PROVE x \in PagesOfAll(d)
    BY <1>2, <1>3, <2>1, <2>4 DEF PagesOfAll
  <2> QED BY <2>2, <2>3, <2>4
<1> QED BY <1>2, <1>3, <1>4, <1>5

\* Of the newest block only the length in use changes.
Topped(c, d, x) ==
  /\ Len(c) > 0 /\ x \in Nat
  /\ d \in Seq(Frames) /\ Len(d) = Len(c)
  /\ d[1] = [c[1] EXCEPT !.len = x]
  /\ \A i \in 2 .. Len(c) : d[i] = c[i]

LEMMA ToppedIs ==
  ASSUME NEW c, Shape(c), NEW d, NEW x, Topped(c, d, x)
  PROVE  /\ Shape(d) /\ Len(c) \in Nat \ {0}
         /\ At(d, Len(c)).len = x /\ At(d, Len(c)).size = At(c, Len(c)).size
         /\ \A k \in 1 .. Len(c) : k # Len(c) => At(d, k) = At(c, k)
         /\ PagesOfAll(d) = PagesOfAll(c)
<1>1. Len(c) \in Nat \ {0} /\ c[1] \in Frames /\ d \in Seq(Frames) /\ Len(d) = Len(c)
  BY DEF Shape, Topped
<1>2. d[1].len = x /\ d[1].size = c[1].size /\ d[1].pages = c[1].pages
  BY <1>1 DEF Topped, Frames
<1>3. \A k \in 1 .. Len(c) : k # Len(c) => Len(c) + 1 - k \in 2 .. Len(c)
  BY <1>1
<1>4. \A k \in 1 .. Len(c) : k # Len(c) => At(d, k) = At(c, k)
  BY <1>1, <1>3 DEF At, Topped
<1>5. Len(c) + 1 - Len(c) = 1
  BY <1>1
<1>6. At(d, Len(c)).len = x /\ At(d, Len(c)).size = At(c, Len(c)).size
      /\ At(d, Len(c)).pages = At(c, Len(c)).pages
  BY <1>1, <1>2, <1>5 DEF At
<1>7. \A k \in 1 .. Len(c) : At(d, k).pages = At(c, k).pages
  BY <1>4, <1>6
<1>8. PagesOfAll(d) = PagesOfAll(c)
  BY <1>1, <1>7 DEF PagesOfAll
<1>9. \A i \in 1 .. Len(c) : d[i].pages = c[i].pages /\ d[i].size = c[i].size
  <2>1. \A i \in 1 .. Len(c) : i = 1 \/ i \in 2 .. Len(c)
    BY <1>1
  <2> QED BY <1>2, <2>1 DEF Topped
<1>10. Shape(d)
  BY <1>1, <1>9 DEF Shape
<1> QED BY <1>1, <1>4, <1>6, <1>8, <1>10

\* What is in use stays its client's when the top of the newest block moves above it.
LEMMA ToppedKeeps ==
  ASSUME NEW c, Shape(c), NEW d, NEW x, Topped(c, d, x), NEW L, Owned(c, L),
         Base(Len(c)) <= x, x <= At(c, Len(c)).size,
         \A a \in L : a.blk = Len(c) => a.off + a.size <= x
  PROVE  Owned(d, L)
<1>1. /\ Len(d) = Len(c) /\ Len(c) \in Nat \ {0}
      /\ At(d, Len(c)).len = x /\ At(d, Len(c)).size = At(c, Len(c)).size
      /\ \A k \in 1 .. Len(c) : k # Len(c) => At(d, k) = At(c, k)
  BY ToppedIs DEF Topped
<1>2. Filled(d)
  BY <1>1 DEF Owned, Filled
<1>3. \A a \in L : Placed(d, a)
  BY <1>1 DEF Owned, Placed
<1> QED BY <1>2, <1>3 DEF Owned

\* A block in front of the others changes nothing for those.
LEMMA PushedKeeps ==
  ASSUME NEW c, NEW d, NEW f, Fronted(c, d, f), f.len <= f.size, Len(c) > 0, NEW L, Owned(c, L)
  PROVE  Owned(d, L)
<1>1. /\ Len(d) = Len(c) + 1 /\ Len(c) \in Nat
      /\ At(d, Len(d)) = f /\ \A k \in 1 .. Len(c) : At(d, k) = At(c, k)
  BY Pushed
<1>2. Base(Len(d)) = 0 /\ f.len \in Nat
  BY <1>1 DEF Base, Frames, Fronted
<1>3. \A k \in 1 .. Len(d) : k \in 1 .. Len(c) \/ k = Len(d)
  BY <1>1
<1>4. Filled(d)
  BY <1>1, <1>2, <1>3 DEF Owned, Filled
<1>5. \A a \in L : Placed(d, a)
  BY <1>1 DEF Owned, Placed
<1> QED BY <1>4, <1>5 DEF Owned

\* One more that is clear of all others.
LEMMA AddKeeps ==
  ASSUME NEW c, NEW L, Owned(c, L), NEW a, Placed(c, a), \A b \in L : Clear(a, b)
  PROVE  Owned(c, L \cup {a})
<1>1. \A b \in L : Clear(b, a)
  BY DEF Clear
<1> QED BY <1>1 DEF Owned

\* ALIGN_ALLOC: room for a header and n bytes.
LEMMA Room ==
  ASSUME NEW n \in Nat
  PROVE  /\ Mem!AlignAlloc(n + Mem!AllocHeader) \in Nat
         /\ n + PtrSize <= Mem!AlignAlloc(n + Mem!AllocHeader)
<1>1. n + PtrSize \in Nat /\ PtrSize \in Nat \ {0}
  BY MemAssumption
<1>2. PICK k \in Nat : /\ k = (n + PtrSize + PtrSize - 1) \div PtrSize /\ k * PtrSize = PtrSize * k
                       /\ n + PtrSize <= PtrSize * k
  BY <1>1, RoundedUp
<1>3. PtrSize * k \in Nat
  BY <1>1, Units
<1> QED BY <1>2, <1>3 DEF Mem!AlignAlloc, Mem!AllocHeader

\* mla_grow: the block has room for what is asked, and goes by its pages.
LEMMA GrownIs ==
  ASSUME NEW n \in Nat, NEW b, b = Mem!Grown(n)
  PROVE  b \in Frames /\ b.pages * PageSize = b.size + 3 * PtrSize /\ b.len = 0 /\ n <= b.size
<1>1. PICK need \in Nat : need = n + 3 * PtrSize + PageSize
  BY MemAssumption
<1>2. PICK k \in Nat : /\ k = (need + PageSize - 1) \div PageSize /\ k * PageSize = PageSize * k
                       /\ need <= PageSize * k
  BY <1>1, RoundedUp, MemAssumption
<1>3. PageSize * k \in Nat
  BY Units, MemAssumption
<1>4. b = [size |-> k * PageSize - 3 * PtrSize, len |-> 0, pages |-> k]
  BY <1>1, <1>2 DEF Mem!Grown, Mem!BlockHeader
<1> QED BY <1>1, <1>2, <1>3, <1>4, MemAssumption DEF Frames

\* mla_alloc, in the newest block or in a new one.
LEMMA AllocateKeeps ==
  ASSUME NEW n \in Nat, NEW old, Shape(blocks), mapped = PagesOfAll(blocks), blocks # <<>>,
         Owned(blocks, allocs \ old), Mem!Allocate(n, old)
  PROVE  Shape(blocks') /\ mapped' = PagesOfAll(blocks') /\ Owned(blocks', allocs')
<1>1. PICK c, d, L : c = blocks /\ d = blocks' /\ L = allocs \ old
  OBVIOUS
<1>2. Shape(c) /\ Owned(c, L) /\ c \in Seq(Frames) /\ Len(c) \in Nat \ {0}
  BY <1>1 DEF Shape
<1>3. PICK m \in Nat : m = Mem!AlignAlloc(n + Mem!AllocHeader) /\ n + PtrSize <= m
  BY Room
<1>4. c[1] \in Frames /\ Mem!Newest = c[1]
  BY <1>1, <1>2 DEF Mem!Newest
<1>5. PtrSize \in Nat \ {0} /\ Mem!AllocHeader = PtrSize
  BY MemAssumption DEF Mem!AllocHeader
<1>6. CASE /\ c[1].size - c[1].len >= m
           /\ d = <<[c[1] EXCEPT !.len = @ + m]>> \o Tail(c)
           /\ allocs' = L \cup {[blk |-> Len(c), off |-> c[1].len + PtrSize, size |-> m - PtrSize, req |-> n]}
           /\ UNCHANGED mapped
  <2>1. PICK x \in Nat : x = c[1].len + m
    BY <1>4 DEF Frames
  <2>2. c[1].len \in Nat /\ c[1].size \in Nat /\ x <= c[1].size /\ c[1].len <= x
    BY <1>4, <1>6, <2>1 DEF Frames
  <2>3. Topped(c, d, x)
    <3>1. PICK f : f = [c[1] EXCEPT !.len = x]
      OBVIOUS
    <3>2. f \in Frames
      BY <1>4, <3>1 DEF Frames
    <3>3. d = <<f>> \o Tail(c)
      BY <1>6, <2>1, <3>1
    <3>4. Tail(c) \in Seq(Frames) /\ Len(Tail(c)) = Len(c) - 1
          /\ \A i \in 1 .. Len(c) - 1 : Tail(c)[i] = c[i + 1]
      BY <1>2
    <3> HIDE DEF blocks
    <3>5. PICK q : q = Tail(c)
      OBVIOUS
    <3>6. d \in Seq(Frames) /\ Len(d) = Len(q) + 1 /\ d[1] = f
          /\ \A i \in 1 .. Len(d) : i # 1 => d[i] = q[i - 1]
      BY ONLY <3>2, <3>3, <3>4, <3>5
    <3>7. \A i \in 2 .. Len(c) : d[i] = c[i]
      BY <1>2, <3>4, <3>5, <3>6
    <3> QED BY <1>2, <3>1, <3>4, <3>5, <3>6, <3>7 DEF Topped
  <2>4. At(c, Len(c)) = c[1]
    BY <1>2 DEF At
  <2>5. /\ Shape(d) /\ Len(d) = Len(c) /\ At(d, Len(c)).len = x
        /\ PagesOfAll(d) = PagesOfAll(c)
    BY <1>2, <2>3, ToppedIs DEF Topped
  <2>6. Base(Len(c)) <= c[1].len /\ \A a \in L : a.blk = Len(c) => a.off + a.size <= c[1].len
    BY <1>2, <2>4 DEF Owned, Filled, Placed
  <2>7. Base(Len(c)) \in Nat
    BY <1>5 DEF Base
  <2>8. Owned(d, L)
    <3>1. \A a \in L : a.off \in Nat /\ a.size \in Nat
      BY <1>2 DEF Owned, Placed, Chunks
    <3> QED BY <1>2, <2>2, <2>3, <2>4, <2>6, <2>7, <3>1, ToppedKeeps
  <2>9. PICK a : a = [blk |-> Len(c), off |-> c[1].len + PtrSize, size |-> m - PtrSize, req |-> n]
    OBVIOUS
  <2>10. PICK top : top = c[1].len
    OBVIOUS
  <2>11. top \in Nat /\ m - PtrSize \in Nat /\ m \in Nat /\ PtrSize \in Nat \ {0} /\ n + PtrSize <= m
    BY <1>3, <1>5, <2>2, <2>10
  <2>12. a \in Chunks /\ a.blk = Len(c) /\ a.off = top + PtrSize /\ a.size = m - PtrSize /\ a.req = n
    BY ONLY <1>2, <2>9, <2>10, <2>11, n \in Nat DEF Chunks
  <2>13. Placed(d, a)
    <3>1. Len(c) \in 1 .. Len(d) /\ Base(Len(c)) <= top /\ At(d, Len(c)).len = top + m
      BY <1>2, <2>1, <2>5, <2>6, <2>10
    <3> QED BY ONLY <2>7, <2>11, <2>12, <3>1, n \in Nat DEF Placed
  <2>14. \A b \in L : Clear(a, b)
    <3>1. ASSUME NEW b \in L PROVE b.off \in Nat /\ b.size \in Nat /\ (b.blk = Len(c) => b.off + b.size <= top)
      BY <1>2, <2>6, <2>10 DEF Owned, Placed, Chunks
    <3> QED BY ONLY <2>11, <2>12, <3>1 DEF Clear
  <2>15. Owned(d, L \cup {a})
    BY <2>8, <2>13, <2>14, AddKeeps
  <2> QED BY <1>1, <1>6, <2>5, <2>9, <2>15
<1>7. ASSUME NEW b, b = Mem!Grown(m), NEW f, f = [b EXCEPT !.len = @ + m],
             d = <<f>> \o c,
             allocs' = L \cup {[blk |-> Len(c) + 1, off |-> b.len + PtrSize, size |-> m - PtrSize, req |-> n]},
             mapped' = mapped \cup ({Len(c) + 1} \X (1 .. b.pages))
      PROVE  Shape(blocks') /\ mapped' = PagesOfAll(blocks') /\ Owned(blocks', allocs')
  <2>1. b \in Frames /\ b.pages * PageSize = b.size + 3 * PtrSize /\ b.len = 0 /\ m <= b.size
    BY <1>7, GrownIs
  <2>2. f \in Frames /\ f.pages = b.pages /\ f.size = b.size /\ f.len = m
    BY <1>3, <1>7, <2>1 DEF Frames
  <2>3. Fronted(c, d, f)
    BY <1>2, <1>7, <2>1, <2>2 DEF Fronted
  <2>4. /\ Shape(d) /\ Len(d) = Len(c) + 1 /\ At(d, Len(d)) = f
        /\ PagesOfAll(d) = PagesOfAll(c) \cup ({Len(c) + 1} \X (1 .. f.pages))
    BY <2>3, Pushed
  <2>5. Owned(d, L)
    BY <1>2, <2>1, <2>2, <2>3, PushedKeeps
  <2>6. PICK a : a = [blk |-> Len(c) + 1, off |-> b.len + PtrSize, size |-> m - PtrSize, req |-> n]
    OBVIOUS
  <2>7. a \in Chunks /\ a.blk = Len(c) + 1 /\ a.off = PtrSize /\ a.size = m - PtrSize /\ a.req = n
    BY <1>2, <1>3, <1>5, <2>1, <2>6 DEF Chunks
  <2>8. Placed(d, a)
    BY <1>2, <1>3, <1>5, <2>2, <2>4, <2>7 DEF Placed, Base
  <2>9. \A e \in L : Clear(a, e)
    BY <1>2, <2>7 DEF Clear, Owned, Placed
  <2>10. Owned(d, L \cup {a})
    BY <2>5, <2>8, <2>9, AddKeeps
  <2> QED BY <1>1, <1>7, <2>2, <2>4, <2>6, <2>10
<1> QED
  BY <1>1, <1>3, <1>4, <1>5, <1>6, <1>7
  DEF Mem!Allocate, Mem!Fits, Mem!Placed, Mem!Item

\* Less in use is still its client's.
LEMMA FewerOwned ==
  ASSUME NEW c, NEW L, Owned(c, L), NEW K, K \subseteq L
  PROVE  Owned(c, K)
  BY DEF Owned

LEMMA TopSet ==
  ASSUME NEW c, Shape(c), Len(c) > 0, NEW x \in Nat, NEW d, d = [c EXCEPT ![1].len = x]
  PROVE  Topped(c, d, x)
<1>1. c \in Seq(Frames) /\ Len(c) \in Nat \ {0} /\ c[1] \in Frames
  BY DEF Shape
<1>2. PICK f : f = [c[1] EXCEPT !.len = x]
  OBVIOUS
<1>3. f \in Frames
  BY <1>1, <1>2 DEF Frames
<1>4. d = [c EXCEPT ![1] = f]
  BY <1>2
<1>5. d \in Seq(Frames) /\ Len(d) = Len(c) /\ d[1] = f /\ \A i \in 2 .. Len(c) : d[i] = c[i]
  BY ONLY <1>1, <1>3, <1>4
<1> QED BY <1>1, <1>2, <1>5 DEF Topped

\* is_most_recent_alloc: all others in its block are below it.
LEMMA BelowTop ==
  ASSUME Shape(blocks), Owned(blocks, allocs), NEW a \in allocs, Mem!MostRecent(a)
  PROVE  /\ a.blk = Len(blocks) /\ a.off + a.size = At(blocks, Len(blocks)).len
         /\ blocks[1] = At(blocks, Len(blocks)) /\ a.off \in Nat /\ a.size \in Nat
         /\ blocks[1] \in Frames /\ Mem!Newest = blocks[1]
         /\ blocks[1].len \in Nat /\ blocks[1].size \in Nat /\ a.off + a.size = blocks[1].len
         /\ Len(blocks) > 0 /\ Len(blocks) \in Nat
         /\ Base(Len(blocks)) + PtrSize <= a.off /\ Base(Len(blocks)) \in Nat
         /\ a.off + a.size <= blocks[1].size
         /\ \A b \in allocs \ {a} : b.blk = Len(blocks) => b.off + b.size + PtrSize <= a.off
<1>1. PICK c, L : c = blocks /\ L = allocs
  OBVIOUS
<1>2. c \in Seq(Frames) /\ Owned(c, L) /\ a \in L
  BY <1>1 DEF Shape
<1>3. Placed(c, a) /\ a \in Chunks
  BY <1>2 DEF Owned, Placed
<1>4. Len(c) \in Nat \ {0} /\ a.off \in Nat /\ a.size \in Nat /\ a.blk \in 1 .. Len(c)
  BY <1>2, <1>3 DEF Placed, Chunks
<1>5. Mem!Newest = c[1] /\ c[1] \in Frames /\ c[1].len \in Nat
  <2>1. Mem!Newest = c[1] /\ c[1] \in Frames
    BY <1>1, <1>2, <1>4 DEF Mem!Newest
  <2> QED BY <2>1 DEF Frames
<1>6. At(c, Len(c)) = c[1]
  BY <1>4 DEF At
<1>7. a.blk = Len(c) /\ a.off + a.size = c[1].len
  BY <1>1, <1>5 DEF Mem!MostRecent
<1>8. Base(Len(c)) + PtrSize <= a.off /\ Base(Len(c)) \in Nat /\ c[1].len <= c[1].size
  BY <1>2, <1>3, <1>4, <1>6, <1>7, Pointer DEF Placed, Base, Owned, Filled
<1>9. ASSUME NEW b \in L \ {a}, b.blk = Len(c) PROVE b.off + b.size + PtrSize <= a.off
  <2>1. Placed(c, b) /\ Clear(b, a)
    BY <1>2, <1>9 DEF Owned
  <2>2. b.off \in Nat /\ b.size \in Nat /\ b.off + b.size <= c[1].len
    BY <1>6, <1>9, <2>1 DEF Placed, Chunks
  <2>3. a.off + a.size + PtrSize <= b.off \/ b.off + b.size + PtrSize <= a.off
    BY <1>7, <1>9, <2>1 DEF Clear
  <2>4. PICK x, y, z \in Nat : x = b.off + b.size /\ y = a.off /\ z = a.size
    BY ONLY <1>4, <2>2
  <2>5. x <= y + z /\ (y + z + PtrSize <= b.off \/ x + PtrSize <= y) /\ b.off <= x
    BY ONLY <1>7, <2>2, <2>3, <2>4
  <2>6. x + PtrSize <= y
    BY ONLY <2>2, <2>5, Pointer, x \in Nat, y \in Nat, z \in Nat
  <2> QED BY ONLY <2>4, <2>6
<1>10. c[1].size \in Nat
  BY <1>5 DEF Frames
<1> QED BY <1>1, <1>4, <1>5, <1>6, <1>7, <1>8, <1>9, <1>10

\* mla_free.
LEMMA MemFreeKeeps ==
  ASSUME MemInv, broken = "no", NEW a \in allocs, Mem!Free(a)
  PROVE  MemInv'
<1>1. Shape(blocks) /\ Owned(blocks, allocs) /\ UNCHANGED <<mapped, broken>> /\ allocs' = allocs \ {a}
      /\ mapped = PagesOfAll(blocks)
  BY DEF MemInv, Mem!Free
<1>2. Owned(blocks, allocs')
  BY <1>1, FewerOwned
<1>3. CASE UNCHANGED blocks
  BY <1>1, <1>2, <1>3 DEF MemInv
<1>4. CASE Mem!MostRecent(a)
  <2>1. /\ a.blk = Len(blocks) /\ a.off + a.size = blocks[1].len
        /\ blocks[1].len \in Nat /\ blocks[1].size \in Nat /\ blocks[1] = At(blocks, Len(blocks)) /\ a.off \in Nat /\ a.size \in Nat
        /\ Len(blocks) > 0 /\ Base(Len(blocks)) + PtrSize <= a.off /\ Base(Len(blocks)) \in Nat
        /\ a.off + a.size <= blocks[1].size
        /\ \A b \in allocs \ {a} : b.blk = Len(blocks) => b.off + b.size + PtrSize <= a.off
    BY <1>1, <1>4, BelowTop
  <2>2. /\ a.off \in Nat /\ a.size \in Nat /\ Base(Len(blocks)) \in Nat
        /\ blocks[1].len \in Nat /\ blocks[1].size \in Nat
        /\ Base(Len(blocks)) + PtrSize <= a.off
        /\ a.off + a.size = blocks[1].len /\ a.off + a.size <= blocks[1].size
    BY ONLY <2>1
  <2>3. PICK x \in Nat : x = a.off - PtrSize
    BY ONLY <2>2, Pointer
  <2>4. x = blocks[1].len - (PtrSize + a.size) /\ Base(Len(blocks)) <= x /\ x <= blocks[1].size
    <3>1. PICK o, z, base, len, size \in Nat :
            o = a.off /\ z = a.size /\ base = Base(Len(blocks)) /\ len = blocks[1].len /\ size = blocks[1].size
      BY ONLY <2>2
    <3>2. base + PtrSize <= o /\ o + z = len /\ o + z <= size /\ x = o - PtrSize
      BY ONLY <2>2, <2>3, <3>1
    <3>3. x = len - (PtrSize + z) /\ base <= x /\ x <= size
      BY ONLY <3>2, Pointer, o \in Nat, z \in Nat, base \in Nat, len \in Nat, size \in Nat, x \in Nat
    <3> QED BY ONLY <3>1, <3>3
  <2>5. blocks' = [blocks EXCEPT ![1].len = x]
    <3>1. blocks' = [blocks EXCEPT ![1].len = @ - (PtrSize + a.size)]
      BY <1>4 DEF Mem!Free, Mem!AllocHeader
    <3> QED BY ONLY <2>4, <3>1
  <2>6. Topped(blocks, blocks', x)
    BY <1>1, <2>1, <2>5, TopSet
  <2>7. Owned(blocks', allocs')
    <3>1. Base(Len(blocks)) <= x /\ x <= At(blocks, Len(blocks)).size
      BY <2>1, <2>4
    <3>2. ASSUME NEW b \in allocs', b.blk = Len(blocks) PROVE b.off + b.size <= x
      <4>1. b \in allocs \ {a} /\ b.off \in Nat /\ b.size \in Nat
        BY <1>1, <3>2 DEF Owned, Placed, Chunks
      <4>2. b.off + b.size + PtrSize <= a.off
        BY <2>1, <3>2, <4>1
      <4>3. PICK y \in Nat : y = b.off + b.size
        BY ONLY <4>1
      <4>4. y + PtrSize <= a.off
        BY ONLY <4>2, <4>3
      <4>5. y <= x
        BY ONLY <2>2, <2>3, <4>4, Pointer, x \in Nat, y \in Nat
      <4> QED BY ONLY <4>3, <4>5
    <3> QED BY <1>1, <1>2, <2>6, <3>1, <3>2, ToppedKeeps
  <2>8. Shape(blocks') /\ PagesOfAll(blocks') = PagesOfAll(blocks)
    BY <1>1, <2>6, ToppedIs
  <2> QED BY <1>1, <2>7, <2>8 DEF MemInv
<1> QED BY <1>3, <1>4 DEF Mem!Free

\* Where the most recent allocation gets another size, only the top moves with it.
LEMMA ResizeKeeps ==
  ASSUME MemInv, broken = "no", NEW a \in allocs, NEW n \in Nat, Mem!MostRecent(a), Mem!Resize(a, n)
  PROVE  /\ Shape(blocks') /\ mapped' = PagesOfAll(blocks')
         /\ blocks[1].len + n - a.size <= blocks[1].size => Owned(blocks', allocs')
<1>1. Shape(blocks) /\ Owned(blocks, allocs) /\ UNCHANGED mapped /\ mapped = PagesOfAll(blocks)
      /\ allocs' = (allocs \ {a}) \cup {[a EXCEPT !.size = n, !.req = n]}
  BY DEF MemInv, Mem!Resize
<1>2. /\ a.blk = Len(blocks) /\ a.off + a.size = blocks[1].len
      /\ blocks[1].len \in Nat /\ blocks[1].size \in Nat /\ blocks[1] = At(blocks, Len(blocks)) /\ a.off \in Nat /\ a.size \in Nat
      /\ Len(blocks) > 0 /\ Len(blocks) \in Nat
      /\ Base(Len(blocks)) + PtrSize <= a.off /\ Base(Len(blocks)) \in Nat
      /\ \A b \in allocs \ {a} : b.blk = Len(blocks) => b.off + b.size + PtrSize <= a.off
  BY <1>1, BelowTop
<1>3. PICK x \in Nat : x = a.off + n /\ x = blocks[1].len + n - a.size
  BY ONLY <1>2, n \in Nat
<1>4. Topped(blocks, blocks', x)
  BY <1>1, <1>2, <1>3, TopSet DEF Mem!Resize
<1>5. /\ Shape(blocks') /\ PagesOfAll(blocks') = PagesOfAll(blocks)
      /\ Len(blocks') = Len(blocks) /\ At(blocks', Len(blocks)).len = x
  BY <1>1, <1>4, ToppedIs DEF Topped
<1>6. ASSUME x <= blocks[1].size PROVE Owned(blocks', allocs')
  <2>1. PICK L : L = allocs \ {a}
    OBVIOUS
  <2>2. Owned(blocks, L)
    BY <1>1, <2>1, FewerOwned
  <2>3. \A b \in L : b \in Chunks /\ b.off \in Nat /\ b.size \in Nat
    BY <2>2 DEF Owned, Placed, Chunks
  <2>4. Base(Len(blocks)) <= x /\ \A b \in L : b.blk = Len(blocks) => b.off + b.size <= x
    <3>1. Base(Len(blocks)) <= x
      BY ONLY <1>2, <1>3, n \in Nat, Pointer
    <3>2. ASSUME NEW b \in L, b.blk = Len(blocks) PROVE b.off + b.size <= x
      <4>1. b.off \in Nat /\ b.size \in Nat /\ b.off + b.size + PtrSize <= a.off
        BY <1>2, <2>1, <2>3, <3>2
      <4>2. a.off \in Nat /\ x = a.off + n
        BY <1>2, <1>3
      <4> QED BY ONLY <4>1, <4>2, n \in Nat, Pointer
    <3> QED BY <3>1, <3>2
  <2>5. Owned(blocks', L)
    BY <1>1, <1>2, <1>4, <1>6, <2>2, <2>4, ToppedKeeps
  <2>6. PICK e : e = [a EXCEPT !.size = n, !.req = n]
    OBVIOUS
  <2>7. a \in Chunks
    BY <1>1 DEF Owned, Placed
  <2>8. e \in Chunks /\ e.blk = a.blk /\ e.off = a.off /\ e.size = n /\ e.req = n
    BY ONLY <2>6, <2>7, n \in Nat DEF Chunks
  <2>9. Placed(blocks', e)
    BY <1>2, <1>3, <1>5, <2>8 DEF Placed
  <2>10. \A b \in L : Clear(e, b)
    BY <1>2, <2>1, <2>3, <2>8, Pointer DEF Clear
  <2> QED BY <1>1, <2>1, <2>5, <2>6, <2>9, <2>10, AddKeeps
<1> QED BY <1>1, <1>3, <1>5, <1>6

\* mla_realloc.
LEMMA ReallocKeeps ==
  ASSUME MemInv, broken = "no", blocks # <<>>, NEW a \in allocs, NEW n \in Nat, Mem!Realloc(a, n)
  PROVE  MemInv'
<1>1. Shape(blocks) /\ Owned(blocks, allocs) /\ mapped = PagesOfAll(blocks)
  BY DEF MemInv
<1>2. PICK L : L = allocs \ {a} /\ Owned(blocks, L)
  <2>1. Owned(blocks, allocs \ {a})
    BY <1>1, FewerOwned
  <2> QED BY ONLY <2>1
<1>3. a \in Chunks /\ Placed(blocks, a) /\ a.size \in Nat
  BY <1>1 DEF Owned, Placed, Chunks
<1>4. CASE Mem!ReallocSame(a, n)
  <2>1. PICK e : e = [a EXCEPT !.req = n]
    OBVIOUS
  <2>2. e \in Chunks /\ e.blk = a.blk /\ e.off = a.off /\ e.size = a.size /\ e.req = n
    BY ONLY <1>3, <2>1, n \in Nat DEF Chunks
  <2>3. Placed(blocks, e)
    BY <1>3, <1>4, <2>2 DEF Placed, Mem!ReallocSame
  <2>4. \A b \in L : Clear(e, b)
    BY <1>1, <1>2, <2>2 DEF Owned, Clear
  <2>5. Owned(blocks, allocs')
    BY <1>2, <1>4, <2>1, <2>3, <2>4, AddKeeps DEF Mem!ReallocSame
  <2> QED BY <1>1, <1>4, <2>5 DEF Mem!ReallocSame, MemInv
<1>5. CASE Mem!ReallocShrink(a, n)
  <2>1. Mem!MostRecent(a) /\ n < a.size /\ Mem!Resize(a, n) /\ UNCHANGED broken
    BY <1>5 DEF Mem!ReallocShrink
  <2>2. blocks[1].len + n - a.size <= blocks[1].size
    <3>1. blocks[1] \in Frames /\ a.off + a.size <= blocks[1].size /\ a.off + a.size = blocks[1].len
          /\ a.off \in Nat
      BY <1>1, <2>1, BelowTop
    <3>2. blocks[1].size \in Nat /\ blocks[1].len \in Nat
      BY <3>1 DEF Frames
    <3> QED BY ONLY <1>3, <2>1, <3>1, <3>2, n \in Nat
  <2> QED BY <2>1, <2>2, ResizeKeeps DEF MemInv
<1>6. CASE Mem!ReallocGrow(a, n)
  <2>1. Mem!MostRecent(a) /\ Mem!Resize(a, n)
    BY <1>6 DEF Mem!ReallocGrow, Mem!InPlace
  <2>2. Mem!Newest = blocks[1] /\ blocks[1] \in Frames
    BY <1>1, <2>1, BelowTop
  <2>3. blocks[1].len \in Nat /\ blocks[1].size \in Nat
    BY <2>2 DEF Frames
  <2>4. broken' = IF blocks[1].len + n - a.size > blocks[1].size THEN "overrun" ELSE "no"
    BY <1>6, <2>2 DEF Mem!ReallocGrow
  <2> QED BY <1>3, <2>1, <2>3, <2>4, ResizeKeeps DEF MemInv
<1>7. CASE Mem!ReallocMove(a, n)
  <2>1. Mem!Allocate(n, {a}) /\ UNCHANGED broken
    BY <1>7 DEF Mem!ReallocMove
  <2> QED BY <1>1, <1>2, <2>1, AllocateKeeps DEF MemInv
<1>8. CASE Mem!ReallocNull(a, n)
  BY <1>1, <1>8 DEF Mem!ReallocNull, MemInv
<1> QED BY <1>4, <1>5, <1>6, <1>7, <1>8 DEF Mem!Realloc

\* The pages a block is freed with are those it has.
LEMMA PagesOfIs ==
  ASSUME Shape(blocks), NEW k \in 1 .. Len(blocks)
  PROVE  Mem!PagesOf(k) = {k} \X (1 .. At(blocks, k).pages)
<1>1. blocks \in Seq(Frames) /\ Len(blocks) \in Nat
  BY DEF Shape
<1>2. PICK f : f = At(blocks, k)
  OBVIOUS
<1>3. f \in Frames /\ f.pages * PageSize = f.size + 3 * PtrSize
  <2>1. Len(blocks) + 1 - k \in 1 .. Len(blocks)
    BY <1>1
  <2> QED BY <1>1, <1>2, <2>1 DEF Shape, At
<1>4. (f.size + 3 * PtrSize) \div PageSize = f.pages
  <2>1. f.pages \in Nat
    BY <1>3 DEF Frames
  <2>2. (PageSize * f.pages) \div PageSize = f.pages /\ f.pages * PageSize = PageSize * f.pages
    BY <2>1, Units, MemAssumption
  <2> QED BY <1>3, <2>2
<1> QED BY <1>2, <1>4 DEF Mem!PagesOf, Mem!Named, At, Mem!BlockHeader

\* MemLinearReset and MemLinearFree.
LEMMA MemLeaveKeeps ==
  ASSUME MemInv, broken = "no", blocks # <<>>, Mem!Reset \/ Mem!Destroy
  PROVE  MemInv'
<1>1. Shape(blocks) /\ Owned(blocks, allocs) /\ mapped = PagesOfAll(blocks)
      /\ blocks \in Seq(Frames) /\ Len(blocks) \in Nat \ {0}
  BY DEF MemInv, Shape
<1>2. \A k \in 1 .. Len(blocks) : Mem!PagesOf(k) = {k} \X (1 .. At(blocks, k).pages)
  BY <1>1, PagesOfIs
<1>3. allocs' = {} /\ UNCHANGED broken
  BY DEF Mem!Reset, Mem!Destroy
<1>4. CASE Mem!Reset
  <2>1. PICK f : f = At(blocks, 1)
    OBVIOUS
  <2>2. f = blocks[Len(blocks)] /\ f \in Frames /\ f.pages * PageSize = f.size + 3 * PtrSize
    BY <1>1, <2>1 DEF At, Shape
  <2>3. PICK g : g = [f EXCEPT !.len = 5 * PtrSize]
    OBVIOUS
  <2>4. g \in Frames /\ g.pages = f.pages /\ g.size = f.size /\ g.len = 5 * PtrSize
    <3>1. 5 * PtrSize \in Nat
      BY MemAssumption
    <3> QED BY ONLY <2>2, <2>3, <3>1 DEF Frames
  <2>5. blocks' = <<g>>
    BY <1>4, <2>2, <2>3 DEF Mem!Reset, Mem!Last, Mem!LinearAllocator
  <2>6. Len(blocks') = 1 /\ blocks' \in Seq(Frames) /\ blocks'[1] = g
    BY <2>4, <2>5
  <2>7. At(blocks', 1) = g
    BY <2>6 DEF At
  <2>8. Shape(blocks')
    BY <2>2, <2>4, <2>6 DEF Shape
  <2>9. Owned(blocks', allocs')
    <3>1. Base(1) <= f.len /\ f.len <= f.size /\ Base(1) = 5 * PtrSize
      BY <1>1, <2>1 DEF Owned, Filled, Base
    <3>2. g.len <= g.size /\ Base(1) <= g.len
      BY <2>2, <2>4, <3>1, MemAssumption DEF Frames
    <3> QED BY <1>3, <2>6, <2>7, <3>2 DEF Owned, Filled
  <2>10. mapped' = PagesOfAll(blocks')
    <3>1. PagesOfAll(blocks') = {1} \X (1 .. f.pages)
      BY <2>4, <2>6, <2>7 DEF PagesOfAll
    <3>2. mapped' = mapped \ UNION {Mem!PagesOf(k) : k \in 2 .. Len(blocks)}
      BY <1>4 DEF Mem!Reset, Mem!FreeBlocks
    <3>3. ASSUME NEW x PROVE x \in mapped' <=> x \in {1} \X (1 .. f.pages)
      <4>1. \A k : k \in 1 .. Len(blocks) <=> k = 1 \/ k \in 2 .. Len(blocks)
        BY <1>1
      <4>2. \A k \in 2 .. Len(blocks) : k # 1 /\ k \in 1 .. Len(blocks)
        BY <1>1
      <4>3. x \in mapped <=> \E k \in 1 .. Len(blocks) : x \in {k} \X (1 .. At(blocks, k).pages)
        BY <1>1 DEF PagesOfAll
      <4>4. x \in mapped' <=> x \in mapped /\ \A k \in 2 .. Len(blocks) : x \notin {k} \X (1 .. At(blocks, k).pages)
        BY <1>2, <3>2, <4>2
      <4> QED BY <2>1, <4>1, <4>2, <4>3, <4>4
    <3> QED BY <3>1, <3>3
  <2> QED BY <1>3, <2>8, <2>9, <2>10 DEF MemInv
<1>5. CASE Mem!Destroy
  <2>1. blocks' = <<>> /\ mapped' = mapped \ UNION {Mem!PagesOf(k) : k \in 1 .. Len(blocks)}
    BY <1>5 DEF Mem!Destroy, Mem!FreeBlocks
  <2>2. Len(blocks') = 0 /\ blocks' \in Seq(Frames)
    BY <2>1
  <2>3. PagesOfAll(blocks') = {} /\ mapped' = {}
    <3>1. mapped = UNION {Mem!PagesOf(k) : k \in 1 .. Len(blocks)}
      BY <1>1, <1>2 DEF PagesOfAll
    <3> QED BY <2>1, <2>2, <3>1 DEF PagesOfAll
  <2> QED BY <1>3, <2>2, <2>3 DEF MemInv, Shape, Owned, Filled
<1> QED BY <1>4, <1>5

LEMMA MemInit == Mem!Init => MemInv
<1> SUFFICES ASSUME Mem!Init PROVE MemInv
  OBVIOUS
<1>1. PICK f : f = [size |-> RootPages * PageSize - 3 * PtrSize, len |-> 5 * PtrSize, pages |-> RootPages]
  OBVIOUS
<1>2. blocks = <<f>> /\ allocs = {} /\ mapped = {1} \X (1 .. RootPages)
  BY <1>1 DEF Mem!Init, Mem!BlockHeader, Mem!LinearAllocator
<1>3. RootPages * PageSize \in Nat
  BY Units, MemAssumption
<1>4. f \in Frames /\ f.pages = RootPages /\ f.len = 5 * PtrSize /\ f.len <= f.size
      /\ f.pages * PageSize = f.size + 3 * PtrSize
  BY <1>1, <1>3, MemAssumption DEF Frames
<1>5. blocks \in Seq(Frames) /\ Len(blocks) = 1 /\ blocks[1] = f
  BY <1>2, <1>4
<1>6. At(blocks, 1) = f
  BY <1>5 DEF At
<1> QED BY <1>2, <1>4, <1>5, <1>6, MemAssumption DEF MemInv, Shape, PagesOfAll, Owned, Filled, Base

LEMMA MemNext == MemInv /\ Mem!Next => MemInv'
<1> SUFFICES ASSUME MemInv, Mem!Next PROVE MemInv'
  OBVIOUS
<1>1. blocks # <<>> /\ broken = "no"
  BY DEF Mem!Next
<1>2. AllocSizes \subseteq Nat
  BY MemAssumption
<1>3. ASSUME NEW n \in AllocSizes, Mem!Alloc(n) PROVE MemInv'
  <2>1. Mem!Allocate(n, {}) /\ UNCHANGED broken /\ allocs = allocs \ {}
    BY <1>3 DEF Mem!Alloc
  <2> QED BY <1>1, <1>2, <2>1, AllocateKeeps DEF MemInv
<1> QED BY <1>1, <1>2, <1>3, MemFreeKeeps, ReallocKeeps, MemLeaveKeeps DEF Mem!Next

LEMMA MemOwn == MemInv => Mem!OwnMemory /\ Mem!PagesAccounted
<1> SUFFICES ASSUME MemInv PROVE Mem!OwnMemory /\ Mem!PagesAccounted
  OBVIOUS
<1>1. Mem!PagesAccounted
  BY DEF MemInv, PagesOfAll, Mem!PagesAccounted, Mem!Named, At
<1>2. ASSUME broken = "no" PROVE Mem!OwnMemory
  <2>1. Shape(blocks) /\ Owned(blocks, allocs) /\ blocks \in Seq(Frames) /\ Len(blocks) \in Nat
    BY <1>2 DEF MemInv, Shape
  <2>2. PtrSize \in Nat \ {0}
    BY MemAssumption
  <2>3. ASSUME NEW a \in allocs
        PROVE  /\ a.req <= a.size /\ a.blk \in 1 .. Len(blocks)
               /\ a.off - PtrSize >= (IF a.blk = 1 THEN 5 * PtrSize ELSE 0)
               /\ a.off + a.size <= At(blocks, a.blk).len
               /\ a.off \in Nat /\ a.size \in Nat
    BY <2>1, <2>2 DEF Owned, Placed, Chunks, Base
  <2>4. \A i \in DOMAIN blocks : blocks[i].len + 3 * PtrSize <= blocks[i].pages * PageSize
    <3>1. ASSUME NEW i \in 1 .. Len(blocks) PROVE blocks[i].len + 3 * PtrSize <= blocks[i].pages * PageSize
      <4>1. PICK f : f = blocks[i]
        OBVIOUS
      <4>2. f \in Frames /\ f.pages * PageSize = f.size + 3 * PtrSize
        BY <2>1, <4>1 DEF Shape
      <4>3. Len(blocks) + 1 - i \in 1 .. Len(blocks) /\ At(blocks, Len(blocks) + 1 - i) = f
        BY <2>1, <4>1 DEF At
      <4>4. f.len <= f.size
        BY <2>1, <4>3 DEF Owned, Filled
      <4> QED BY <2>2, <4>1, <4>2, <4>4 DEF Frames
    <3> QED BY <2>1, <3>1
  <2>5. ASSUME NEW a \in allocs, NEW b \in allocs, a.blk = b.blk, NEW x,
               x \in (a.off - PtrSize) .. (a.off + a.size - 1),
               x \in (b.off - PtrSize) .. (b.off + b.size - 1)
        PROVE  a = b
    <3>1. a # b => Clear(a, b)
      BY <2>1 DEF Owned
    <3>2. a.off \in Nat /\ a.size \in Nat /\ b.off \in Nat /\ b.size \in Nat
      BY <2>3
    <3> QED BY ONLY <2>2, <2>5, <3>1, <3>2 DEF Clear
  <2> QED
    BY <2>3, <2>4, <2>5
    DEF Mem!OwnMemory, Mem!Extent, Mem!AllocHeader, Mem!BlockHeader, Mem!LinearAllocator, Mem!Named, At
<1>3. broken # "no" => Mem!OwnMemory
  BY DEF Mem!OwnMemory
<1> QED BY <1>1, <1>2, <1>3

-----------------------------------------------------------------------------
(* Strings.  Their state in MCRbase:                                       *)

len   == s1
cap   == s2
mem   == s3
wrote == s4
fault == s5

USE DEF len, cap, mem, wrote, fault

Faults == {"no", "u32", "null", "sprintf", "digits"}

Strs == [len : Nat, cap : Nat, mem : Nat, broken : Faults]

\* The header says what there is, in 32 bits.
Sound32(s) ==
  /\ s \in Strs
  /\ s.broken \notin Strings!Hopeless => s.len <= s.cap /\ StrHeader + s.cap + 1 <= s.mem /\ s.mem < U32

\* How far past its room an operation writes: the last escape of str_appendrepr.
Past(how) == IF how = "sprintf" THEN 6 ELSE 0

StrInv ==
  /\ Sound32(Strings!Now) /\ wrote \in Nat
  /\ fault \notin Strings!Hopeless => wrote <= mem - StrHeader + Past(fault)

LEMMA StrConstants ==
  /\ U32 \in Nat \ {0} /\ StrHeader \in Nat /\ Word \in Nat \ {0} /\ StrLarge \in Nat
  BY ONLY StrAssumption

\* What is aligned is no less.
LEMMA Aligned ==
  ASSUME NEW n \in Nat
  PROVE  Strings!AlignWord(n) \in Nat /\ n <= Strings!AlignWord(n)
<1>1. PICK k \in Nat : k = (n + Word - 1) \div Word /\ k * Word = Word * k /\ n <= Word * k
  BY RoundedUp, StrConstants
<1>2. Word * k \in Nat
  BY Units, StrConstants
<1> QED BY <1>1, <1>2 DEF Strings!AlignWord

\* str_makeroom: the room that was asked for is there, unless something is broken.
LEMMA MakeRoomIs ==
  ASSUME NEW s, Sound32(s), NEW n \in Nat, NEW r, r = Strings!MakeRoom(s, n)
  PROVE  /\ Sound32(r) /\ r.len = s.len
         /\ r.broken \notin Strings!Hopeless =>
              s.broken \notin Strings!Hopeless /\ r.broken = s.broken /\ n <= r.cap - r.len
<1>1. s \in Strs /\ s.len \in Nat /\ s.cap \in Nat /\ s.mem \in Nat
  BY ONLY Sound32(s) DEF Sound32, Strs
<1>2. CASE s.cap - s.len >= n
  BY <1>2 DEF Strings!MakeRoom
<1>3. CASE ~(s.cap - s.len >= n)
  <2>1. PICK least \in Nat : least = s.len + n
    BY <1>1
  <2>2. PICK c : c = Strings!Capacity(least % U32) /\ c \in Nat /\ (least < U32 => least <= c)
    <3>1. PICK b \in Nat : b = least % U32 /\ (least < U32 => b = least)
      BY ONLY <2>1, StrConstants
    <3>2. Strings!AlignWord(2 * b) \in Nat /\ 2 * b <= Strings!AlignWord(2 * b)
      BY Aligned
    <3>3. PICK c : c = Strings!Capacity(b)
      OBVIOUS
    <3>4. c = IF b < StrLarge THEN Strings!AlignWord(2 * b) ELSE b
      BY <3>3 DEF Strings!Capacity
    <3>5. c \in Nat /\ b <= c
      BY <3>2, <3>4, StrConstants
    <3> QED BY <3>1, <3>3, <3>5
  <2>3. PICK size \in Nat : size = StrHeader + c + 1
    BY <2>2, StrConstants
  <2>4. PICK m \in Nat : m = size % U32 /\ (size < U32 => m = size)
    BY ONLY <2>3, StrConstants
  <2>5. PICK q : q = [s EXCEPT !.cap = c, !.mem = m]
    OBVIOUS
  <2>6. q \in Strs /\ q.len = s.len /\ q.cap = c /\ q.mem = m /\ q.broken = s.broken
    BY ONLY <1>1, <2>2, <2>4, <2>5 DEF Strs
  <2>7. r = Strings!BrokenIf(q, least >= U32 \/ size >= U32, "u32")
    BY <1>3, <2>1, <2>2, <2>3, <2>4, <2>5 DEF Strings!MakeRoom, Strings!Resized
  <2>8. CASE least >= U32 \/ size >= U32
    <3>1. r = [q EXCEPT !.broken = "u32"] \/ (r = q /\ q.broken \in Strings!Hopeless)
      BY <2>7, <2>8 DEF Strings!BrokenIf
    <3>2. r \in Strs /\ r.len = q.len /\ r.broken \in Strings!Hopeless
      BY ONLY <2>6, <3>1 DEF Strs, Faults, Strings!Hopeless
    <3> QED BY <2>6, <3>2 DEF Sound32
  <2>9. CASE ~(least >= U32 \/ size >= U32)
    <3>1. r = q
      BY <2>7, <2>9 DEF Strings!BrokenIf
    <3>2. least < U32 /\ size < U32
      BY ONLY <2>1, <2>3, <2>9, StrConstants
    <3>3. r \in Strs /\ r.len = s.len /\ r.cap = c /\ r.mem = size /\ r.broken = s.broken /\ least <= c
      BY <2>2, <2>4, <2>6, <3>1, <3>2
    <3>4. r.len <= r.cap /\ StrHeader + r.cap + 1 <= r.mem /\ r.mem < U32 /\ n <= r.cap - r.len
      BY ONLY <1>1, <2>1, <2>2, <2>3, <3>2, <3>3, n \in Nat, StrConstants
    <3> QED BY <3>3, <3>4 DEF Sound32
  <2> QED BY <2>8, <2>9
<1> QED BY <1>2, <1>3

\* What is broken stays broken.
LEMMA BrokenIs ==
  ASSUME NEW s, Sound32(s), NEW p \in BOOLEAN, NEW how \in Faults \ {"no"}, NEW r, r = Strings!BrokenIf(s, p, how)
  PROVE  /\ Sound32(r) /\ r.len = s.len /\ r.cap = s.cap /\ r.mem = s.mem
         /\ r.broken \notin Strings!Hopeless =>
              /\ s.broken \notin Strings!Hopeless
              /\ r.broken = IF p THEN how ELSE s.broken
<1>1. s \in Strs
  BY DEF Sound32
<1>2. CASE p /\ s.broken \notin Strings!Hopeless
  <2>1. r = [s EXCEPT !.broken = how]
    BY <1>2 DEF Strings!BrokenIf
  <2>2. r \in Strs /\ r.len = s.len /\ r.cap = s.cap /\ r.mem = s.mem /\ r.broken = how
    BY ONLY <1>1, <2>1, how \in Faults \ {"no"} DEF Strs
  <2> QED BY <1>2, <2>2 DEF Sound32
<1>3. CASE ~(p /\ s.broken \notin Strings!Hopeless)
  BY <1>3 DEF Strings!BrokenIf
<1> QED BY <1>2, <1>3

\* An operation that writes no more than there is room for, and past it only so far.
LEMMA BecomesKeeps ==
  ASSUME NEW s, Sound32(s), NEW n \in Nat, NEW past \in Nat,
         s.broken \notin Strings!Hopeless => n <= s.cap - s.len /\ n + past <= s.cap - s.len + Past(s.broken),
         Strings!BecomesPast(s, n, past)
  PROVE  StrInv'
<1>1. s.len \in Nat /\ s.cap \in Nat /\ s.mem \in Nat /\ s.broken \in Faults
  BY DEF Sound32, Strs
<1>2. U32 \in Nat \ {0} /\ StrHeader \in Nat
  BY StrConstants
<1>3. len' = (s.len + n) % U32 /\ cap' = s.cap /\ mem' = s.mem /\ wrote' = s.len + n + past + 1 /\ fault' = s.broken
  BY DEF Strings!BecomesPast
<1>4. len' \in Nat /\ wrote' \in Nat
  BY <1>1, <1>2, <1>3
<1>5. PICK r : r = [len |-> len', cap |-> cap', mem |-> mem', broken |-> fault']
  OBVIOUS
<1>6. r \in Strs /\ r.len = len' /\ r.cap = s.cap /\ r.mem = s.mem /\ r.broken = s.broken
  BY <1>1, <1>3, <1>4, <1>5 DEF Strs
<1>7. s.broken \notin Strings!Hopeless =>
        /\ len' <= s.cap /\ StrHeader + s.cap + 1 <= s.mem /\ s.mem < U32
        /\ wrote' <= s.mem - StrHeader + Past(s.broken)
  <2>1. SUFFICES ASSUME s.broken \notin Strings!Hopeless
                 PROVE  /\ len' <= s.cap /\ StrHeader + s.cap + 1 <= s.mem /\ s.mem < U32
                        /\ wrote' <= s.mem - StrHeader + Past(s.broken)
    OBVIOUS
  <2>2. s.len + n <= s.cap /\ StrHeader + s.cap + 1 <= s.mem /\ s.mem < U32
    BY <1>1, <2>1 DEF Sound32
  <2>3. s.len + n < U32
    BY <1>1, <1>2, <2>2
  <2>4. len' = s.len + n
    <3>1. PICK k \in Nat : k = s.len + n
      BY <1>1
    <3>2. k < U32 => k % U32 = k
      BY ONLY <1>2, k \in Nat
    <3> QED BY <1>3, <2>3, <3>1, <3>2
  <2>5. Past(s.broken) \in Nat
    BY DEF Past
  <2> QED BY <1>1, <1>2, <1>3, <2>1, <2>2, <2>4, <2>5
<1>8. Sound32(r)
  BY <1>6, <1>7 DEF Sound32
<1> QED BY <1>3, <1>4, <1>5, <1>7, <1>8 DEF StrInv, Strings!Now

\* As above, when nothing is written past the room.
LEMMA FitsKeeps ==
  ASSUME NEW s, Sound32(s), NEW n \in Nat, s.broken \notin Strings!Hopeless => n <= s.cap - s.len,
         Strings!Becomes(s, n)
  PROVE  StrInv'
<1>1. Past(s.broken) \in Nat /\ s.cap \in Nat /\ s.len \in Nat
  BY DEF Past, Sound32, Strs
<1>2. s.broken \notin Strings!Hopeless => n + 0 <= s.cap - s.len + Past(s.broken)
  BY <1>1
<1> QED BY <1>2, BecomesKeeps DEF Strings!Becomes

\* An operation that asks for the room it writes to.
LEMMA ExtendKeeps ==
  ASSUME StrInv, NEW n \in Nat, NEW k \in Nat, k <= n, Strings!Becomes(Strings!MakeRoom(Strings!Now, n), k)
  PROVE  StrInv'
<1>1. PICK r : r = Strings!MakeRoom(Strings!Now, n)
  OBVIOUS
<1>2. Sound32(r) /\ (r.broken \notin Strings!Hopeless => n <= r.cap - r.len)
  BY <1>1, MakeRoomIs DEF StrInv
<1>3. r.len \in Nat /\ r.cap \in Nat
  BY <1>2 DEF Sound32, Strs
<1>4. r.broken \notin Strings!Hopeless => k <= r.cap - r.len
  BY <1>2, <1>3
<1> QED BY <1>1, <1>2, <1>4, FitsKeeps

\* A length that 32 bits can say is what was asked for.
LEMMA ExtendByKeeps ==
  ASSUME StrInv, NEW n \in Nat, NEW k \in Nat, Strings!ExtendBy(k, n)
  PROVE  StrInv'
<1>1. PICK m \in Nat, w \in Nat : m = k * n /\ w = m % U32 /\ (m < U32 => w = m)
  <2>1. k * n \in Nat
    OBVIOUS
  <2>2. PICK m \in Nat : m = k * n
    BY <2>1
  <2>3. m % U32 \in Nat /\ (m < U32 => m % U32 = m)
    BY StrConstants
  <2> QED BY <2>2, <2>3
<1>2. PICK r : r = Strings!MakeRoom(Strings!Now, w)
  OBVIOUS
<1>3. Sound32(r) /\ (r.broken \notin Strings!Hopeless => w <= r.cap - r.len)
  BY <1>2, MakeRoomIs DEF StrInv
<1>4. PICK q : q = Strings!BrokenIf(r, m >= U32, "u32")
  OBVIOUS
<1>5. /\ Sound32(q) /\ q.len = r.len /\ q.cap = r.cap
      /\ q.broken \notin Strings!Hopeless => r.broken \notin Strings!Hopeless /\ ~(m >= U32)
  <2>1. PICK p \in BOOLEAN : p <=> m >= U32
    OBVIOUS
  <2>2. "u32" \in Faults \ {"no"} /\ "u32" \in Strings!Hopeless /\ q = Strings!BrokenIf(r, p, "u32")
    BY <1>4, <2>1 DEF Faults, Strings!BrokenIf, Strings!Hopeless
  <2>3. /\ Sound32(q) /\ q.len = r.len /\ q.cap = r.cap
        /\ q.broken \notin Strings!Hopeless =>
             r.broken \notin Strings!Hopeless /\ q.broken = IF p THEN "u32" ELSE r.broken
    BY <1>3, <2>1, <2>2, BrokenIs
  <2> QED BY <2>1, <2>2, <2>3
<1>6. q.broken \notin Strings!Hopeless => m <= q.cap - q.len
  BY <1>1, <1>3, <1>5, StrConstants
<1>7. Strings!Becomes(q, m)
  BY <1>1, <1>2, <1>4 DEF Strings!ExtendBy
<1> QED BY <1>5, <1>6, <1>7, FitsKeeps

\* str_appendfmtv: there is room for the terminator, too.
LEMMA FmtKeeps ==
  ASSUME StrInv, NEW f \in Nat, NEW n \in Nat, Strings!AppendFmt(f, n)
  PROVE  StrInv'
<1>1. PICK room \in Nat : room = 2 * f + 1
  OBVIOUS
<1>2. PICK s : s = Strings!MakeRoom(Strings!Now, room)
  OBVIOUS
<1>3. Sound32(s) /\ (s.broken \notin Strings!Hopeless => room <= s.cap - s.len)
  BY <1>2, MakeRoomIs DEF StrInv
<1>4. s.len \in Nat /\ s.cap \in Nat
  BY <1>3 DEF Sound32, Strs
<1>5. CASE n < room
  <2>1. Strings!Becomes(s, n)
    BY <1>1, <1>2, <1>5 DEF Strings!AppendFmt
  <2>2. s.broken \notin Strings!Hopeless => n <= s.cap - s.len
    BY <1>3, <1>4, <1>5
  <2> QED BY <1>3, <2>1, <2>2, FitsKeeps
<1>6. CASE ~(n < room)
  <2>1. PICK r : r = Strings!MakeRoom(s, n + 1)
    OBVIOUS
  <2>2. Sound32(r) /\ (r.broken \notin Strings!Hopeless => n + 1 <= r.cap - r.len)
    <3>1. n + 1 \in Nat
      OBVIOUS
    <3> QED BY <1>3, <2>1, <3>1, MakeRoomIs
  <2>3. r.len \in Nat /\ r.cap \in Nat
    BY <2>2 DEF Sound32, Strs
  <2>4. Strings!Becomes(r, n)
    BY <1>1, <1>2, <1>6, <2>1 DEF Strings!AppendFmt
  <2>5. r.broken \notin Strings!Hopeless => n <= r.cap - r.len
    BY <2>2, <2>3
  <2> QED BY <2>2, <2>4, <2>5, FitsKeeps
<1> QED BY <1>5, <1>6

\* str_appendrepr: it writes what fits into the room of the try that succeeds.
LEMMA ReprKeeps ==
  ASSUME StrInv, NEW n \in Nat, Strings!AppendRepr(n)
  PROVE  StrInv'
<1>1. \A k \in Nat : k % U32 \in Nat
  BY StrConstants
<1>2. PICK now : now = Strings!BrokenIf(Strings!Now, 4 * n >= U32, "u32")
  OBVIOUS
<1>3. Sound32(now)
  <2>1. PICK p \in BOOLEAN : p <=> 4 * n >= U32
    OBVIOUS
  <2>2. "u32" \in Faults \ {"no"} /\ now = Strings!BrokenIf(Strings!Now, p, "u32")
    BY <1>2, <2>1 DEF Faults, Strings!BrokenIf
  <2> QED BY <2>2, BrokenIs DEF StrInv
<1>4. (4 * n) % U32 \in Nat /\ (8 * n) % U32 \in Nat /\ (16 * n) % U32 \in Nat /\ (32 * n) % U32 \in Nat
  <2>1. 4 * n \in Nat /\ 8 * n \in Nat /\ 16 * n \in Nat /\ 32 * n \in Nat
    OBVIOUS
  <2> QED BY ONLY <1>1, <2>1
<1>5. PICK first, second, third, fourth :
        /\ first = Strings!MakeRoom(now, (4 * n) % U32)
        /\ second = Strings!MakeRoom(first, (8 * n) % U32)
        /\ third = Strings!MakeRoom(second, (16 * n) % U32)
        /\ fourth = Strings!MakeRoom(third, (32 * n) % U32)
        /\ Strings!WriteRepr(<<first, second, third, fourth>>, n)
  BY ONLY <1>2, Strings!AppendRepr(n) DEF Strings!AppendRepr
<1>6. Sound32(first)
  BY <1>3, <1>4, <1>5, MakeRoomIs
<1>7. Sound32(second)
  BY <1>4, <1>5, <1>6, MakeRoomIs
<1>8. Sound32(third)
  BY <1>4, <1>5, <1>7, MakeRoomIs
<1>9. Sound32(fourth)
  BY <1>4, <1>5, <1>8, MakeRoomIs
<1>10. PICK room : room = <<first, second, third, fourth>>
  OBVIOUS
<1>11. PICK m \in Strings!Represented(n), i \in 1 .. 4, past \in {0, 6} :
         LET s    == room[i]
             free == s.cap - s.len
             fits == Strings!Min({m, free})
         IN  /\ m > free => past > 0
             /\ past > 0 => fits >= 4
             /\ Strings!BecomesPast(Strings!BrokenIf(s, fits + past > free, "sprintf"), fits, past)
  <2>1. Strings!WriteRepr(room, n)
    BY ONLY <1>5, <1>10
  <2> QED BY ONLY <2>1 DEF Strings!WriteRepr
<1>12. m \in Nat
  <2>1. PICK j \in n .. 4 * n : m \in {j + k : k \in 0 .. j \div Line}
    BY <1>11 DEF Strings!Represented
  <2>2. j \in Nat /\ Line \in Nat \ {0}
    BY StrAssumption
  <2>3. j \div Line \in Nat
    BY <2>2, Divided
  <2> QED BY ONLY <2>1, <2>2, <2>3
<1>13. PICK s, free, fits : s = room[i] /\ free = s.cap - s.len /\ fits = Strings!Min({m, free})
  OBVIOUS
<1>14. Sound32(s)
  <2>1. room[1] = first /\ room[2] = second /\ room[3] = third /\ room[4] = fourth
    BY <1>10
  <2>2. i = 1 \/ i = 2 \/ i = 3 \/ i = 4
    OBVIOUS
  <2> QED BY <1>6, <1>7, <1>8, <1>9, <1>13, <2>1, <2>2
<1>15. s.len \in Nat /\ s.cap \in Nat /\ free \in Int
  BY <1>13, <1>14 DEF Sound32, Strs
<1>16. (fits = m /\ m <= free) \/ (fits = free /\ free < m)
  <2>1. \E x \in {m, free} : \A y \in {m, free} : x <= y
    BY <1>12, <1>15
  <2>2. fits \in {m, free} /\ \A y \in {m, free} : fits <= y
    BY <1>13, <2>1 DEF Strings!Min
  <2> QED BY <1>12, <1>15, <2>2
<1>17. fits \in Nat
  <2>1. m > free => past > 0
    BY <1>11, <1>13
  <2>2. past > 0 => fits >= 4
    BY <1>11, <1>13
  <2> QED BY <1>12, <1>15, <1>16, <2>1, <2>2
<1>18. PICK p \in BOOLEAN : p <=> fits + past > free
  OBVIOUS
<1>19. PICK q : q = Strings!BrokenIf(s, p, "sprintf")
  OBVIOUS
<1>20. Strings!BecomesPast(q, fits, past)
  <2>1. Strings!BecomesPast(Strings!BrokenIf(s, fits + past > free, "sprintf"), fits, past)
    BY <1>11, <1>13
  <2>2. q = Strings!BrokenIf(s, fits + past > free, "sprintf")
    BY <1>18, <1>19 DEF Strings!BrokenIf
  <2> QED BY <2>1, <2>2
<1>21. /\ Sound32(q) /\ q.len = s.len /\ q.cap = s.cap
       /\ q.broken \notin Strings!Hopeless => q.broken = IF p THEN "sprintf" ELSE s.broken
  <2>1. "sprintf" \in Faults \ {"no"}
    BY DEF Faults
  <2> QED BY <1>14, <1>19, <2>1, BrokenIs
<1>22. q.broken \notin Strings!Hopeless =>
         fits <= q.cap - q.len /\ fits + past <= q.cap - q.len + Past(q.broken)
  <2>1. SUFFICES ASSUME q.broken \notin Strings!Hopeless
                 PROVE  fits <= free /\ fits + past <= free + Past(q.broken)
    BY <1>13, <1>21
  <2>2. fits <= free
    BY <1>12, <1>15, <1>16
  <2>3. CASE p
    <3>1. Past(q.broken) = 6
      BY <1>21, <2>1, <2>3 DEF Past
    <3> QED BY <1>15, <1>17, <2>2, <3>1
  <2>4. CASE ~p
    <3>1. fits + past <= free
      BY <1>15, <1>17, <1>18, <2>4
    <3>2. Past(q.broken) \in {0, 6}
      BY DEF Past
    <3> QED BY <1>15, <1>17, <2>2, <3>1, <3>2
  <2> QED BY <2>3, <2>4
<1>23. past \in Nat
  OBVIOUS
<1> QED BY ONLY <1>17, <1>20, <1>21, <1>22, <1>23, BecomesKeeps

LEMMA StrNext == StrInv /\ Strings!Next => StrInv'
<1> SUFFICES ASSUME StrInv, Strings!Next PROVE StrInv'
  OBVIOUS
<1>1. PICK r : r = Strings!Now
  OBVIOUS
<1>2. /\ fault = "no" /\ r = [len |-> len, cap |-> cap, mem |-> mem, broken |-> fault]
      /\ r \in Strs /\ wrote \in Nat
  BY <1>1 DEF Strings!Next, Strings!Now, StrInv, Sound32
<1>3. r.len = len /\ r.cap = cap /\ r.mem = mem /\ r.broken = fault
  BY <1>2
<1>4. /\ len \in Nat /\ cap \in Nat /\ mem \in Nat
      /\ StrHeader + cap + 1 <= mem /\ mem < U32
  <2>1. len \in Nat /\ cap \in Nat /\ mem \in Nat
    BY <1>2, <1>3 DEF Strs
  <2>2. StrHeader + r.cap + 1 <= r.mem /\ r.mem < U32
    BY <1>1, <1>2, <1>3 DEF StrInv, Sound32, Strings!Hopeless
  <2> QED BY <1>3, <2>1, <2>2
<1>5. CASE Strings!AppendC
  BY <1>5, ExtendKeeps DEF Strings!AppendC, Strings!Extend
<1>6. CASE Strings!OutOfMemory
  <2>1. fault' = "null" /\ UNCHANGED <<len, cap, mem, wrote>>
    BY <1>6 DEF Strings!OutOfMemory
  <2>2. PICK q : q = [len |-> len, cap |-> cap, mem |-> mem, broken |-> "null"]
    OBVIOUS
  <2>3. q \in Strs /\ q.broken = "null"
    BY <1>4, <2>2 DEF Strs, Faults
  <2>4. Strings!Now' = q
    BY <2>1, <2>2 DEF Strings!Now
  <2> QED BY <1>2, <2>1, <2>3, <2>4 DEF StrInv, Sound32, Strings!Hopeless
<1>7. ASSUME NEW n \in StrSizes PROVE n \in Nat
  BY <1>7, StrAssumption
<1>8. ASSUME NEW n \in StrSizes, Strings!Reserve(n) \/ Strings!AppendN(n) \/ Strings!AppendFill(n)
      PROVE  StrInv'
  BY <1>7, <1>8, ExtendKeeps DEF Strings!Reserve, Strings!AppendN, Strings!AppendFill, Strings!Extend
<1>9. ASSUME NEW n \in StrSizes, Strings!AppendHex(n) PROVE StrInv'
  BY <1>7, <1>9, ExtendByKeeps DEF Strings!AppendHex
<1>10. ASSUME NEW n \in StrSizes, Strings!SetLen(n) PROVE StrInv'
  <2>1. n \in Nat /\ n <= cap /\ len' = n /\ wrote' = n + 1 /\ UNCHANGED <<cap, mem, fault>>
    BY <1>7, <1>10 DEF Strings!SetLen
  <2>2. PICK q : q = [len |-> n, cap |-> cap, mem |-> mem, broken |-> "no"]
    OBVIOUS
  <2>3. q \in Strs /\ q.len = n /\ q.cap = cap /\ q.mem = mem
    BY <1>4, <2>1, <2>2 DEF Strs, Faults
  <2>4. Strings!Now' = q
    BY <1>2, <2>1, <2>2 DEF Strings!Now
  <2>5. Sound32(q)
    BY <1>4, <2>1, <2>3 DEF Sound32
  <2>6. wrote' \in Nat /\ wrote' <= mem' - StrHeader + Past(fault')
    <3>1. Past(fault') = 0
      BY <1>2, <2>1 DEF Past
    <3> QED BY ONLY <1>4, <2>1, <3>1, StrConstants
  <2> QED BY <2>4, <2>5, <2>6 DEF StrInv
<1>11. ASSUME NEW n \in StrSizes, Strings!AppendU64(n) PROVE StrInv'
  <2>1. PICK s : s = Strings!MakeRoom(Strings!Now, n)
    OBVIOUS
  <2>2. Sound32(s) /\ (s.broken \notin Strings!Hopeless => n <= s.cap - s.len)
    BY <1>7, <2>1, MakeRoomIs DEF StrInv
  <2>3. PICK q : q = Strings!BrokenIf(s, n > Digits, "digits")
    OBVIOUS
  <2>4. Sound32(q) /\ q.len = s.len /\ q.cap = s.cap /\ (q.broken \notin Strings!Hopeless => s.broken \notin Strings!Hopeless)
    <3>1. PICK p \in BOOLEAN : p <=> n > Digits
      OBVIOUS
    <3>2. "digits" \in Faults \ {"no"} /\ q = Strings!BrokenIf(s, p, "digits")
      BY <2>3, <3>1 DEF Faults, Strings!BrokenIf
    <3> QED BY <2>2, <3>2, BrokenIs
  <2>5. Strings!Becomes(q, n)
    BY <1>11, <2>1, <2>3 DEF Strings!AppendU64
  <2> QED BY <1>7, <2>2, <2>4, <2>5, FitsKeeps
<1>12. ASSUME NEW n \in StrSizes, Strings!AppendRepr(n) PROVE StrInv'
  BY <1>7, <1>12, ReprKeeps
<1>13. ASSUME NEW n \in StrSizes, NEW f \in StrSizes, Strings!AppendFmt(f, n) PROVE StrInv'
  BY <1>7, <1>13, FmtKeeps
<1> QED BY <1>5, <1>6, <1>8, <1>9, <1>10, <1>11, <1>12, <1>13 DEF Strings!Next

LEMMA StrInit == Strings!Init => StrInv
<1> SUFFICES ASSUME Strings!Init PROVE StrInv
  OBVIOUS
<1>1. PICK n \in StrSizes : /\ len = 0 /\ wrote = 1 /\ fault = "no"
                            /\ cap = Strings!Max({n + 1, Word}) - 1
                            /\ mem = StrHeader + Strings!Max({n + 1, Word})
  BY DEF Strings!Init
<1>2. n \in Nat /\ StrHeader + n + 1 < U32 /\ StrHeader + Word < U32
  BY StrAssumption
<1>3. PICK m : m = Strings!Max({n + 1, Word})
  OBVIOUS
<1>4. m \in Nat \ {0} /\ StrHeader + m < U32
  <2>1. \E x \in {n + 1, Word} : \A y \in {n + 1, Word} : x >= y
    BY <1>2, StrConstants
  <2>2. m \in {n + 1, Word}
    BY <1>3, <2>1 DEF Strings!Max
  <2>3. n + 1 \in Nat \ {0} /\ StrHeader + (n + 1) < U32
    BY <1>2, StrConstants
  <2> QED BY <1>2, <2>2, <2>3, StrConstants
<1>5. PICK q : q = [len |-> 0, cap |-> m - 1, mem |-> StrHeader + m, broken |-> "no"]
  OBVIOUS
<1>6. q \in Strs /\ q.len = 0 /\ q.cap = m - 1 /\ q.mem = StrHeader + m
  BY <1>4, <1>5, StrConstants DEF Strs, Faults
<1>7. Strings!Now = q
  BY <1>1, <1>3, <1>5 DEF Strings!Now
<1>8. Sound32(q)
  BY <1>4, <1>6, StrConstants DEF Sound32
<1>9. wrote \in Nat /\ wrote <= mem - StrHeader + Past(fault)
  <2>1. Past(fault) = 0
    BY <1>1 DEF Past
  <2> QED BY <1>1, <1>3, <1>4, <2>1, StrConstants
<1> QED BY <1>7, <1>8, <1>9 DEF StrInv

LEMMA StrSafe == StrInv => Strings!InMemory
<1> SUFFICES ASSUME StrInv, fault \notin Strings!Hopeless PROVE Strings!InMemory
  BY DEF Strings!InMemory
<1>1. PICK r : r = Strings!Now
  OBVIOUS
<1>2. r = [len |-> len, cap |-> cap, mem |-> mem, broken |-> fault]
  BY <1>1 DEF Strings!Now
<1>3. r.len = len /\ r.cap = cap /\ r.mem = mem /\ r.broken = fault
  BY <1>2
<1>4. len <= cap /\ StrHeader + cap + 1 <= mem
  BY <1>1, <1>3 DEF StrInv, Sound32
<1>5. wrote <= mem - StrHeader + (IF fault = "sprintf" THEN 6 ELSE 0)
  BY DEF StrInv, Past
<1> QED BY <1>4, <1>5 DEF Strings!InMemory

-----------------------------------------------------------------------------
(* The buffered writer.  Its state in MCRbase:                             *)

wbuf  == s1
wfile == s2
todo  == s3
left  == s4
wpc   == s5
upto  == s6

USE DEF wbuf, wfile, todo, left, wpc, upto

\* The bytes up to the next one are first in f, then in b.
InOrder(f, b, k) ==
  /\ f \in Seq(Nat) /\ b \in Seq(Nat) /\ k = Len(f) + Len(b) + 1
  /\ \A i \in 1 .. Len(f) : f[i] = i
  /\ \A i \in 1 .. Len(b) : b[i] = Len(f) + i

OutInv ==
  /\ InOrder(wfile, wbuf, upto)
  /\ todo \in Nat /\ left \in Nat /\ Len(wbuf) <= BufSize
  /\ wpc \in {"copy", "flush"} => left = BufSize - Len(wbuf)

LEMMA Concat ==
  ASSUME NEW f \in Seq(Nat), NEW b \in Seq(Nat), NEW s, s = f \o b
  PROVE  /\ s \in Seq(Nat) /\ Len(s) = Len(f) + Len(b) /\ Len(f) \in Nat /\ Len(b) \in Nat
         /\ \A i \in 1 .. Len(f) : s[i] = f[i]
         /\ \A i \in 1 .. Len(b) : s[Len(f) + i] = b[i]
  OBVIOUS

\* What is in order stays so when another place is taken for the border.
LEMMA Ordered ==
  ASSUME NEW f \in Seq(Nat), NEW b \in Seq(Nat), NEW s, s = f \o b, NEW k \in Nat,
         \A i \in 1 .. Len(f) : f[i] = k + i, \A i \in 1 .. Len(b) : b[i] = k + Len(f) + i
  PROVE  \A i \in 1 .. Len(s) : s[i] = k + i
<1>1. /\ s \in Seq(Nat) /\ Len(s) = Len(f) + Len(b) /\ Len(f) \in Nat /\ Len(b) \in Nat
      /\ \A i \in 1 .. Len(f) : s[i] = f[i]
      /\ \A i \in 1 .. Len(b) : s[Len(f) + i] = b[i]
  BY ONLY f \in Seq(Nat), b \in Seq(Nat), s = f \o b, Concat
<1>2. ASSUME NEW i \in 1 .. Len(s) PROVE s[i] = k + i
  <2>1. CASE i <= Len(f)
    <3>1. i \in 1 .. Len(f)
      BY ONLY <1>1, <1>2, <2>1
    <3> QED BY <1>1, <3>1
  <2>2. CASE ~(i <= Len(f))
    <3>1. PICK j \in 1 .. Len(b) : i = Len(f) + j
      <4>1. i - Len(f) \in 1 .. Len(b) /\ i = Len(f) + (i - Len(f))
        BY ONLY <1>1, <1>2, <2>2
      <4> QED BY <4>1
    <3>2. s[i] = k + Len(f) + j
      BY <1>1, <3>1
    <3> QED BY ONLY <1>1, <1>2, <3>1, <3>2, k \in Nat
  <2> QED BY <2>1, <2>2
<1> QED BY <1>2

LEMMA Joined ==
  ASSUME NEW f, NEW b, NEW k, InOrder(f, b, k)
  PROVE  f \o b = [i \in 1 .. k - 1 |-> i]
<1>1. PICK s : s = f \o b
  OBVIOUS
<1>2. f \in Seq(Nat) /\ b \in Seq(Nat) /\ k = Len(f) + Len(b) + 1
  BY DEF InOrder
<1>3. s \in Seq(Nat) /\ Len(s) = Len(f) + Len(b) /\ Len(f) \in Nat /\ Len(b) \in Nat
  BY ONLY <1>1, <1>2, Concat
<1>4. \A i \in 1 .. Len(s) : s[i] = 0 + i
  <2>1. /\ \A i \in 1 .. Len(f) : f[i] = 0 + i
        /\ \A i \in 1 .. Len(b) : b[i] = 0 + Len(f) + i
    BY <1>3 DEF InOrder
  <2> QED BY ONLY <1>1, <1>2, <2>1, Ordered
<1>5. s = [i \in 1 .. Len(s) |-> i]
  BY ONLY <1>3, <1>4
<1>6. Len(s) = k - 1
  BY ONLY <1>2, <1>3
<1> QED BY <1>1, <1>5, <1>6

\* The first n of b go to the end of f.
Moved(f, b, n, g, d) == g = f \o SubSeq(b, 1, n) /\ d = SubSeq(b, n + 1, Len(b))

\* WriterFlush: what write took goes from the front of the buffer to the end of the file.
LEMMA Taken ==
  ASSUME NEW f, NEW b, NEW k, InOrder(f, b, k), NEW n \in 0 .. Len(b),
         NEW g, NEW d, Moved(f, b, n, g, d)
  PROVE  InOrder(g, d, k) /\ Len(d) = Len(b) - n
<1>1. f \in Seq(Nat) /\ b \in Seq(Nat) /\ k = Len(f) + Len(b) + 1 /\ Len(f) \in Nat /\ Len(b) \in Nat
  BY DEF InOrder
<1>2. /\ \A i \in 1 .. Len(f) : f[i] = i
      /\ \A i \in 1 .. Len(b) : b[i] = Len(f) + i
  BY DEF InOrder
<1>3. n \in Nat /\ n <= Len(b)
  BY <1>1
<1>4. PICK p : p = SubSeq(b, 1, n)
  OBVIOUS
<1>5. p \in Seq(Nat) /\ Len(p) = n /\ \A i \in 1 .. n : p[i] = b[i]
  BY ONLY <1>1, <1>3, <1>4
<1>6. d \in Seq(Nat) /\ Len(d) = Len(b) - n /\ \A i \in 1 .. Len(b) - n : d[i] = b[n + i]
  <2>1. d = SubSeq(b, n + 1, Len(b))
    BY DEF Moved
  <2> QED BY ONLY <1>1, <1>3, <2>1
<1>7. g = f \o p
  BY <1>4 DEF Moved
<1>8. g \in Seq(Nat) /\ Len(g) = Len(f) + Len(p)
  BY ONLY <1>1, <1>5, <1>7, Concat
<1>9. \A i \in 1 .. Len(g) : g[i] = 0 + i
  <2>1. \A i \in 1 .. n : i \in 1 .. Len(b)
    BY ONLY <1>1, <1>3
  <2>2. ASSUME NEW i \in 1 .. Len(f) PROVE f[i] = 0 + i
    <3>1. f[i] = i /\ i \in Nat
      BY ONLY <1>1, <1>2, <2>2
    <3> QED BY ONLY <3>1
  <2>3. ASSUME NEW i \in 1 .. Len(p) PROVE p[i] = 0 + Len(f) + i
    <3>1. i \in 1 .. n /\ i \in Nat
      BY ONLY <1>3, <1>5, <2>3
    <3>2. p[i] = b[i]
      BY ONLY <1>5, <3>1
    <3>3. b[i] = Len(f) + i
      BY ONLY <1>2, <2>1, <3>1
    <3> QED BY ONLY <1>1, <3>1, <3>2, <3>3
  <2> QED BY ONLY <1>1, <1>5, <1>7, <2>2, <2>3, Ordered
<1>10. ASSUME NEW i \in 1 .. Len(d) PROVE d[i] = Len(g) + i
  <2>1. n + i \in 1 .. Len(b) /\ i \in 1 .. Len(b) - n
    BY ONLY <1>1, <1>3, <1>6, <1>10
  <2>2. d[i] = b[n + i]
    BY ONLY <1>6, <2>1
  <2>3. b[n + i] = Len(f) + (n + i)
    BY ONLY <1>2, <2>1
  <2>4. Len(g) = Len(f) + n
    BY <1>5, <1>8
  <2> QED BY ONLY <1>1, <1>3, <2>1, <2>2, <2>3, <2>4
<1>11. k = Len(g) + Len(d) + 1
  BY ONLY <1>1, <1>3, <1>5, <1>6, <1>8
<1>12. \A i \in 1 .. Len(g) : g[i] = i
  BY ONLY <1>8, <1>9
<1> QED BY <1>6, <1>8, <1>10, <1>11, <1>12 DEF InOrder

\* A call of write leaves everything in its order, and tells how much room it made.
LEMMA FlushedKeeps ==
  ASSUME OutInv, NEW n \in Output!Returns, Output!Flushed(n)
  PROVE  /\ InOrder(wfile', wbuf', upto)
         /\ n = -1 => UNCHANGED wbuf
         /\ n # -1 => n \in Nat /\ Len(wbuf') = Len(wbuf) - n
         /\ Len(wbuf') <= BufSize /\ Len(wbuf) \in Nat /\ Len(wbuf') \in Nat
<1>1. InOrder(wfile, wbuf, upto) /\ Len(wbuf) <= BufSize /\ Len(wbuf) \in Nat
      /\ (wbuf = <<>> => Len(wbuf) = 0)
  BY DEF OutInv, InOrder
<1>2. n = -1 \/ n \in 0 .. Len(wbuf)
  BY <1>1 DEF Output!Returns
<1>3. CASE n = -1
  BY <1>1, <1>3 DEF Output!Flushed
<1>4. CASE n \in 0 .. Len(wbuf)
  <2>1. n # -1 /\ n \in Nat /\ n <= Len(wbuf)
    BY <1>1, <1>4
  <2>2. PICK f, b, k : f = wfile /\ b = wbuf /\ k = upto
    OBVIOUS
  <2>3. PICK g, d : g = wfile' /\ d = wbuf'
    OBVIOUS
  <2>4. Moved(f, b, n, g, d)
    BY <2>1, <2>2, <2>3 DEF Moved, Output!Flushed, Output!Take, Output!Drop
  <2>5. InOrder(f, b, k) /\ n \in 0 .. Len(b)
    BY <1>1, <1>4, <2>2
  <2>6. InOrder(g, d, k) /\ Len(d) = Len(b) - n
    BY ONLY <2>4, <2>5, Taken
  <2>7. InOrder(wfile', wbuf', upto) /\ Len(wbuf') = Len(wbuf) - n
    BY <2>2, <2>3, <2>6
  <2>8. Len(wbuf') <= BufSize /\ Len(wbuf') \in Nat
    BY ONLY <1>1, <2>1, <2>7, WriterAssumption
  <2> QED BY ONLY <1>1, <2>1, <2>7, <2>8
<1> QED BY <1>2, <1>3, <1>4

\* The loop of WriterWrite copies as much as there is room for.
LEMMA CopyKeeps ==
  ASSUME OutInv, Output!Copy
  PROVE  OutInv'
<1>1. /\ wbuf \in Seq(Nat) /\ wfile \in Seq(Nat) /\ upto = Len(wfile) + Len(wbuf) + 1
      /\ todo \in Nat /\ left \in Nat /\ left = BufSize - Len(wbuf)
  BY DEF OutInv, InOrder, Output!Copy
<1>2. PICK b : b = wbuf /\ \A i \in 1 .. Len(b) : b[i] = Len(wfile) + i
  BY DEF OutInv, InOrder
<1>3. Len(wbuf) \in Nat /\ Len(wfile) \in Nat /\ upto \in Nat
  BY <1>1
<1>4. PICK chunk \in Nat : chunk = (IF todo < left THEN todo ELSE left) /\ chunk <= todo /\ chunk <= left
  BY <1>1
<1>5. PICK q : q = [i \in 1 .. chunk |-> upto + i - 1]
  OBVIOUS
<1>6. /\ wbuf' = wbuf \o q /\ upto' = upto + chunk /\ left' = left - chunk /\ todo' = todo - chunk
      /\ wpc' = "flush" /\ UNCHANGED wfile
  BY <1>4, <1>5 DEF Output!Copy
<1>7. q \in Seq(Nat) /\ Len(q) = chunk /\ \A i \in 1 .. chunk : q[i] = upto + i - 1
  <2>1. \A i \in 1 .. chunk : upto + i - 1 \in Nat
    BY ONLY <1>3, chunk \in Nat
  <2> QED BY ONLY <1>5, <2>1, chunk \in Nat
<1>8. PICK d : d = wbuf'
  OBVIOUS
<1>9. d \in Seq(Nat) /\ Len(d) = Len(wbuf) + Len(q)
  BY ONLY <1>1, <1>6, <1>7, <1>8, Concat
<1>10. \A i \in 1 .. Len(d) : d[i] = Len(wfile) + i
  <2>1. d = b \o q /\ b \in Seq(Nat) /\ q \in Seq(Nat) /\ Len(wfile) \in Nat
    BY <1>1, <1>3, <1>6, <1>7, <1>8, <1>2
  <2>2. \A i \in 1 .. Len(q) : q[i] = Len(wfile) + Len(b) + i
    BY <1>1, <1>3, <1>7, <1>2
  <2> QED BY ONLY <1>2, <2>1, <2>2, Ordered
<1>11. upto' = Len(wfile) + Len(d) + 1
  BY ONLY <1>1, <1>3, <1>6, <1>7, <1>9
<1>12. InOrder(wfile, d, upto')
  BY <1>1, <1>9, <1>10, <1>11 DEF InOrder, OutInv
<1>13. todo' \in Nat /\ left' \in Nat /\ Len(d) <= BufSize /\ left' = BufSize - Len(d)
  BY <1>1, <1>3, <1>4, <1>6, <1>7, <1>9, WriterAssumption
<1> QED BY <1>6, <1>8, <1>12, <1>13 DEF OutInv

LEMMA OutNext == OutInv /\ Output!Next => OutInv'
<1> SUFFICES ASSUME OutInv, Output!Next PROVE OutInv'
  OBVIOUS
<1>1. InOrder(wfile, wbuf, upto) /\ Len(wbuf) \in Nat /\ Len(wbuf) <= BufSize /\ todo \in Nat /\ left \in Nat
      /\ (wpc \in {"copy", "flush"} => left = BufSize - Len(wbuf))
  BY DEF OutInv, InOrder
<1>2. ASSUME NEW n \in Lengths, Output!Write(n) PROVE OutInv'
  <2>1. UNCHANGED <<wbuf, wfile, upto>> /\ todo' = n /\ left' = BufSize - Len(wbuf)
    BY <1>2 DEF Output!Write
  <2>2. todo' \in Nat /\ left' \in Nat
    BY <1>1, <2>1, WriterAssumption
  <2> QED BY <1>1, <2>1, <2>2 DEF OutInv
<1>3. CASE Output!Done
  BY <1>1, <1>3 DEF OutInv, Output!Done
<1>4. CASE Output!High
  BY <1>1, <1>4 DEF OutInv, Output!High
<1>5. ASSUME NEW n \in Output!Returns, Output!Low(n) PROVE OutInv'
  <2>1. /\ wpc = "flush" /\ Output!Flushed(n) /\ UNCHANGED <<todo, upto>>
        /\ left' = (IF n = -1 THEN left ELSE left + n) /\ wpc' = (IF n = -1 THEN "idle" ELSE "copy")
    BY <1>5 DEF Output!Low
  <2>2. /\ InOrder(wfile', wbuf', upto)
        /\ n # -1 => n \in Nat /\ Len(wbuf') = Len(wbuf) - n
        /\ Len(wbuf') <= BufSize /\ Len(wbuf') \in Nat
    BY <2>1, FlushedKeeps
  <2>3. left' \in Nat /\ (n # -1 => left' = BufSize - Len(wbuf'))
    BY <1>1, <2>1, <2>2, WriterAssumption
  <2> QED BY <1>1, <2>1, <2>2, <2>3 DEF OutInv
<1>6. ASSUME NEW n \in Output!Returns, Output!Flush(n) \/ Output!Close(n) PROVE OutInv'
  <2>1. Output!Flushed(n) /\ UNCHANGED <<todo, left, upto>> /\ wpc' \in {"idle", "closed"}
    BY <1>6 DEF Output!Flush, Output!Close
  <2>2. InOrder(wfile', wbuf', upto) /\ Len(wbuf') <= BufSize
    BY <2>1, FlushedKeeps
  <2> QED BY <1>1, <2>1, <2>2 DEF OutInv
<1> QED BY <1>2, <1>3, <1>4, <1>5, <1>6, CopyKeeps DEF Output!Next

LEMMA OutInit == Output!Init => OutInv
<1> SUFFICES ASSUME Output!Init PROVE OutInv
  OBVIOUS
<1>1. wbuf = <<>> /\ wfile = <<>> /\ todo = 0 /\ left = 0 /\ wpc = "idle" /\ upto = 1
  BY DEF Output!Init
<1> QED BY <1>1, WriterAssumption DEF OutInv, InOrder

LEMMA OutSafe == OutInv => Output!NothingLost
  BY Joined DEF OutInv, Output!NothingLost

-----------------------------------------------------------------------------
(* The theorems.                                                           *)

\* What each of the parts keeps, while it is the one that runs.
Inv ==
  /\ part = "mem"     => MemInv
  /\ part = "maps"    => MapsInv
  /\ part = "strings" => StrInv
  /\ part = "output"  => OutInv

LEMMA Invariance == Spec => []Inv
<1>1. Init => Inv
  BY MemInit, MapsInit, StrInit, OutInit DEF Init, Inv
<1>2. Inv /\ [Next]_vars => Inv'
  <2> SUFFICES ASSUME Inv, [Next]_vars PROVE Inv'
    OBVIOUS
  <2>1. CASE UNCHANGED vars
    <3>1. UNCHANGED <<part, s1, s2, s3, s4, s5, s6>>
      BY <2>1 DEF vars
    <3>2. MemInv' <=> MemInv
      BY <3>1 DEF MemInv
    <3>3. MapsInv' <=> MapsInv
      BY <3>1 DEF MapsInv, MapsType, LockHeld, Disjoint, AllSound, Freeing, Sound, Maps!Mapped
    <3>4. StrInv' <=> StrInv
      BY <3>1 DEF StrInv, Strings!Now
    <3>5. OutInv' <=> OutInv
      BY <3>1 DEF OutInv
    <3> QED BY <3>1, <3>2, <3>3, <3>4, <3>5 DEF Inv
  <2>2. CASE Next
    <3>1. UNCHANGED part
      BY <2>2 DEF Next
    <3>2. CASE part = "mem"
      BY <2>2, <3>1, <3>2, MemNext DEF Next, Inv
    <3>3. CASE part = "maps"
      BY <2>2, <3>1, <3>3, MapsNext DEF Next, Inv
    <3>4. CASE part = "strings"
      BY <2>2, <3>1, <3>4, StrNext DEF Next, Inv
    <3>5. CASE part = "output"
      BY <2>2, <3>1, <3>5, OutNext DEF Next, Inv
    <3>6. CASE part \notin {"mem", "maps", "strings", "output"}
      BY <3>1, <3>6 DEF Inv
    <3> QED BY <3>2, <3>3, <3>4, <3>5, <3>6
  <2> QED BY <2>1, <2>2
<1> QED BY <1>1, <1>2, PTL DEF Spec

\* mem_linear.c and mmap.c: whatever is allocated, resized and freed, by whichever threads
\* and signal handlers, no two owners share a byte, and the pages are accounted for.
THEOREM SpecOwnMemory == Spec => []OwnMemory
<1>1. Inv => OwnMemory
  BY MemOwn, MapsOwn DEF Inv, OwnMemory
<1> QED BY <1>1, Invariance, PTL

\* str.c: until a length is more than 32 bits can say or an allocation fails, no append of
\* any length writes past the memory the string has, except str_appendrepr of bytes from 128
\* on, which writes at most six bytes past it.
THEOREM SpecInMemory == Spec => []InMemory
<1>1. Inv => InMemory
  BY StrSafe DEF Inv, InMemory
<1> QED BY <1>1, Invariance, PTL

\* util_io.c: whatever write takes, and however often it fails, each byte is in the file or
\* the buffer once, in order.
THEOREM SpecNothingLost == Spec => []NothingLost
<1>1. Inv => NothingLost
  BY OutSafe DEF Inv, NothingLost
<1> QED BY <1>1, Invariance, PTL
=============================================================================
