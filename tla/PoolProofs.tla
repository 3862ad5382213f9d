------------------------------ MODULE PoolProofs ------------------------------
(***************************************************************************)
(* The lock-free free list keeps its entries, and is a stack.              *)
(*                                                                         *)
(* The argument is the one for the tag.  The list is a sequence L of the   *)
(* entries that no thread has.  Each swap is one more change of the head,  *)
(* and the changes are counted by the tag.  A thread that finds the head   *)
(* with the tag it has seen missed only changes by other threads, fewer    *)
(* than there are tags, so it missed none: the pointer it loaded from the  *)
(* entry at the head is still the second entry of the list.                *)
(*                                                                         *)
(* After it, the counters of an MPSCQueue agree with its slots, and it is  *)
(* a bounded first-in first-out queue: for any number of producers, any    *)
(* capacity, and a head that wraps around.  At the end, both are shown of  *)
(* the program that has both.                                              *)
(***************************************************************************)
EXTENDS MCLockFree, TLAPS, FiniteSetTheorems, FunctionTheorems

-----------------------------------------------------------------------------
(* The least number of a set, and remainders.                              *)

LEMMA Least ==
  ASSUME NEW A, A \subseteq Nat, A # {}
  PROVE  \E n \in A : \A m \in A : n <= m
<1> DEFINE R == OpToRel(<, Nat)
<1>1. IsWellFoundedOn(R, Nat)
  BY NatLessThanWellFounded
<1>2. \E n \in A : \A m \in A : ~(<<m, n>> \in R)
  <2> HIDE DEF R
  <2> QED BY <1>1, WFMin
<1>3. ASSUME NEW n \in A, NEW m \in A, ~(<<m, n>> \in R) PROVE n <= m
  <2>1. <<m, n>> \in Nat \X Nat /\ n \in Nat /\ m \in Nat
    OBVIOUS
  <2>2. ~(m < n)
    BY <1>3, <2>1 DEF OpToRel
  <2> QED BY <2>1, <2>2
<1> QED BY <1>2, <1>3

LEMMA Distributes ==
  ASSUME NEW b \in Nat, NEW q \in Nat
  PROVE  b * (q + 1) = b * q + b
OBVIOUS

LEMMA Division ==
  ASSUME NEW a \in Nat, NEW b \in Nat \ {0}
  PROVE  \E q \in Nat, r \in 0 .. b - 1 : a = b * q + r
<1> DEFINE Bad == {n \in Nat : ~\E q \in Nat, r \in 0 .. b - 1 : n = b * q + r}
<1> SUFFICES ASSUME Bad # {} PROVE FALSE
  OBVIOUS
<1>1. PICK n \in Bad : \A m \in Bad : n <= m
  BY Least
<1>2. n >= b
  <2> SUFFICES ASSUME n < b PROVE FALSE
    OBVIOUS
  <2>1. n \in 0 .. b - 1
    BY <1>1
  <2>2. b * 0 + n = n
    BY <1>1
  <2>3. \E q \in Nat, r \in 0 .. b - 1 : n = b * q + r
    <3> WITNESS 0 \in Nat
    <3> WITNESS n \in 0 .. b - 1
    <3> QED BY <2>2
  <2> QED BY <2>3, <1>1
<1>3. n - b \in Nat /\ n - b \notin Bad
  <2>1. n \in Nat /\ n - b \in Nat /\ n - b < n
    BY <1>1, <1>2
  <2> HIDE DEF Bad
  <2>2. n - b \in Bad => n <= n - b
    BY <1>1
  <2> QED BY <2>1, <2>2
<1>4. PICK q \in Nat, r \in 0 .. b - 1 : n - b = b * q + r
  BY <1>3
<1>5. n = b * (q + 1) + r
  <2>1. b * q \in Nat /\ n \in Nat
    BY <1>1
  <2>2. b * (q + 1) = b * q + b
    BY Distributes
  <2> QED BY <2>1, <2>2, <1>4
<1>6. \E k \in Nat, y \in 0 .. b - 1 : n = b * k + y
  <2> WITNESS q + 1 \in Nat
  <2> WITNESS r \in 0 .. b - 1
  <2> QED BY <1>5
<1> QED BY <1>1, <1>6

LEMMA Remainder ==
  ASSUME NEW b \in Nat \ {0}, NEW q \in Nat, NEW r \in 0 .. b - 1, NEW a \in Nat, a = b * q + r
  PROVE  a % b = r
OBVIOUS

\* Numbers that are less than b apart have the same remainder only when they are equal.
LEMMA SameRemainder ==
  ASSUME NEW b \in Nat \ {0}, NEW x \in Nat, NEW d \in 0 .. b - 1, x % b = (x + d) % b
  PROVE  d = 0
<1>1. PICK q \in Nat, r \in 0 .. b - 1 : x = b * q + r
  BY Division
<1>2. x % b = r
  BY <1>1, Remainder
<1>3. b * q \in Nat /\ b * (q + 1) = b * q + b
  BY Distributes
<1> DEFINE y == x + d
<1>4. y \in Nat
  OBVIOUS
<1>5. CASE r + d < b
  <2> DEFINE s == r + d
  <2>1. s \in 0 .. b - 1 /\ y = b * q + s
    BY <1>1, <1>3, <1>5
  <2> HIDE DEF y, s
  <2>2. y % b = s
    BY <1>4, <2>1, Remainder
  <2> QED BY <1>2, <2>2 DEF y, s
<1>6. CASE r + d >= b
  <2> DEFINE s == r + d - b
             k == q + 1
  <2>1. s \in 0 .. b - 1 /\ y = b * k + s /\ k \in Nat /\ s # r
    BY <1>1, <1>3, <1>6
  <2> HIDE DEF y, s, k
  <2>2. y % b = s
    BY <1>4, <2>1, Remainder
  <2> QED BY <1>2, <2>1, <2>2 DEF y
<1> QED BY <1>5, <1>6

LEMMA NextRemainder ==
  ASSUME NEW b \in Nat \ {0}, NEW x \in Nat
  PROVE  ((x % b) + 1) % b = (x + 1) % b
<1>1. PICK q \in Nat, r \in 0 .. b - 1 : x = b * q + r
  BY Division
<1>2. x % b = r
  BY <1>1, Remainder
<1>3. b * q \in Nat /\ b * (q + 1) = b * q + b
  BY Distributes
<1> DEFINE y == x + 1
<1>4. y \in Nat
  OBVIOUS
<1>5. CASE r + 1 < b
  <2> DEFINE s == r + 1
  <2>1. s \in 0 .. b - 1 /\ y = b * q + s /\ s % b = s
    BY <1>1, <1>3, <1>5
  <2> HIDE DEF y, s
  <2>2. y % b = s
    BY <1>4, <2>1, Remainder
  <2> QED BY <1>2, <2>1, <2>2 DEF y, s
<1>6. CASE r + 1 = b
  <2> DEFINE k == q + 1
  <2>1. 0 \in 0 .. b - 1 /\ y = b * k + 0 /\ k \in Nat /\ (r + 1) % b = 0
    BY <1>1, <1>3, <1>6
  <2> HIDE DEF y, k
  <2>2. y % b = 0
    BY <1>4, <2>1, Remainder
  <2> QED BY <1>2, <2>1, <2>2 DEF y
<1> QED BY <1>5, <1>6

-----------------------------------------------------------------------------
(* The list.                                                               *)

\* The n-th pointer of a list, NULL behind its end.
Pointers(L) == [n \in 0 .. Len(First) |-> IF n < Len(L) THEN L[n + 1] ELSE NULL]

Follows(f, p, nx) ==
  f = [n \in 0 .. Len(First) |->
         IF n = 0 THEN p ELSE IF f[n - 1] = NULL THEN NULL ELSE nx[f[n - 1]]]

Chained(L, p, nx) ==
  /\ L \in Seq(Entries) /\ Len(L) <= Len(First)
  /\ p = IF Len(L) = 0 THEN NULL ELSE L[1]
  /\ \A i \in 1 .. Len(L) : nx[L[i]] = IF i = Len(L) THEN NULL ELSE L[i + 1]

\* Following PoolNext from the head gives the list, and nothing else does.
LEMMA OneWalk ==
  ASSUME NEW L, NEW p, NEW nx, Chained(L, p, nx)
  PROVE  /\ Follows(Pointers(L), p, nx)
         /\ \A f : Follows(f, p, nx) => f = Pointers(L)
<1>0. Len(First) \in Nat /\ Len(L) \in Nat /\ NULL \notin Entries
  BY PoolAssumption DEF Chained
<1>1. Follows(Pointers(L), p, nx)
  BY <1>0 DEF Follows, Pointers, Chained
<1>2. ASSUME NEW f, Follows(f, p, nx) PROVE f = Pointers(L)
  <2> DEFINE g == Pointers(L)
             Bad == {n \in 0 .. Len(First) : f[n] # g[n]}
  <2>1. CASE Bad = {}
    BY <1>2, <2>1 DEF Follows, Pointers
  <2>2. CASE Bad # {}
    <3>0. Bad \subseteq Nat
      BY <1>0
    <3>1. PICK n \in Bad : \A m \in Bad : n <= m
      <4> HIDE DEF Bad
      <4> QED BY <2>2, <3>0, Least
    <3>2. n \in 0 .. Len(First) /\ f[n] # g[n]
      BY <3>1
    <3>3. CASE n = 0
      <4>1. f[0] = p /\ g[0] = p
        BY <1>0, <1>1, <1>2 DEF Follows
      <4> QED BY <3>2, <3>3, <4>1
    <3>4. CASE n # 0
      <4>1. n - 1 \in 0 .. Len(First) /\ n - 1 < n
        BY <3>2, <3>4, <1>0
      <4>2. f[n - 1] = g[n - 1]
        BY <3>1, <4>1
      <4>3. f[n] = (IF f[n - 1] = NULL THEN NULL ELSE nx[f[n - 1]])
        BY <1>2, <3>2, <3>4, <4>1 DEF Follows
      <4>4. g[n] = (IF g[n - 1] = NULL THEN NULL ELSE nx[g[n - 1]])
        BY <1>1, <3>2, <3>4, <4>1 DEF Follows
      <4> QED BY <3>2, <4>2, <4>3, <4>4
    <3> QED BY <3>3, <3>4
  <2> QED BY <2>1, <2>2
<1> QED BY <1>1, <1>2

LEMMA WalkIs == 
  ASSUME NEW L, Chained(L, head.ptr, PoolNext)
  PROVE  Walk = Pointers(L)
<1>1. Walk = CHOOSE f : Follows(f, head.ptr, PoolNext)
  BY DEF Walk, Follows
<1> QED BY <1>1, OneWalk

LEMMA WalkIsNext == 
  ASSUME NEW L, Chained(L, head'.ptr, PoolNext')
  PROVE  Walk' = Pointers(L)
<1>1. Walk' = CHOOSE f : Follows(f, head'.ptr, PoolNext')
  BY DEF Walk, Follows
<1> QED BY <1>1, OneWalk

LEMMA Positions ==
  ASSUME NEW L, NEW p, NEW nx, Chained(L, p, nx)
  PROVE  LET n == Cardinality({i \in DOMAIN Pointers(L) : Pointers(L)[i] # NULL})
         IN  n = Len(L) /\ [i \in 1 .. n |-> Pointers(L)[i - 1]] = L
<1> DEFINE A == {i \in DOMAIN Pointers(L) : Pointers(L)[i] # NULL}
<1>0. Len(First) \in Nat /\ Len(L) \in Nat /\ NULL \notin Entries /\ L \in Seq(Entries)
  BY PoolAssumption DEF Chained
<1>1. A = 0 .. Len(L) - 1
  BY <1>0 DEF Pointers, Chained
<1>2. Cardinality(0 .. Len(L) - 1) = Len(L)
  <2> DEFINE m == Len(L) - 1
  <2>1. m \in Int /\ 0 \in Int /\ (0 > m <=> Len(L) = 0) /\ m - 0 + 1 = Len(L)
    BY <1>0
  <2> HIDE DEF m
  <2>2. Cardinality(0 .. m) = IF 0 > m THEN 0 ELSE m - 0 + 1
    BY <2>1, FS_Interval
  <2> QED BY <2>1, <2>2 DEF m
<1>3. Cardinality(A) = Len(L)
  BY <1>1, <1>2
<1>4. [i \in 1 .. Len(L) |-> Pointers(L)[i - 1]] = L
  BY <1>0 DEF Pointers, Chained
<1> QED BY <1>3, <1>4

LEMMA ListIs ==
  ASSUME NEW L, Chained(L, head.ptr, PoolNext)
  PROVE  Listed = L
<1>1. Walk = Pointers(L)
  BY WalkIs
<1> QED BY <1>1, Positions DEF Listed, Length

LEMMA ListIsNext ==
  ASSUME NEW L, Chained(L, head'.ptr, PoolNext')
  PROVE  Listed' = L
<1>1. Walk' = Pointers(L)
  BY WalkIsNext
<1> QED BY <1>1, Positions DEF Listed, Length

-----------------------------------------------------------------------------
(* The inductive invariant.                                                *)

Distinct(L) == \A i, j \in 1 .. Len(L) : L[i] = L[j] => i = j

\* The list has each entry once that no thread has.
IsList(L) ==
  /\ Chained(L, head.ptr, PoolNext)
  /\ Distinct(L)
  /\ \A e \in Entries : (\E i \in 1 .. Len(L) : L[i] = e) <=> ~\E t \in Threads : e \in owned[t]

OneOwner == \A t, u \in Threads, e \in Entries : e \in owned[t] /\ e \in owned[u] => t = u

\* What a thread in a call has in its local variables.
Locals ==
  \A t \in Threads :
    /\ pc[t] \in {"link", "push"} => next[t] \in owned[t]
    /\ pc[t] = "push" => PoolNext[next[t]] = currhead[t].ptr
    /\ pc[t] \in {"follow", "pop"} => currhead[t].ptr # NULL

\* The calls that changed the head, and those that each thread in a call has seen of them.
\* The tag counts the changes, so a head with the tag that was seen has not changed: the
\* changes not seen are by the other threads, fewer than there are tags.
Changes == Threads \X (1 .. MaxCalls)

Logged(H, Seen) ==
  /\ H \in SUBSET Changes /\ Seen \in [Threads -> SUBSET Changes]
  /\ head.tag = (Len(First) + Cardinality(H)) % TagWrap
  /\ \A t \in Threads, k \in 1 .. MaxCalls :
       <<t, k>> \in H => k <= ncalls[t] /\ (pc[t] # "idle" => k < ncalls[t] /\ <<t, k>> \in Seen[t])
  /\ \A t \in Threads : pc[t] # "idle" =>
       /\ Seen[t] \subseteq H
       /\ currhead[t].tag = (Len(First) + Cardinality(Seen[t])) % TagWrap
       /\ ncalls[t] > 0
       /\ Seen[t] = H => /\ currhead[t] = head
                         /\ pc[t] = "pop" => next[t] = PoolNext[head.ptr]

\* A thread takes no more than its quota.
Within ==
  \A t \in Threads :
    /\ Cardinality(owned[t]) <= quota
    /\ pc[t] \in {"follow", "pop"} => Cardinality(owned[t]) < quota

\* When the quotas cannot empty the pool, only a thread that has not taken an entry yet has
\* NULL for an answer.
Supplied ==
  quota * Cardinality(Threads) <= Len(First) =>
    \A t \in Threads :
      ret[t] = NULL => owned[t] = {} /\ (ncalls[t] = 0 \/ pc[t] \in {"follow", "pop"})

IInv ==
  /\ TypeOK /\ OneOwner /\ Locals /\ Within /\ Supplied
  /\ \E L : IsList(L)
  /\ \E H, Seen : Logged(H, Seen)

-----------------------------------------------------------------------------
(* Changes that are not seen.                                              *)

LEMMA FiniteLog ==
  ASSUME NEW H \in SUBSET Changes
  PROVE  /\ IsFiniteSet(H) /\ Cardinality(H) \in Nat
         /\ \A t \in Threads, k \in 1 .. MaxCalls :
              <<t, k>> \notin H => Cardinality(H \cup {<<t, k>>}) = Cardinality(H) + 1
<1>1. IsFiniteSet(1 .. MaxCalls) /\ IsFiniteSet(Threads)
  BY FS_Interval, PoolAssumption
<1>2. IsFiniteSet(Changes)
  BY <1>1, FS_Product DEF Changes
<1>3. IsFiniteSet(H) /\ Cardinality(H) \in Nat
  BY <1>2, FS_Subset, FS_CardinalityType
<1> QED BY <1>3, FS_AddElement

\* The changes by other threads are fewer than there are tags.
LEMMA FewChanges ==
  ASSUME NEW t \in Threads, NEW D \in SUBSET ((Threads \ {t}) \X (1 .. MaxCalls))
  PROVE  IsFiniteSet(D) /\ Cardinality(D) \in 0 .. TagWrap - 1
<1>0. /\ IsFiniteSet(Threads) /\ MaxCalls \in Nat /\ TagWrap \in Nat
      /\ TagWrap > MaxCalls * (Cardinality(Threads) - 1)
  BY PoolAssumption
<1>1. IsFiniteSet(1 .. MaxCalls) /\ Cardinality(1 .. MaxCalls) = MaxCalls
  <2>1. 1 \in Int /\ MaxCalls \in Int /\ MaxCalls - 1 + 1 = MaxCalls /\ (1 > MaxCalls => MaxCalls = 0)
    BY <1>0
  <2>2. IsFiniteSet(1 .. MaxCalls) /\ Cardinality(1 .. MaxCalls) = IF 1 > MaxCalls THEN 0 ELSE MaxCalls - 1 + 1
    BY <2>1, FS_Interval
  <2> QED BY <2>1, <2>2
<1>2. IsFiniteSet(Threads \ {t}) /\ Cardinality(Threads \ {t}) = Cardinality(Threads) - 1
  BY <1>0, FS_RemoveElement
<1> DEFINE O == Threads \ {t}
           P == O \X (1 .. MaxCalls)
           n == Cardinality(O)
<1>3. IsFiniteSet(P) /\ Cardinality(P) = n * MaxCalls
  BY <1>1, <1>2, FS_Product
<1>4. IsFiniteSet(D) /\ Cardinality(D) <= Cardinality(P)
  BY <1>3, FS_Subset
<1>5. Cardinality(D) \in Nat /\ n \in Nat
  BY <1>2, <1>4, FS_CardinalityType
<1>6. n * MaxCalls = MaxCalls * (Cardinality(Threads) - 1)
  <2>1. n = Cardinality(Threads) - 1
    BY <1>2
  <2>2. n * MaxCalls = MaxCalls * n
    BY <1>0, <1>5
  <2> QED BY <2>1, <2>2
<1>7. Cardinality(D) < TagWrap
  <2> DEFINE c == Cardinality(D)
             m == MaxCalls * (Cardinality(Threads) - 1)
  <2>1. c <= m /\ m < TagWrap /\ c \in Nat
    BY <1>0, <1>3, <1>4, <1>5, <1>6
  <2>2. m \in Nat
    BY <1>0, <1>5, <1>6
  <2> HIDE DEF c, m
  <2>3. c < TagWrap
    BY <2>1, <2>2, <1>0
  <2> QED BY <2>3 DEF c
<1> QED BY <1>0, <1>4, <1>5, <1>7

\* A head with the tag that a thread has seen has not changed since.
LEMMA NotChanged ==
  ASSUME TypeOK, NEW H, NEW Seen, Logged(H, Seen), NEW t \in Threads, pc[t] # "idle",
         currhead[t].tag = head.tag
  PROVE  Seen[t] = H
<1> DEFINE A == Seen[t]
           D == H \ A
<1>1. H \in SUBSET Changes /\ A \in SUBSET Changes /\ A \subseteq H
  BY DEF Logged
<1>2. D \in SUBSET ((Threads \ {t}) \X (1 .. MaxCalls))
  BY <1>1 DEF Logged, Changes
<1>3. IsFiniteSet(D) /\ Cardinality(D) \in 0 .. TagWrap - 1
  BY <1>2, FewChanges
<1>4. IsFiniteSet(H) /\ IsFiniteSet(A) /\ Cardinality(A) \in Nat /\ Cardinality(H) \in Nat
  BY <1>1, FiniteLog
<1>5. Cardinality(D) = Cardinality(H) - Cardinality(A)
  <2>1. H \cap A = A
    BY <1>1
  <2>2. Cardinality(H \ A) = Cardinality(H) - Cardinality(H \cap A)
    <3> HIDE DEF A
    <3> QED BY <1>4, FS_Difference
  <2>3. Cardinality(H \cap A) = Cardinality(A)
    BY <2>1
  <2> HIDE DEF A
  <2> QED BY <2>2, <2>3
<1> DEFINE x == Len(First) + Cardinality(A)
           d == Cardinality(D)
<1>6. x \in Nat /\ d \in 0 .. TagWrap - 1 /\ x % TagWrap = (x + d) % TagWrap /\ TagWrap \in Nat \ {0}
  <2>1. Len(First) \in Nat /\ TagWrap \in Nat
    BY PoolAssumption
  <2>2. x + d = Len(First) + Cardinality(H)
    BY <2>1, <1>3, <1>4, <1>5
  <2> HIDE DEF D
  <2> QED BY <2>1, <2>2, <1>3, <1>4 DEF Logged
<1>7. d = 0
  <2> HIDE DEF x, d
  <2> QED BY <1>6, SameRemainder
<1> QED BY <1>1, <1>3, <1>7, FS_EmptySet

-----------------------------------------------------------------------------
(* Sequences of different entries.                                         *)

LEMMA SomeEntries ==
  /\ IsFiniteSet(Entries) /\ Cardinality(Entries) = Len(First)
  /\ Len(First) \in Nat \ {0} /\ \A n \in 1 .. Len(First) : First[n] \in Entries
  /\ NULL \notin Entries
<1>1. First \in [1 .. Len(First) -> Entries] /\ Len(First) \in Nat \ {0}
  BY PoolAssumption
<1>2. \A e \in Entries : \E n \in 1 .. Len(First) : First[n] = e
  BY <1>1 DEF Entries
<1>3. First \in Surjection(1 .. Len(First), Entries)
  BY <1>1, <1>2, Fun_IsSurj
<1>4. IsFiniteSet(1 .. Len(First))
  BY <1>1, FS_Interval
<1>5. IsFiniteSet(Entries)
  BY <1>3, <1>4, FS_Surjection
<1> QED BY <1>1, <1>5, PoolAssumption

LEMMA SizeOfInterval ==
  ASSUME NEW n \in Nat
  PROVE  IsFiniteSet(1 .. n) /\ Cardinality(1 .. n) = n
<1>1. 1 \in Int /\ n \in Int /\ n - 1 + 1 = n /\ (1 > n => n = 0)
  OBVIOUS
<1>2. IsFiniteSet(1 .. n) /\ Cardinality(1 .. n) = IF 1 > n THEN 0 ELSE n - 1 + 1
  BY <1>1, FS_Interval
<1> QED BY <1>1, <1>2

LEMMA FirstDistinct == Distinct(First)
<1>1. First \in [1 .. Len(First) -> Entries] /\ Len(First) \in Nat
  BY PoolAssumption
<1>2. \A e \in Entries : \E n \in 1 .. Len(First) : First[n] = e
  BY <1>1 DEF Entries
<1>3. First \in Surjection(1 .. Len(First), Entries)
  BY <1>1, <1>2, Fun_IsSurj
<1>4. IsFiniteSet(1 .. Len(First)) /\ Cardinality(1 .. Len(First)) = Cardinality(Entries)
  BY <1>1, SizeOfInterval, SomeEntries
<1>5. First \in Injection(1 .. Len(First), Entries)
  BY <1>3, <1>4, FS_SurjSameCardinalityImpliesInj
<1> QED BY <1>5, Fun_InjectionProperties DEF Distinct

\* A list without repetitions is not longer than the list at the start.
LEMMA Short ==
  ASSUME NEW L \in Seq(Entries), Distinct(L)
  PROVE  Len(L) <= Len(First)
<1>1. L \in [1 .. Len(L) -> Entries] /\ Len(L) \in Nat
  OBVIOUS
<1>2. L \in Injection(1 .. Len(L), Entries)
  BY <1>1, Fun_IsInj DEF Distinct
<1>3. Cardinality(1 .. Len(L)) <= Cardinality(Entries)
  BY <1>2, FS_Injection, SomeEntries
<1> QED BY <1>1, <1>3, SizeOfInterval, SomeEntries

-----------------------------------------------------------------------------
(* The types.                                                              *)

LEMMA BumpType ==
  ASSUME NEW x \in Nat
  PROVE  x % TagWrap \in 0 .. TagWrap - 1
<1>1. TagWrap \in Nat \ {0}
  BY PoolAssumption
<1> QED BY <1>1

LEMMA TypeInit == Init => TypeOK
<1> SUFFICES ASSUME Init PROVE TypeOK
  OBVIOUS
<1>1. /\ Len(First) \in Nat \ {0} /\ \A n \in 1 .. Len(First) : First[n] \in Entries
      /\ MaxCalls \in Nat /\ DOMAIN First = 1 .. Len(First)
  BY SomeEntries, PoolAssumption
<1>2. Len(First) % TagWrap \in 0 .. TagWrap - 1 /\ 0 \in 0 .. TagWrap - 1
  <2>1. TagWrap \in Nat \ {0}
    BY PoolAssumption
  <2> QED BY <1>1, <2>1, BumpType
<1>3. head \in Heads /\ NoHead \in Heads
  BY <1>1, <1>2 DEF Init, Heads, NoHead
<1>4. PoolNext \in [Entries -> Entries \cup {NULL}]
  <2>1. ASSUME NEW e \in Entries, NEW n, n = CHOOSE m \in DOMAIN First : First[m] = e
        PROVE  n \in 1 .. Len(First)
    BY <1>1, <2>1 DEF Entries
  <2>2. ASSUME NEW e \in Entries PROVE PoolNext[e] \in Entries \cup {NULL}
    <3> DEFINE n == CHOOSE n \in DOMAIN First : First[n] = e
    <3>1. n \in 1 .. Len(First)
      BY <2>1
    <3>2. PoolNext[e] = IF n = Len(First) THEN NULL ELSE First[n + 1]
      BY DEF Init
    <3>3. n # Len(First) => n + 1 \in 1 .. Len(First)
      BY <1>1, <3>1
    <3>4. n # Len(First) => First[n + 1] \in Entries
      BY <1>1, <3>3
    <3> HIDE DEF n
    <3> QED BY <3>2, <3>4
  <2> QED BY <2>2 DEF Init
<1>5. /\ quota \in Quotas
      /\ pc \in [Threads -> {"idle", "link", "push", "follow", "pop"}]
      /\ currhead \in [Threads -> Heads]
      /\ next \in [Threads -> Entries \cup {NULL}]
      /\ owned \in [Threads -> SUBSET Entries]
      /\ ret \in [Threads -> Entries \cup {NULL}]
      /\ ncalls \in [Threads -> 0 .. MaxCalls]
  BY <1>1, <1>3 DEF Init
<1> QED BY <1>3, <1>4, <1>5 DEF TypeOK

LEMMA FoundType ==
  ASSUME TypeOK, NEW t \in Threads, NEW from, Found(t, from)
  PROVE  /\ pc' \in [Threads -> {"idle", "link", "push", "follow", "pop"}]
         /\ currhead' \in [Threads -> Heads]
         /\ next' \in [Threads -> Entries \cup {NULL}]
         /\ ret' \in [Threads -> Entries \cup {NULL}]
<1>1. NoHead \in Heads
  <2>1. TagWrap \in Nat \ {0}
    BY PoolAssumption
  <2> QED BY <2>1 DEF NoHead, Heads
<1> QED BY <1>1 DEF TypeOK, Found, Goto, See, Return

LEMMA TypeNext == TypeOK /\ Locals /\ [Next]_vars => TypeOK'
<1> SUFFICES ASSUME TypeOK, Locals, [Next]_vars PROVE TypeOK'
  OBVIOUS
<1>0. NoHead \in Heads /\ MaxCalls \in Nat
  <2>1. TagWrap \in Nat \ {0} /\ MaxCalls \in Nat
    BY PoolAssumption
  <2> QED BY <2>1 DEF NoHead, Heads
<1>1. ASSUME NEW t \in Threads, head = currhead[t], head' = [ptr |-> next[t], tag |-> Bump(head.tag)]
      PROVE  head' \in Heads
  <2>1. head.tag \in Nat /\ next[t] \in Entries \cup {NULL}
    BY DEF TypeOK, Heads
  <2>2. Bump(head.tag) \in 0 .. TagWrap - 1
    BY <2>1, BumpType DEF Bump
  <2> QED BY <1>1, <2>1, <2>2 DEF Heads
<1>2. ASSUME NEW t \in Threads, Call(t) PROVE ncalls' \in [Threads -> 0 .. MaxCalls]
  BY <1>0, <1>2 DEF TypeOK, Call
<1>3. ASSUME NEW t \in Threads, UNCHANGED quota, AddLoad(t) PROVE TypeOK'
  BY <1>2, <1>3 DEF TypeOK, AddLoad, Goto, See
<1>4. ASSUME NEW t \in Threads, UNCHANGED quota, TakeLoad(t) PROVE TypeOK'
  <2>1. ncalls' \in [Threads -> 0 .. MaxCalls] /\ Found(t, "idle")
    BY <1>2, <1>4 DEF TakeLoad
  <2> QED BY <1>4, <2>1, FoundType DEF TypeOK, TakeLoad
<1>5. ASSUME NEW t \in Threads, UNCHANGED quota, Link(t) PROVE TypeOK'
  <2>1. currhead[t].ptr \in Entries \cup {NULL}
    BY DEF TypeOK, Heads
  <2> QED BY <1>5, <2>1 DEF TypeOK, Link, Goto
<1>6. ASSUME NEW t \in Threads, UNCHANGED quota, Push(t) PROVE TypeOK'
  <2>1. head' \in Heads
    BY <1>1, <1>6 DEF Push
  <2> QED BY <1>0, <1>6, <2>1 DEF TypeOK, Push, Return, Goto
<1>7. ASSUME NEW t \in Threads, UNCHANGED quota, PushFails(t) PROVE TypeOK'
  BY <1>7 DEF TypeOK, PushFails, Goto, See
<1>8. ASSUME NEW t \in Threads, UNCHANGED quota, Follow(t) PROVE TypeOK'
  <2>1. currhead[t].ptr \in Entries
    BY <1>8 DEF TypeOK, Heads, Locals, Follow, Goto
  <2> QED BY <1>8, <2>1 DEF TypeOK, Follow, Goto
<1>9. ASSUME NEW t \in Threads, UNCHANGED quota, Pop(t) PROVE TypeOK'
  <2>1. head' \in Heads
    BY <1>1, <1>9 DEF Pop
  <2>2. head.ptr \in Entries
    BY <1>9 DEF TypeOK, Heads, Locals, Pop, Return, Goto
  <2> QED BY <1>0, <1>9, <2>1, <2>2 DEF TypeOK, Pop, Return, Goto
<1>10. ASSUME NEW t \in Threads, UNCHANGED quota, PopFails(t) PROVE TypeOK'
  <2>1. Found(t, "pop")
    BY <1>10 DEF PopFails
  <2> QED BY <1>10, <2>1, FoundType DEF TypeOK, PopFails
<1>11. CASE UNCHANGED vars
  BY <1>11 DEF TypeOK, vars
<1> QED BY <1>3, <1>4, <1>5, <1>6, <1>7, <1>8, <1>9, <1>10, <1>11 DEF Next, Start, Step

-----------------------------------------------------------------------------
(* The list and its owners.                                                *)

LEMMA ListInit == Init => IsList(First)
<1> SUFFICES ASSUME Init PROVE IsList(First)
  OBVIOUS
<1>1. /\ First \in Seq(Entries) /\ Len(First) \in Nat \ {0} /\ DOMAIN First = 1 .. Len(First)
      /\ \A n \in 1 .. Len(First) : First[n] \in Entries
  BY SomeEntries, PoolAssumption
<1>2. ASSUME NEW i \in 1 .. Len(First)
      PROVE  PoolNext[First[i]] = IF i = Len(First) THEN NULL ELSE First[i + 1]
  <2> DEFINE n == CHOOSE n \in DOMAIN First : First[n] = First[i]
  <2>1. n \in 1 .. Len(First) /\ First[n] = First[i]
    BY <1>1
  <2>2. n = i
    <3> HIDE DEF n
    <3> QED BY <2>1, FirstDistinct DEF Distinct
  <2>3. PoolNext[First[i]] = IF n = Len(First) THEN NULL ELSE First[n + 1]
    BY <1>1 DEF Init
  <2> HIDE DEF n
  <2> QED BY <2>2, <2>3
<1>3. Chained(First, head.ptr, PoolNext)
  <2>1. head.ptr = First[1]
    BY DEF Init
  <2>2. First \in Seq(Entries) /\ Len(First) <= Len(First) /\ Len(First) # 0
    BY <1>1
  <2>3. head.ptr = IF Len(First) = 0 THEN NULL ELSE First[1]
    BY <2>1, <2>2
  <2> QED BY <1>2, <2>2, <2>3, Zenon DEF Chained
<1>4. \A e \in Entries : \E i \in 1 .. Len(First) : First[i] = e
  BY <1>1 DEF Entries
<1> QED BY <1>3, <1>4, FirstDistinct DEF IsList, Init

LEMMA SameList ==
  ASSUME NEW L, IsList(L), UNCHANGED <<head, PoolNext, owned>>
  PROVE  IsList(L)'
BY DEF IsList, Chained, Distinct

\* An entry that a thread has is not in the list: its link may be stored.
LEMMA LinkList ==
  ASSUME TypeOK, Locals, NEW L, IsList(L), NEW t \in Threads, Link(t)
  PROVE  IsList(L)' /\ PoolNext'[head.ptr] = PoolNext[head.ptr]
<1>1. next[t] \in owned[t] /\ next[t] \in Entries
  BY DEF TypeOK, Locals, Link, Goto
<1>2. \A i \in 1 .. Len(L) : L[i] \in Entries /\ L[i] # next[t] /\ PoolNext'[L[i]] = PoolNext[L[i]]
  BY <1>1 DEF TypeOK, IsList, Chained, Link
<1>3. Chained(L, head.ptr, PoolNext')
  BY <1>2 DEF IsList, Chained
<1>4. IsList(L)'
  BY <1>3 DEF IsList, Chained, Distinct, Link
<1>5. PoolNext'[head.ptr] = PoolNext[head.ptr]
  <2>1. head.ptr # next[t]
    BY <1>1, <1>2, SomeEntries DEF IsList, Chained
  <2> QED BY <2>1 DEF Link, TypeOK
<1> QED BY <1>4, <1>5

LEMMA PushList ==
  ASSUME TypeOK, OneOwner, Locals, NEW L, IsList(L), NEW t \in Threads, Push(t), NEW e, e = next[t]
  PROVE  IsList(<<e>> \o L)'
<1> DEFINE M == <<e>> \o L
<1>1. e \in owned[t] /\ e \in Entries /\ PoolNext[e] = head.ptr
  BY DEF TypeOK, Locals, Push, Return, Goto
<1>2. L \in Seq(Entries) /\ Len(L) \in Nat
  BY DEF IsList, Chained
<1>3. M \in Seq(Entries) /\ Len(M) = Len(L) + 1
  BY <1>1, <1>2
<1>4. M[1] = e /\ \A i \in 1 .. Len(L) : M[i + 1] = L[i]
  BY <1>1, <1>2
<1>5. \A i \in 2 .. Len(M) : i - 1 \in 1 .. Len(L) /\ M[i] = L[i - 1]
  BY <1>2, <1>3
<1>6. \A i \in 1 .. Len(L) : L[i] # e
  BY <1>1 DEF IsList
<1> HIDE DEF M
<1>7. Distinct(M)
  <2>1. Distinct(L)
    BY DEF IsList
  <2> SUFFICES ASSUME NEW i \in 1 .. Len(M), NEW j \in 1 .. Len(M), M[i] = M[j] PROVE i = j
    BY DEF Distinct
  <2>2. i = 1 \/ i \in 2 .. Len(M)
    BY <1>2, <1>3
  <2>3. j = 1 \/ j \in 2 .. Len(M)
    BY <1>2, <1>3
  <2>4. CASE i = 1 /\ j \in 2 .. Len(M)
    BY <2>4, <1>4, <1>5, <1>6
  <2>5. CASE j = 1 /\ i \in 2 .. Len(M)
    BY <2>5, <1>4, <1>5, <1>6
  <2>6. CASE i \in 2 .. Len(M) /\ j \in 2 .. Len(M)
    <3>1. i - 1 = j - 1
      BY <2>1, <2>6, <1>5 DEF Distinct
    <3> QED BY <2>6, <3>1
  <2> QED BY <2>2, <2>3, <2>4, <2>5, <2>6
<1>8. Len(M) <= Len(First)
  BY <1>3, <1>7, Short
<1>9. head'.ptr = M[1] /\ Len(M) # 0 /\ PoolNext' = PoolNext
  BY <1>2, <1>3, <1>4 DEF Push
<1>10. ASSUME NEW i \in 1 .. Len(M) PROVE PoolNext[M[i]] = IF i = Len(M) THEN NULL ELSE M[i + 1]
  <2>1. CASE i = 1
    <3>1. PoolNext[M[i]] = IF Len(L) = 0 THEN NULL ELSE L[1]
      BY <1>1, <1>4, <2>1 DEF IsList, Chained
    <3>2. Len(L) # 0 => 1 \in 1 .. Len(L)
      BY <1>2
    <3>3. Len(L) # 0 => M[1 + 1] = L[1]
      BY <1>4, <3>2
    <3> QED BY <1>2, <1>3, <2>1, <3>1, <3>3
  <2>2. CASE i # 1
    <3>1. i \in 2 .. Len(M) /\ i - 1 \in 1 .. Len(L) /\ M[i] = L[i - 1]
      BY <1>2, <1>3, <1>5, <2>2
    <3> DEFINE k == i - 1
    <3>2. PoolNext[L[k]] = IF k = Len(L) THEN NULL ELSE L[k + 1]
      BY <3>1 DEF IsList, Chained
    <3>3. k = Len(L) <=> i = Len(M)
      BY <1>2, <1>3, <3>1
    <3>4. i # Len(M) => i \in 1 .. Len(L)
      BY <1>2, <1>3
    <3>5. i # Len(M) => M[i + 1] = L[k + 1]
      BY <1>4, <3>4
    <3> QED BY <3>1, <3>2, <3>3, <3>5
  <2> QED BY <2>1, <2>2
<1>11. Chained(M, head'.ptr, PoolNext')
  BY <1>3, <1>8, <1>9, <1>10 DEF Chained
<1>12. ASSUME NEW x \in Entries
       PROVE  (\E i \in 1 .. Len(M) : M[i] = x) <=> ~\E u \in Threads : x \in owned'[u]
  <2>1. CASE x = e
    <3>1. \A u \in Threads : e \notin owned'[u]
      BY <1>1 DEF TypeOK, OneOwner, Push
    <3>2. 1 \in 1 .. Len(M)
      BY <1>2, <1>3
    <3> QED BY <1>4, <2>1, <3>1, <3>2
  <2>2. CASE x # e
    <3>1. (\E u \in Threads : x \in owned'[u]) <=> \E u \in Threads : x \in owned[u]
      BY <2>2 DEF TypeOK, Push
    <3>2. (\E i \in 1 .. Len(M) : M[i] = x) <=> \E i \in 1 .. Len(L) : L[i] = x
      <4>1. ASSUME NEW i \in 1 .. Len(M), M[i] = x PROVE \E j \in 1 .. Len(L) : L[j] = x
        <5>1. i \in 2 .. Len(M)
          BY <1>2, <1>3, <1>4, <2>2, <4>1
        <5> QED BY <1>5, <4>1, <5>1
      <4>2. ASSUME NEW j \in 1 .. Len(L), L[j] = x PROVE \E i \in 1 .. Len(M) : M[i] = x
        <5>1. j + 1 \in 1 .. Len(M)
          BY <1>2, <1>3
        <5> QED BY <1>4, <4>2, <5>1
      <4> QED BY <4>1, <4>2
    <3> QED BY <3>1, <3>2 DEF IsList
  <2> QED BY <2>1, <2>2
<1>13. IsList(M)'
  BY <1>7, <1>11, <1>12 DEF IsList, Chained, Distinct
<1> QED BY <1>13 DEF M

LEMMA PopList ==
  ASSUME TypeOK, OneOwner, Locals, NEW L, IsList(L), NEW t \in Threads, Pop(t),
         next[t] = PoolNext[head.ptr]
  PROVE  L # <<>> /\ Head(L) = head.ptr /\ IsList(Tail(L))'
<1> DEFINE M == Tail(L)
           e == L[1]
<1>0. /\ L \in Seq(Entries) /\ Len(L) \in Nat /\ Len(L) <= Len(First) /\ Len(First) \in Nat
      /\ \A i \in 1 .. Len(L) : L[i] \in Entries
  BY SomeEntries DEF IsList, Chained
<1>1. head.ptr # NULL
  BY DEF Locals, Pop, Return, Goto
<1>2. Len(L) \in Nat \ {0} /\ head.ptr = e
  BY <1>0, <1>1 DEF IsList, Chained
<1>3. L # <<>> /\ Head(L) = e
  BY <1>0, <1>2
<1>4. M \in Seq(Entries) /\ Len(M) = Len(L) - 1 /\ \A i \in 1 .. Len(M) : M[i] = L[i + 1]
  BY <1>0, <1>2
<1>5. 1 \in 1 .. Len(L) /\ \A i \in 1 .. Len(M) : i + 1 \in 1 .. Len(L)
  BY <1>0, <1>2, <1>4
<1>6. next[t] = IF Len(L) = 1 THEN NULL ELSE L[2]
  <2>1. PoolNext[L[1]] = IF 1 = Len(L) THEN NULL ELSE L[1 + 1]
    BY <1>5 DEF IsList, Chained
  <2> QED BY <1>2, <2>1
<1> HIDE DEF M
<1>7. Distinct(M)
  BY <1>0, <1>4, <1>5 DEF IsList, Distinct
<1>8. head'.ptr = next[t] /\ PoolNext' = PoolNext /\ Len(M) <= Len(First) /\ Len(M) \in Nat
  BY <1>0, <1>2, <1>4 DEF Pop
<1>9. ASSUME NEW i \in 1 .. Len(M) PROVE PoolNext[M[i]] = IF i = Len(M) THEN NULL ELSE M[i + 1]
  <2> DEFINE k == i + 1
  <2>1. k \in 1 .. Len(L) /\ M[i] = L[k]
    BY <1>4, <1>5
  <2>2. PoolNext[L[k]] = IF k = Len(L) THEN NULL ELSE L[k + 1]
    BY <2>1 DEF IsList, Chained
  <2>3. k = Len(L) <=> i = Len(M)
    BY <1>0, <1>4, <1>8
  <2>4. i # Len(M) => i + 1 \in 1 .. Len(M)
    BY <1>8
  <2>5. i # Len(M) => M[i + 1] = L[k + 1]
    BY <1>4, <2>4
  <2> QED BY <2>1, <2>2, <2>3, <2>5
<1>10. next[t] = IF Len(M) = 0 THEN NULL ELSE M[1]
  <2>1. Len(M) = 0 <=> Len(L) = 1
    BY <1>0, <1>4
  <2>2. Len(M) # 0 => 1 \in 1 .. Len(M)
    BY <1>8
  <2>3. Len(M) # 0 => M[1] = L[2]
    BY <1>4, <2>2
  <2> QED BY <1>6, <2>1, <2>3
<1>11. Chained(M, head'.ptr, PoolNext')
  BY <1>4, <1>8, <1>9, <1>10 DEF Chained
<1>12. ASSUME NEW x \in Entries
       PROVE  (\E i \in 1 .. Len(M) : M[i] = x) <=> ~\E u \in Threads : x \in owned'[u]
  <2>1. CASE x = e
    <3>1. x \in owned'[t]
      BY <1>2, <2>1 DEF TypeOK, Pop
    <3>2. \A i \in 1 .. Len(M) : M[i] # e
      <4> SUFFICES ASSUME NEW i \in 1 .. Len(M), M[i] = e PROVE FALSE
        OBVIOUS
      <4>1. i + 1 \in 1 .. Len(L) /\ L[i + 1] = L[1] /\ i + 1 # 1
        BY <1>4, <1>5, <1>8
      <4> QED BY <1>5, <4>1 DEF IsList, Distinct
    <3> QED BY <2>1, <3>1, <3>2
  <2>2. CASE x # e
    <3>1. (\E u \in Threads : x \in owned'[u]) <=> \E u \in Threads : x \in owned[u]
      BY <1>2, <2>2 DEF TypeOK, Pop
    <3>2. (\E i \in 1 .. Len(M) : M[i] = x) <=> \E i \in 1 .. Len(L) : L[i] = x
      <4>1. ASSUME NEW i \in 1 .. Len(M), M[i] = x PROVE \E j \in 1 .. Len(L) : L[j] = x
        BY <1>4, <1>5, <4>1
      <4>2. ASSUME NEW j \in 1 .. Len(L), L[j] = x PROVE \E i \in 1 .. Len(M) : M[i] = x
        <5>1. j # 1 /\ j - 1 \in 1 .. Len(M) /\ (j - 1) + 1 = j
          BY <1>0, <1>4, <2>2, <4>2
        <5>2. M[j - 1] = L[j]
          BY <1>4, <5>1
        <5> QED BY <4>2, <5>1, <5>2
      <4> QED BY <4>1, <4>2
    <3> QED BY <3>1, <3>2 DEF IsList
  <2> QED BY <2>1, <2>2
<1>13. IsList(Tail(L))'
  <2>1. M = Tail(L)
    BY DEF M
  <2>2. ASSUME NEW K, K = M PROVE IsList(K)'
    BY <1>7, <1>11, <1>12, <2>2 DEF IsList, Chained, Distinct
  <2>3. \A K : K = Tail(L) => IsList(K)'
    BY <2>1, <2>2
  <2> QED BY <2>3
<1> QED BY <1>2, <1>3, <1>13

-----------------------------------------------------------------------------
(* Each action keeps the owners apart and the locals in order.             *)

LEMMA OwnersNext ==
  ASSUME TypeOK, OneOwner, Locals, NEW L, IsList(L), NEW t \in Threads,
         Start(t) \/ Step(t)
  PROVE  OneOwner'
<1>1. CASE UNCHANGED owned
  BY <1>1 DEF OneOwner
<1>2. CASE Push(t)
  BY <1>2 DEF TypeOK, OneOwner, Push
<1>3. CASE Pop(t)
  <2>1. currhead[t].ptr # NULL /\ head.ptr = currhead[t].ptr
    BY <1>3 DEF Locals, Pop, Return, Goto
  <2>2. Len(L) \in Nat \ {0} /\ head.ptr = L[1] /\ L[1] \in Entries
    BY <2>1, SomeEntries DEF IsList, Chained
  <2>3. \A u \in Threads : head.ptr \notin owned[u]
    BY <2>2 DEF IsList
  <2> QED BY <1>3, <2>3 DEF TypeOK, OneOwner, Pop
<1> QED BY <1>1, <1>2, <1>3 DEF Start, Step, AddLoad, TakeLoad, Link, PushFails, Follow, PopFails

LEMMA LocalsNext ==
  ASSUME TypeOK, OneOwner, Locals, NEW t \in Threads, Start(t) \/ Step(t)
  PROVE  Locals'
<1>1. CASE AddLoad(t)
  BY <1>1 DEF TypeOK, Locals, AddLoad, Goto, See
<1>2. CASE TakeLoad(t)
  BY <1>2 DEF TypeOK, Locals, TakeLoad, Found, Goto, See, Return
<1>3. CASE Link(t)
  <2>1. ASSUME NEW u \in Threads, pc'[u] = "push" PROVE PoolNext'[next[u]] = currhead[u].ptr
    <3>1. CASE u = t
      BY <1>3, <3>1 DEF TypeOK, Locals, Link, Goto
    <3>2. CASE u # t
      <4>1. pc[u] = "push" /\ next[u] \in owned[u] /\ next[t] \in owned[t]
        BY <1>3, <2>1, <3>2 DEF TypeOK, Locals, Link, Goto
      <4>2. next[u] # next[t]
        BY <3>2, <4>1 DEF TypeOK, OneOwner
      <4> QED BY <1>3, <4>1, <4>2 DEF TypeOK, Locals, Link
    <3> QED BY <3>1, <3>2
  <2>2. ASSUME NEW u \in Threads, pc'[u] \in {"link", "push"} PROVE next[u] \in owned[u]
    BY <1>3, <2>2 DEF TypeOK, Locals, Link, Goto
  <2>3. ASSUME NEW u \in Threads, pc'[u] \in {"follow", "pop"} PROVE currhead[u].ptr # NULL
    BY <1>3, <2>3 DEF TypeOK, Locals, Link, Goto
  <2> QED BY <1>3, <2>1, <2>2, <2>3 DEF Locals, Link
<1>4. CASE Push(t)
  BY <1>4 DEF TypeOK, OneOwner, Locals, Push, Return, Goto
<1>5. CASE PushFails(t)
  BY <1>5 DEF TypeOK, Locals, PushFails, Goto, See
<1>6. CASE Follow(t)
  BY <1>6 DEF TypeOK, Locals, Follow, Goto
<1>7. CASE Pop(t)
  BY <1>7 DEF TypeOK, Locals, Pop, Return, Goto
<1>8. CASE PopFails(t)
  BY <1>8 DEF TypeOK, Locals, PopFails, Found, Goto, See, Return
<1> QED BY <1>1, <1>2, <1>3, <1>4, <1>5, <1>6, <1>7, <1>8 DEF Start, Step

-----------------------------------------------------------------------------
(* Each action keeps the changes of the head counted.                      *)

LEMMA LogInit == Init => Logged({}, [t \in Threads |-> {}])
<1> SUFFICES ASSUME Init PROVE Logged({}, [t \in Threads |-> {}])
  OBVIOUS
<1>1. Cardinality({}) = 0 /\ Len(First) \in Nat
  BY FS_EmptySet, SomeEntries
<1> QED BY <1>1 DEF Init, Logged

\* A thread that looks at the head sees all changes.
LEMMA LogSee ==
  ASSUME TypeOK, NEW H, NEW Seen, Logged(H, Seen), NEW t \in Threads,
         UNCHANGED <<head, PoolNext>>, See(t),
         ncalls' \in [Threads -> 0 .. MaxCalls],
         \A u \in Threads : u # t => pc'[u] = pc[u] /\ next'[u] = next[u] /\ ncalls'[u] = ncalls[u],
         pc'[t] \in {"link", "follow"},
         \/ pc[t] = "idle" /\ ncalls'[t] = ncalls[t] + 1
         \/ pc[t] # "idle" /\ ncalls'[t] = ncalls[t]
  PROVE  Logged(H, [Seen EXCEPT ![t] = H])'
<1> DEFINE Z == [Seen EXCEPT ![t] = H]
<1>0. MaxCalls \in Nat /\ TypeOK
  BY PoolAssumption
<1>1. Z \in [Threads -> SUBSET Changes] /\ Z[t] = H /\ \A u \in Threads : u # t => Z[u] = Seen[u]
  BY DEF Logged
<1>2. currhead'[t] = head /\ \A u \in Threads : u # t => currhead'[u] = currhead[u]
  BY DEF TypeOK, See
<1> HIDE DEF Z
<1>3. \A k \in 1 .. MaxCalls :
        <<t, k>> \in H => k <= ncalls'[t] /\ k < ncalls'[t] /\ <<t, k>> \in Z[t]
  BY <1>0, <1>1 DEF Logged, TypeOK
<1>4. ASSUME NEW u \in Threads, NEW k \in 1 .. MaxCalls, <<u, k>> \in H
      PROVE  k <= ncalls'[u] /\ (pc'[u] # "idle" => k < ncalls'[u] /\ <<u, k>> \in Z[u])
  BY <1>1, <1>3, <1>4 DEF Logged
<1>5. ASSUME NEW u \in Threads, pc'[u] # "idle"
      PROVE  /\ Z[u] \subseteq H
             /\ currhead'[u].tag = (Len(First) + Cardinality(Z[u])) % TagWrap
             /\ ncalls'[u] > 0
             /\ Z[u] = H => currhead'[u] = head /\ (pc'[u] = "pop" => next'[u] = PoolNext[head.ptr])
  <2>1. CASE u = t
    <3>1. ncalls'[t] > 0
      BY <1>0, <1>5, <2>1 DEF TypeOK, Logged
    <3>2. pc'[t] # "pop"
      OBVIOUS
    <3> QED BY <1>1, <1>2, <2>1, <3>1, <3>2 DEF Logged
  <2>2. CASE u # t
    BY <1>1, <1>2, <1>5, <2>2 DEF Logged
  <2> QED BY <2>1, <2>2
<1> HIDE DEF Changes
<1> SUFFICES Logged(H, Z)'
  BY DEF Z
<1>6. H \in SUBSET Changes /\ head'.tag = (Len(First) + Cardinality(H)) % TagWrap
  BY DEF Logged
<1> QED BY <1>1, <1>4, <1>5, <1>6 DEF Logged

\* A thread that returns without a change.
LEMMA LogReturn ==
  ASSUME TypeOK, NEW H, NEW Seen, Logged(H, Seen), NEW t \in Threads, NEW from, Return(t, from),
         UNCHANGED <<head, PoolNext>>,
         ncalls' = ncalls \/ Call(t)
  PROVE  Logged(H, Seen)'
<1>1. /\ pc'[t] = "idle"
      /\ \A u \in Threads : u # t =>
           pc'[u] = pc[u] /\ next'[u] = next[u] /\ currhead'[u] = currhead[u]
  BY DEF TypeOK, Return, Goto
<1>2. \A u \in Threads : ncalls'[u] >= ncalls[u] /\ (u # t => ncalls'[u] = ncalls[u])
  BY PoolAssumption DEF TypeOK, Call
<1>3. ASSUME NEW u \in Threads, NEW k \in 1 .. MaxCalls, <<u, k>> \in H
      PROVE  k <= ncalls'[u] /\ (pc'[u] # "idle" => k < ncalls'[u] /\ <<u, k>> \in Seen[u])
  <2>1. CASE u = t
    <3>1. k <= ncalls[t] /\ ncalls'[t] >= ncalls[t] /\ ncalls[t] \in Nat /\ k \in Nat
      BY <1>2, <1>3, <2>1, PoolAssumption DEF Logged, TypeOK
    <3>2. ncalls'[t] \in Nat
      BY PoolAssumption DEF TypeOK, Call
    <3> QED BY <1>1, <2>1, <3>1, <3>2
  <2>2. CASE u # t
    BY <1>1, <1>2, <1>3, <2>2 DEF Logged
  <2> QED BY <2>1, <2>2
<1>4. ASSUME NEW u \in Threads, pc'[u] # "idle"
      PROVE  /\ Seen[u] \subseteq H
             /\ currhead'[u].tag = (Len(First) + Cardinality(Seen[u])) % TagWrap
             /\ ncalls'[u] > 0
             /\ Seen[u] = H => currhead'[u] = head /\ (pc'[u] = "pop" => next'[u] = PoolNext[head.ptr])
  <2>1. u # t
    BY <1>1, <1>4
  <2> QED BY <1>1, <1>2, <1>4, <2>1 DEF Logged
<1> QED BY <1>3, <1>4 DEF Logged

\* The store of a link behind the list.
LEMMA LogLink ==
  ASSUME TypeOK, NEW H, NEW Seen, Logged(H, Seen), NEW t \in Threads, Link(t),
         PoolNext'[head.ptr] = PoolNext[head.ptr]
  PROVE  Logged(H, Seen)'
<1>1. /\ pc[t] # "idle" /\ pc'[t] = "push" /\ \A u \in Threads : u # t => pc'[u] = pc[u]
      /\ UNCHANGED <<head, currhead, next, ncalls>>
  BY DEF TypeOK, Link, Goto
<1>2. \A u \in Threads : (pc'[u] # "idle" <=> pc[u] # "idle") /\ (pc'[u] = "pop" => pc[u] = "pop")
  BY <1>1
<1> QED BY <1>1, <1>2 DEF Logged

\* The pointer loaded is the one behind the head, when the head has not changed.
LEMMA LogFollow ==
  ASSUME TypeOK, NEW H, NEW Seen, Logged(H, Seen), NEW t \in Threads, Follow(t)
  PROVE  Logged(H, Seen)'
<1>1. /\ pc[t] # "idle" /\ next'[t] = PoolNext[currhead[t].ptr]
      /\ \A u \in Threads : u # t => pc'[u] = pc[u] /\ next'[u] = next[u]
      /\ \A u \in Threads : pc'[u] # "idle" <=> pc[u] # "idle"
      /\ UNCHANGED <<head, PoolNext, currhead, ncalls>>
  BY DEF TypeOK, Follow, Goto
<1>2. ASSUME NEW u \in Threads, pc'[u] # "idle", Seen[u] = H
      PROVE  currhead[u] = head /\ (pc'[u] = "pop" => next'[u] = PoolNext[head.ptr])
  <2>1. currhead[u] = head
    BY <1>1, <1>2 DEF Logged
  <2>2. CASE u = t
    BY <1>1, <2>1, <2>2
  <2>3. CASE u # t
    BY <1>1, <1>2, <2>1, <2>3 DEF Logged
  <2> QED BY <2>1, <2>2, <2>3
<1> QED BY <1>1, <1>2 DEF Logged

\* A swap: one more change, which no thread in a call has seen.
LEMMA LogChange ==
  ASSUME TypeOK, NEW H, NEW Seen, Logged(H, Seen), NEW t \in Threads, NEW from, Return(t, from),
         from # "idle", head'.tag = Bump(head.tag), UNCHANGED <<PoolNext, ncalls>>,
         NEW n, n = ncalls[t]
  PROVE  Logged(H \cup {<<t, n>>}, Seen)'
<1> DEFINE K == H \cup {<<t, n>>}
<1>0. /\ H \in SUBSET Changes /\ Seen \in [Threads -> SUBSET Changes]
      /\ n \in 1 .. MaxCalls /\ MaxCalls \in Nat /\ ncalls[t] = n
  <2>1. n \in 0 .. MaxCalls /\ n > 0
    BY DEF Logged, TypeOK, Return, Goto
  <2> QED BY <2>1, PoolAssumption DEF Logged
<1>1. /\ pc[t] # "idle" /\ pc'[t] = "idle"
      /\ \A u \in Threads : u # t =>
           pc'[u] = pc[u] /\ next'[u] = next[u] /\ currhead'[u] = currhead[u]
  BY DEF TypeOK, Return, Goto
<1>2. <<t, n>> \notin H
  BY <1>0, <1>1 DEF Logged
<1>3. K \in SUBSET Changes
  BY <1>0 DEF Changes
<1>4. head'.tag = (Len(First) + Cardinality(K)) % TagWrap
  <2> DEFINE c == Cardinality(H)
             x == Len(First) + c
  <2>1. c \in Nat /\ Cardinality(K) = c + 1 /\ Len(First) \in Nat /\ TagWrap \in Nat \ {0}
    BY <1>0, <1>2, FiniteLog, SomeEntries, PoolAssumption
  <2>2. head.tag = x % TagWrap
    BY DEF Logged
  <2>3. Len(First) + Cardinality(K) = x + 1 /\ x \in Nat
    BY <2>1
  <2> HIDE DEF K, x
  <2>4. ((x % TagWrap) + 1) % TagWrap = (x + 1) % TagWrap
    BY <2>1, <2>3, NextRemainder
  <2> QED BY <2>2, <2>3, <2>4 DEF Bump
<1>5. ASSUME NEW u \in Threads, NEW k \in 1 .. MaxCalls, <<u, k>> \in K
      PROVE  k <= ncalls[u] /\ (pc'[u] # "idle" => k < ncalls[u] /\ <<u, k>> \in Seen[u])
  <2>1. CASE u = t
    <3>1. CASE k = n
      BY <1>0, <1>1, <2>1, <3>1
    <3>2. CASE k # n
      BY <1>1, <1>5, <2>1, <3>2 DEF Logged
    <3> QED BY <3>1, <3>2
  <2>2. CASE u # t
    BY <1>1, <1>5, <2>2 DEF Logged
  <2> QED BY <2>1, <2>2
<1>6. ASSUME NEW u \in Threads, pc'[u] # "idle"
      PROVE  /\ Seen[u] \subseteq K /\ Seen[u] # K
             /\ currhead'[u].tag = (Len(First) + Cardinality(Seen[u])) % TagWrap
             /\ ncalls[u] > 0
  <2>1. u # t
    BY <1>1, <1>6
  <2>2. pc[u] # "idle" /\ currhead'[u] = currhead[u]
    BY <1>1, <1>6, <2>1
  <2> QED BY <1>2, <2>2 DEF Logged
<1> HIDE DEF K
<1> SUFFICES Logged(K, Seen)'
  BY DEF K
<1> QED BY <1>0, <1>3, <1>4, <1>5, <1>6 DEF Logged

LEMMA LogNext ==
  ASSUME TypeOK, OneOwner, Locals, NEW L, IsList(L), NEW H, NEW Seen, Logged(H, Seen),
         NEW t \in Threads, Start(t) \/ Step(t)
  PROVE  \E K, Z : Logged(K, Z)'
<1>1. ASSUME Call(t) PROVE ncalls' \in [Threads -> 0 .. MaxCalls] /\ ncalls'[t] = ncalls[t] + 1
                           /\ \A u \in Threads : u # t => ncalls'[u] = ncalls[u]
  BY <1>1, PoolAssumption DEF TypeOK, Call
<1>2. CASE AddLoad(t)
  <2>1. Logged(H, [Seen EXCEPT ![t] = H])'
    BY <1>1, <1>2, LogSee DEF TypeOK, AddLoad, Goto
  <2> QED BY <2>1
<1>3. ASSUME NEW from, Found(t, from), UNCHANGED <<head, PoolNext>>,
             \/ from = "idle" /\ Call(t)
             \/ from # "idle" /\ ncalls' = ncalls
      PROVE  \E K, Z : Logged(K, Z)'
  <2>1. CASE Return(t, from)
    <3>1. Logged(H, Seen)'
      BY <1>3, <2>1, LogReturn
    <3> QED BY <3>1
  <2>2. CASE Goto(t, from, "follow") /\ See(t) /\ UNCHANGED next
    <3>1. ncalls' \in [Threads -> 0 .. MaxCalls]
      BY <1>1, <1>3 DEF TypeOK
    <3>2. pc[t] = from /\ pc'[t] = "follow" /\ \A u \in Threads : u # t =>
                           pc'[u] = pc[u] /\ next'[u] = next[u] /\ ncalls'[u] = ncalls[u]
      BY <1>1, <1>3, <2>2 DEF TypeOK, Goto
    <3>3. \/ pc[t] = "idle" /\ ncalls'[t] = ncalls[t] + 1
          \/ pc[t] # "idle" /\ ncalls'[t] = ncalls[t]
      BY <1>1, <1>3, <3>2
    <3>4. Logged(H, [Seen EXCEPT ![t] = H])'
      BY <1>3, <2>2, <3>1, <3>2, <3>3, LogSee
    <3> QED BY <3>4
  <2> QED BY <1>3, <2>1, <2>2 DEF Found
<1>4. CASE TakeLoad(t)
  BY <1>3, <1>4 DEF TakeLoad
<1>5. CASE Link(t)
  <2>1. Logged(H, Seen)'
    BY <1>5, LinkList, LogLink
  <2> QED BY <2>1
<1>6. CASE Push(t)
  <2>1. Return(t, "push") /\ head'.tag = Bump(head.tag) /\ UNCHANGED <<PoolNext, ncalls>>
    BY <1>6 DEF Push
  <2>2. PICK n : n = ncalls[t]
    OBVIOUS
  <2>3. Logged(H \cup {<<t, n>>}, Seen)'
    BY <2>1, <2>2, LogChange
  <2> QED BY <2>3
<1>7. CASE PushFails(t)
  <2>1. Logged(H, [Seen EXCEPT ![t] = H])'
    BY <1>7, LogSee DEF TypeOK, PushFails, Goto
  <2> QED BY <2>1
<1>8. CASE Follow(t)
  <2>1. Logged(H, Seen)'
    BY <1>8, LogFollow
  <2> QED BY <2>1
<1>9. CASE Pop(t)
  <2>1. Return(t, "pop") /\ head'.tag = Bump(head.tag) /\ UNCHANGED <<PoolNext, ncalls>>
    BY <1>9 DEF Pop
  <2>2. PICK n : n = ncalls[t]
    OBVIOUS
  <2>3. Logged(H \cup {<<t, n>>}, Seen)'
    BY <2>1, <2>2, LogChange
  <2> QED BY <2>3
<1>10. CASE PopFails(t)
  BY <1>3, <1>10 DEF PopFails
<1> QED BY <1>2, <1>4, <1>5, <1>6, <1>7, <1>8, <1>9, <1>10 DEF Start, Step

-----------------------------------------------------------------------------
(* A pool that cannot be empty.                                            *)

LEMMA SomeOwned ==
  ASSUME TypeOK, NEW t \in Threads
  PROVE  IsFiniteSet(owned[t]) /\ Cardinality(owned[t]) \in Nat
<1>1. owned[t] \in SUBSET Entries
  BY DEF TypeOK
<1> QED BY <1>1, SomeEntries, FS_Subset, FS_CardinalityType

\* Threads that have their quota at most, one of them less, do not have all entries.
LEMMA SomeLeft ==
  ASSUME TypeOK, Within, quota * Cardinality(Threads) <= Len(First),
         NEW t \in Threads, Cardinality(owned[t]) < quota
  PROVE  \E e \in Entries : \A u \in Threads : e \notin owned[u]
<1> SUFFICES ASSUME \A e \in Entries : \E u \in Threads : e \in owned[u] PROVE FALSE
  OBVIOUS
<1> DEFINE C(u) == Cardinality(owned[u])
           B(u) == Bijection(1 .. C(u), owned[u])
           g == [u \in Threads |-> CHOOSE h : h \in B(u)]
           Places == Threads \X (1 .. quota)
           f == [x \in Places |-> IF x[2] <= C(x[1]) THEN g[x[1]][x[2]] ELSE First[1]]
<1>1. /\ quota \in Nat /\ IsFiniteSet(Threads) /\ Cardinality(Threads) \in Nat
      /\ \A u \in Threads : C(u) \in Nat /\ C(u) <= quota /\ owned[u] \subseteq Entries
  BY PoolAssumption, SomeOwned, FS_CardinalityType DEF TypeOK, Within
<1>2. ASSUME NEW u \in Threads PROVE g[u] \in B(u)
  <2>1. ExistsBijection(1 .. C(u), owned[u])
    BY SomeOwned, FS_CardinalityType
  <2> QED BY <2>1 DEF ExistsBijection
<1>3. ASSUME NEW u \in Threads
      PROVE  /\ \A k \in 1 .. C(u) : g[u][k] \in Entries
             /\ \A e \in owned[u] : \E k \in 1 .. C(u) : g[u][k] = e
  <2>1. g[u] \in Bijection(1 .. C(u), owned[u])
    BY <1>2
  <2>2. ASSUME NEW h \in Bijection(1 .. C(u), owned[u])
        PROVE  h \in [1 .. C(u) -> owned[u]] /\ \A e \in owned[u] : \E k \in 1 .. C(u) : h[k] = e
    <3> DEFINE D == 1 .. C(u)
               R == owned[u]
    <3>1. h \in Bijection(D, R)
      OBVIOUS
    <3> HIDE DEF D, R
    <3>2. h \in [D -> R] /\ \A e \in R : \E k \in D : h[k] = e
      BY <3>1, Fun_BijectionProperties
    <3> QED BY <3>2 DEF D, R
  <2>3. g[u] \in [1 .. C(u) -> owned[u]] /\ \A e \in owned[u] : \E k \in 1 .. C(u) : g[u][k] = e
    <3> HIDE DEF g
    <3> QED BY <2>1, <2>2
  <2> HIDE DEF g
  <2> QED BY <1>1, <2>3
<1> HIDE DEF B, g
<1>4. First[1] \in Entries
  BY SomeEntries
<1>5. f \in [Places -> Entries]
  <2> SUFFICES ASSUME NEW u \in Threads, NEW k \in 1 .. quota PROVE f[<<u, k>>] \in Entries
    BY Zenon
  <2>1. CASE k <= C(u)
    BY <1>1, <1>3, <2>1
  <2>2. CASE ~(k <= C(u))
    BY <1>4, <2>2
  <2> QED BY <2>1, <2>2
<1>6. ASSUME NEW e \in Entries
      PROVE  \E u \in Threads, k \in 1 .. quota : k <= C(u) /\ f[<<u, k>>] = e
  <2>1. PICK u \in Threads : e \in owned[u]
    OBVIOUS
  <2>2. PICK k \in 1 .. C(u) : g[u][k] = e
    BY <1>3, <2>1
  <2>3. k \in 1 .. quota /\ k <= C(u)
    BY <1>1
  <2>4. f[<<u, k>>] = e
    BY <2>2, <2>3
  <2> QED BY <2>3, <2>4
<1>7. f \in Surjection(Places, Entries)
  <2>1. \A e \in Entries : \E x \in Places : f[x] = e
    BY <1>6
  <2> HIDE DEF f
  <2> QED BY <1>5, <2>1, Fun_IsSurj
<1>8. IsFiniteSet(Places) /\ Cardinality(Places) = Cardinality(Threads) * quota
  <2>1. IsFiniteSet(1 .. quota) /\ Cardinality(1 .. quota) = quota
    BY <1>1, SizeOfInterval
  <2> QED BY <1>1, <2>1, FS_Product
<1>9. Cardinality(Entries) <= Cardinality(Places) /\ f \notin Injection(Places, Entries)
  <2>1. Cardinality(Entries) <= Cardinality(Places)
    BY <1>7, <1>8, FS_Surjection
  <2>2. quota \in 1 .. quota /\ ~(quota <= C(t))
    BY <1>1
  <2>3. f[<<t, quota>>] = First[1]
    BY <2>2
  <2>4. PICK u \in Threads, k \in 1 .. quota : k <= C(u) /\ f[<<u, k>>] = First[1]
    BY <1>4, <1>6
  <2>5. <<t, quota>> # <<u, k>>
    BY <2>2, <2>4
  <2>6. <<t, quota>> \in Places /\ <<u, k>> \in Places
    BY <2>2
  <2> HIDE DEF f
  <2> QED BY <2>1, <2>3, <2>4, <2>5, <2>6, Fun_InjectionProperties
<1>10. Cardinality(Entries) # Cardinality(Places)
  BY <1>7, <1>8, <1>9, FS_Surjection
<1> DEFINE a == Cardinality(Threads) * quota
           b == quota * Cardinality(Threads)
<1>11. a = b /\ a \in Nat
  BY <1>1
<1> HIDE DEF a, b
<1> QED BY <1>8, <1>9, <1>10, <1>11, SomeEntries DEF a, b

LEMMA WithinNext ==
  ASSUME TypeOK, Within, NEW t \in Threads, Start(t) \/ Step(t)
  PROVE  Within'
<1>0. /\ quota \in Nat /\ quota' = quota
      /\ \A u \in Threads : IsFiniteSet(owned[u]) /\ Cardinality(owned[u]) \in Nat
  BY PoolAssumption, SomeOwned DEF TypeOK, Start, Step
<1>1. CASE AddLoad(t) \/ Link(t) \/ PushFails(t) \/ Follow(t)
  BY <1>0, <1>1 DEF TypeOK, Within, AddLoad, Link, PushFails, Follow, Goto
<1>2. CASE TakeLoad(t) \/ PopFails(t)
  BY <1>0, <1>2 DEF TypeOK, Within, TakeLoad, PopFails, Found, Return, Goto
<1>3. CASE Push(t)
  <2>1. owned'[t] = owned[t] \ {next[t]} /\ pc'[t] = "idle"
        /\ \A u \in Threads : u # t => owned'[u] = owned[u] /\ pc'[u] = pc[u]
    BY <1>3 DEF TypeOK, Push, Return, Goto
  <2>2. Cardinality(owned[t] \ {next[t]}) <= Cardinality(owned[t])
    <3> DEFINE A == owned[t]
               e == next[t]
               c == Cardinality(A)
    <3>1. Cardinality(A \ {e}) = (IF e \in A THEN c - 1 ELSE c) /\ c \in Nat
      BY <1>0, FS_RemoveElement
    <3> HIDE DEF A, e, c
    <3>2. Cardinality(A \ {e}) <= c
      BY <3>1
    <3> QED BY <3>2 DEF A, e, c
  <2>3. Cardinality(owned[t] \ {next[t]}) \in Nat
    BY <1>0, FS_RemoveElement, FS_CardinalityType
  <2>4. Cardinality(owned'[t]) <= quota
    BY <1>0, <2>1, <2>2, <2>3 DEF Within
  <2> QED BY <1>0, <2>1, <2>4 DEF Within
<1>4. CASE Pop(t)
  <2>1. owned'[t] = owned[t] \cup {head.ptr} /\ pc'[t] = "idle" /\ pc[t] = "pop"
        /\ \A u \in Threads : u # t => owned'[u] = owned[u] /\ pc'[u] = pc[u]
    BY <1>4 DEF TypeOK, Pop, Return, Goto
  <2>2. Cardinality(owned[t] \cup {head.ptr}) <= Cardinality(owned[t]) + 1
    <3> DEFINE A == owned[t]
               e == head.ptr
               c == Cardinality(A)
    <3>1. Cardinality(A \cup {e}) = (IF e \in A THEN c ELSE c + 1) /\ c \in Nat
      BY <1>0, FS_AddElement
    <3> HIDE DEF A, e, c
    <3>2. Cardinality(A \cup {e}) <= c + 1
      BY <3>1
    <3> QED BY <3>2 DEF A, e, c
  <2>3. Cardinality(owned[t] \cup {head.ptr}) \in Nat
    BY <1>0, FS_AddElement, FS_CardinalityType
  <2>4. Cardinality(owned[t]) < quota
    BY <2>1 DEF Within
  <2>5. Cardinality(owned'[t]) <= quota
    BY <1>0, <2>1, <2>2, <2>3, <2>4
  <2> QED BY <1>0, <2>1, <2>5 DEF Within
<1> QED BY <1>1, <1>2, <1>3, <1>4 DEF Start, Step

LEMMA SuppliedNext ==
  ASSUME TypeOK, Locals, Within, Supplied, NEW L, IsList(L), NEW t \in Threads, Start(t) \/ Step(t)
  PROVE  Supplied'
<1> SUFFICES ASSUME quota * Cardinality(Threads) <= Len(First),
                    NEW u \in Threads, ret'[u] = NULL
             PROVE  owned'[u] = {} /\ (ncalls'[u] = 0 \/ pc'[u] \in {"follow", "pop"})
  BY DEF Supplied, Start, Step
<1>0. ret[u] = NULL => owned[u] = {} /\ (ncalls[u] = 0 \/ pc[u] \in {"follow", "pop"})
  BY DEF Supplied
<1>1. CASE AddLoad(t)
  BY <1>0, <1>1 DEF TypeOK, AddLoad, Call, Goto
<1>2. CASE Link(t) \/ PushFails(t)
  BY <1>0, <1>2 DEF TypeOK, Locals, Link, PushFails, Goto
<1>3. CASE Push(t)
  BY <1>0, <1>3 DEF TypeOK, Locals, Push, Return, Goto
<1>4. CASE Follow(t)
  BY <1>0, <1>4 DEF TypeOK, Follow, Goto
<1>5. CASE Pop(t)
  BY <1>0, <1>5 DEF TypeOK, Locals, Pop, Return, Goto
<1>6. CASE TakeLoad(t) \/ PopFails(t)
  <2>1. Cardinality(owned[t]) < quota
    BY <1>6 DEF Within, TakeLoad, PopFails, Found, Return, Goto
  <2>2. PICK e \in Entries : \A v \in Threads : e \notin owned[v]
    BY <2>1, SomeLeft
  <2>3. \E i \in 1 .. Len(L) : L[i] = e
    BY <2>2 DEF IsList
  <2>4. Len(L) \in Nat \ {0} /\ head.ptr = L[1] /\ L[1] \in Entries
    BY <2>3 DEF IsList, Chained
  <2>5. head.ptr # NULL
    BY <2>4, SomeEntries
  <2> QED BY <1>0, <1>6, <2>5 DEF TypeOK, TakeLoad, PopFails, Found, Call, Goto
<1> QED BY <1>1, <1>2, <1>3, <1>4, <1>5, <1>6 DEF Start, Step

-----------------------------------------------------------------------------
(* The theorems.                                                           *)

LEMMA InvInit == Init => IInv
<1> SUFFICES ASSUME Init PROVE IInv
  OBVIOUS
<1>1. TypeOK /\ IsList(First) /\ Logged({}, [t \in Threads |-> {}])
  BY TypeInit, ListInit, LogInit
<1>2. OneOwner /\ Locals /\ Supplied
  BY DEF Init, OneOwner, Locals, Supplied
<1>3. Within
  BY FS_EmptySet, PoolAssumption DEF Init, Within
<1> QED BY <1>1, <1>2, <1>3 DEF IInv

\* A swap that succeeds stores the entry that is behind the head.
LEMMA PopsSecond ==
  ASSUME IInv, NEW t \in Threads, Pop(t)
  PROVE  next[t] = PoolNext[head.ptr]
<1>1. PICK H, Seen : Logged(H, Seen)
  BY DEF IInv
<1>2. pc[t] = "pop" /\ currhead[t].tag = head.tag
  BY DEF Pop, Return, Goto
<1>3. Seen[t] = H
  BY <1>1, <1>2, NotChanged DEF IInv
<1> QED BY <1>1, <1>2, <1>3 DEF Logged

\* Every step leaves the list as it is, or puts an entry at its head, or takes it from there.
LEMMA ListNext ==
  ASSUME IInv, NEW L, IsList(L), NEW t \in Threads, Start(t) \/ Step(t)
  PROVE  \/ UNCHANGED owned /\ IsList(L)'
         \/ Push(t) /\ \E e \in owned[t] : e = next[t] /\ IsList(<<e>> \o L)'
         \/ Pop(t) /\ L # <<>> /\ Head(L) = head.ptr /\ IsList(Tail(L))'
<1>1. CASE UNCHANGED <<head, PoolNext, owned>>
  BY <1>1, SameList
<1>2. CASE Link(t)
  BY <1>2, LinkList DEF IInv, Link
<1>3. CASE Push(t)
  <2>1. PICK e : e = next[t]
    OBVIOUS
  <2>2. IsList(<<e>> \o L)'
    BY <1>3, <2>1, PushList DEF IInv
  <2>3. e \in owned[t]
    BY <1>3, <2>1 DEF IInv, Locals, Push, Return, Goto
  <2> QED BY <1>3, <2>1, <2>2, <2>3
<1>4. CASE Pop(t)
  BY <1>4, PopsSecond, PopList DEF IInv
<1> QED BY <1>1, <1>2, <1>3, <1>4 DEF Start, Step, AddLoad, TakeLoad, PushFails, Follow, PopFails

LEMMA InvNext == IInv /\ [Next]_vars => IInv'
<1> SUFFICES ASSUME IInv, [Next]_vars PROVE IInv'
  OBVIOUS
<1>0. PICK L : IsList(L)
  BY DEF IInv
<1>1. PICK H, Seen : Logged(H, Seen)
  BY DEF IInv
<1>2. TypeOK'
  BY TypeNext DEF IInv
<1>3. ASSUME NEW t \in Threads, Start(t) \/ Step(t) PROVE IInv'
  <2>1. \E M : IsList(M)'
    BY <1>0, <1>3, ListNext
  <2>2. \E K, Z : Logged(K, Z)'
    BY <1>0, <1>1, <1>3, LogNext DEF IInv
  <2>3. OneOwner' /\ Locals'
    BY <1>0, <1>3, OwnersNext, LocalsNext DEF IInv
  <2>4. Within' /\ Supplied'
    BY <1>0, <1>3, WithinNext, SuppliedNext DEF IInv
  <2> QED BY <1>2, <2>1, <2>2, <2>3, <2>4 DEF IInv
<1>4. CASE UNCHANGED vars
  <2>1. IsList(L)' /\ Logged(H, Seen)'
    BY <1>0, <1>1, <1>4 DEF vars, IsList, Chained, Distinct, Logged
  <2>2. OneOwner' /\ Locals' /\ Within' /\ Supplied'
    BY <1>4 DEF vars, IInv, OneOwner, Locals, Within, Supplied
  <2> QED BY <1>2, <2>1, <2>2 DEF IInv
<1> QED BY <1>3, <1>4 DEF Next

LEMMA OneEach == IInv => OnePlace
<1> SUFFICES ASSUME IInv, NEW e \in Entries
             PROVE  Cardinality({n \in DOMAIN Listed : Listed[n] = e})
                      + Cardinality({t \in Threads : e \in owned[t]}) = 1
  BY DEF OnePlace
<1>1. PICK L : IsList(L)
  BY DEF IInv
<1>2. Listed = L /\ DOMAIN Listed = 1 .. Len(L)
  <2>1. Listed = L /\ L \in Seq(Entries)
    BY <1>1, ListIs DEF IsList, Chained
  <2> QED BY <2>1
<1> DEFINE P == {n \in DOMAIN Listed : Listed[n] = e}
           O == {t \in Threads : e \in owned[t]}
<1>3. CASE \E t \in Threads : e \in owned[t]
  <2>1. P = {}
    BY <1>1, <1>2, <1>3 DEF IsList
  <2>2. PICK t \in Threads : O = {t}
    BY <1>3 DEF IInv, OneOwner
  <2> HIDE DEF P, O
  <2>3. Cardinality(P) = 0 /\ Cardinality(O) = 1
    BY <2>1, <2>2, FS_EmptySet, FS_Singleton
  <2> QED BY <2>3 DEF P, O
<1>4. CASE ~\E t \in Threads : e \in owned[t]
  <2>1. PICK i \in 1 .. Len(L) : L[i] = e
    BY <1>1, <1>4 DEF IsList
  <2>2. P = {i}
    BY <1>1, <1>2, <2>1 DEF IsList, Distinct
  <2>3. O = {}
    BY <1>4
  <2> HIDE DEF P, O
  <2>4. Cardinality(P) = 1 /\ Cardinality(O) = 0
    BY <2>2, <2>3, FS_EmptySet, FS_Singleton
  <2> QED BY <2>4 DEF P, O
<1> QED BY <1>3, <1>4

\* The inductive invariant holds.
THEOREM Invariance == Spec => []IInv
BY InvInit, InvNext, PTL DEF Spec

\* Every entry is in the list once or one thread has it, whatever comes back to the head between
\* a load and its swap, and PoolTake does not answer NULL when the threads cannot have all
\* entries.
THEOREM EntriesKept == Spec => []PoolInv
<1>1. IInv => PoolInv
  <2> SUFFICES ASSUME IInv PROVE PoolInv
    OBVIOUS
  <2>1. NeverEmpty
    BY DEF IInv, Supplied, NeverEmpty
  <2> QED BY <2>1, OneEach DEF IInv, PoolInv
<1> QED BY <1>1, Invariance, PTL

\* PoolAdd and PoolTake take effect at one step, as if the pool were a stack: the entry added
\* last is taken first, and NULL is the answer only of an empty pool.
THEOREM Refinement == Spec => IsStack
<1>1. Init => S!Init
  <2> SUFFICES ASSUME Init PROVE S!Init
    OBVIOUS
  <2>1. Listed = First
    BY ListInit, ListIs DEF IsList
  <2>2. S!PoolOf(First) = Entries /\ First \in Seq(Entries)
    BY PoolAssumption DEF S!PoolOf, Entries
  <2> QED BY <2>1, <2>2 DEF S!Init, Init
<1>2. IInv /\ [Next]_vars => [S!Next]_<<Listed, owned, ret>>
  <2> SUFFICES ASSUME IInv, [Next]_vars PROVE [S!Next]_<<Listed, owned, ret>>
    OBVIOUS
  <2>0. PICK L : IsList(L)
    BY DEF IInv
  <2>1. Listed = L
    BY <2>0, ListIs DEF IsList
  <2>2. ASSUME NEW M, IsList(M)' PROVE Listed' = M
    BY <2>2, ListIsNext DEF IsList
  <2>3. ASSUME NEW t \in Threads, Start(t) \/ Step(t) PROVE [S!Next]_<<Listed, owned, ret>>
    <3>1. CASE UNCHANGED owned /\ IsList(L)'
      <4>1. Listed' = Listed
        BY <2>1, <2>2, <3>1
      <4>2. CASE UNCHANGED ret
        BY <3>1, <4>1, <4>2
      <4>3. CASE head.ptr = NULL /\ ret' = [ret EXCEPT ![t] = NULL]
        <5>1. Listed = <<>>
          BY <2>0, <2>1, <4>3, SomeEntries DEF IsList, Chained
        <5>2. S!TakeNothing(t)
          BY <3>1, <4>1, <4>3, <5>1 DEF S!TakeNothing
        <5> QED BY <5>2 DEF S!Next
      <4>4. CASE Pop(t)
        <5>1. head.ptr \notin owned[t] /\ head.ptr \in owned'[t]
          <6>1. L # <<>> /\ Head(L) = head.ptr
            BY <2>0, <4>4, PopsSecond, PopList DEF IInv
          <6>2. Len(L) \in Nat \ {0} /\ head.ptr = L[1] /\ L[1] \in Entries
            BY <2>0, <6>1 DEF IsList, Chained
          <6>3. 1 \in 1 .. Len(L)
            BY <6>2
          <6> QED BY <2>0, <4>4, <6>2, <6>3 DEF IInv, TypeOK, IsList, Pop
        <5> QED BY <3>1, <5>1
      <4> QED BY <2>3, <4>2, <4>3, <4>4
          DEF Start, Step, AddLoad, TakeLoad, Link, Push, PushFails, Follow, PopFails, Found
    <3>2. CASE Push(t) /\ \E e \in owned[t] : e = next[t] /\ IsList(<<e>> \o L)'
      <4>1. PICK e \in owned[t] : e = next[t] /\ IsList(<<e>> \o L)'
        BY <3>2
      <4>2. Listed' = <<e>> \o Listed
        BY <2>1, <2>2, <4>1
      <4>3. S!Add(t)
        BY <3>2, <4>1, <4>2 DEF S!Add, Push
      <4> QED BY <4>3 DEF S!Next
    <3>3. CASE Pop(t) /\ L # <<>> /\ Head(L) = head.ptr /\ IsList(Tail(L))'
      <4>1. Listed' = Tail(Listed)
        BY <2>1, <2>2, <3>3
      <4>2. S!Take(t)
        BY <2>1, <3>3, <4>1 DEF S!Take, Pop
      <4> QED BY <4>2 DEF S!Next
    <3> QED BY <2>0, <2>3, <3>1, <3>2, <3>3, ListNext
  <2>4. CASE UNCHANGED vars
    <3>1. IsList(L)'
      BY <2>0, <2>4 DEF vars, IsList, Chained, Distinct
    <3> QED BY <2>1, <2>2, <2>4, <3>1 DEF vars
  <2> QED BY <2>3, <2>4 DEF Next
<1> QED BY <1>1, <1>2, Invariance, PTL DEF Spec, IsStack, S!Spec

-----------------------------------------------------------------------------
(* The queue: the inductive invariant.  MCLockFree has its variables.      *)

\* Sizes are sizes, by either name.
LEMMA QueueSizes == \A A : MQ!Cardinality(A) = Cardinality(A) /\ (MQ!IsFiniteSet(A) <=> IsFiniteSet(A))
  BY DEF MQ!Cardinality, Cardinality, MQ!IsFiniteSet, IsFiniteSet

\* The producers that have a slot, and those that were admitted and have none yet.
Filling  == MQ!At({"check", "store"})
Claiming == MQ!At({"claim"})
Busy     == MQ!At({"undo", "claim", "check", "store"})

\* How many slots are in use: places of the queue.
Used == Cardinality(MQ!Filled) + Cardinality(Filling)

InUse(s) == qbuffer[s] # NULL \/ \E p \in Filling : MQ!Slot(p) = s

\* The slot that is n after tail.
Ahead(n) == IF qtail + n < Cap THEN qtail + n ELSE qtail + n - Cap

QueueOne(b) == IF b THEN 1 ELSE 0

\* The slots in use are the first ones from tail on, and head is behind them.
InOrder ==
  /\ \A n \in 0 .. Cap - 1 : n < Used <=> InUse(Ahead(n))
  /\ qhead % Cap = Ahead(Used)

\* Who was admitted finds a free slot: those in use, those promised and the one whose
\* item the consumer has not subtracted yet are at most Cap.
Admitted == Used + Cardinality(Claiming) + QueueOne(qtook) <= Cap

\* An item in the queue is of an earlier call of its producer, or of this one when the
\* producer has nothing more to fill.
Earlier ==
  /\ \A s \in MQ!Slots, p \in Threads, k \in 1 .. MaxPuts :
       qbuffer[s] = <<p, k>> => k <= qnputs[p] /\ (p \in Claiming \cup Filling => k < qnputs[p])
  /\ \A p \in Busy : qnputs[p] > 0

QueueIInv == MQ!TypeOK /\ MQ!CountsAll /\ MQ!SlotsFree /\ InOrder /\ Admitted /\ Earlier

-----------------------------------------------------------------------------
(* Slots.                                                                  *)

\* The remainder of the next number.
LEMMA AfterRemainder ==
  ASSUME NEW a \in Nat, NEW b \in Nat \ {0}
  PROVE  (a + 1) % b = IF a % b = b - 1 THEN 0 ELSE (a % b) + 1
<1>1. PICK q \in Nat, r \in 0 .. b - 1 : a = b * q + r
  BY Division
<1>2. a % b = r
  BY <1>1
<1>3. ASSUME NEW x \in Nat, NEW k \in Nat, NEW y \in 0 .. b - 1, x = b * k + y
      PROVE  x % b = y
  BY <1>3
<1>4. b * q \in Nat /\ b * (q + 1) = b * q + b
  BY Distributes
<1> DEFINE x == a + 1
<1>5. x \in Nat
  OBVIOUS
<1>6. CASE r = b - 1
  <2> DEFINE k == q + 1
  <2>1. k \in Nat /\ 0 \in 0 .. b - 1 /\ x = b * k + 0
    BY <1>1, <1>4, <1>6
  <2> HIDE DEF x, k
  <2>2. x % b = 0
    BY <1>3, <1>5, <2>1
  <2> QED BY <2>2, <1>2, <1>6 DEF x
<1>7. CASE r # b - 1
  <2> DEFINE y == r + 1
  <2>1. y \in 0 .. b - 1 /\ x = b * q + y
    BY <1>1, <1>4, <1>7
  <2> HIDE DEF x, y
  <2>2. x % b = y
    BY <1>3, <1>5, <2>1
  <2> QED BY <2>2, <1>2, <1>7 DEF x, y
<1> QED BY <1>6, <1>7

\* Counting modulo Wrap does not disturb the slot, since Cap divides Wrap.
LEMMA NextSlot ==
  ASSUME MQ!MPSCQAssumption, NEW h \in 0 .. Wrap - 1
  PROVE  /\ (h + 1) % Wrap \in 0 .. Wrap - 1
         /\ h % Cap \in MQ!Slots
         /\ ((h + 1) % Wrap) % Cap = IF h % Cap = Cap - 1 THEN 0 ELSE (h % Cap) + 1
<1>1. Cap \in Nat \ {0} /\ Wrap \in Nat \ {0} /\ Wrap % Cap = 0 /\ h \in Nat
  <2>1. Cap \in Nat /\ Cap > 1 /\ Wrap \in Nat \ {0} /\ Wrap % Cap = 0
    BY ONLY MQ!MPSCQAssumption DEF MQ!MPSCQAssumption
  <2> QED BY ONLY <2>1, h \in 0 .. Wrap - 1
<1>2. (h + 1) % Cap = IF h % Cap = Cap - 1 THEN 0 ELSE (h % Cap) + 1
  BY <1>1, AfterRemainder
<1>3. ((h + 1) % Wrap) % Cap = (h + 1) % Cap
  <2>1. CASE h + 1 < Wrap
    BY <1>1, <2>1
  <2>2. CASE h + 1 = Wrap
    <3>1. (h + 1) % Wrap = 0 /\ 0 % Cap = 0
      BY <1>1, <2>2
    <3> QED BY <1>1, <2>2, <3>1
  <2> QED BY <1>1, <2>1, <2>2
<1> QED BY <1>1, <1>2, <1>3 DEF MQ!Slots

-----------------------------------------------------------------------------
(* Counting.                                                               *)

LEMMA Counts ==
  ASSUME MQ!MPSCQAssumption
  PROVE  /\ IsFiniteSet(MQ!Filled) /\ Cardinality(MQ!Filled) \in Nat
         /\ \A labels : /\ IsFiniteSet(MQ!At(labels))
                        /\ Cardinality(MQ!At(labels)) \in 0 .. Cardinality(Threads)
         /\ Cardinality(Threads) \in Nat
         /\ Cardinality(Claiming) + Cardinality(Filling) <= Cardinality(Busy)
         /\ Used \in Nat
<1>1. IsFiniteSet(MQ!Slots)
  BY FS_Interval, QueueSizes DEF MQ!Slots, MQ!MPSCQAssumption
<1>2. IsFiniteSet(MQ!Filled) /\ Cardinality(MQ!Filled) \in Nat
  BY <1>1, FS_Subset, FS_CardinalityType DEF MQ!Filled
<1>3. IsFiniteSet(Threads) /\ Cardinality(Threads) \in Nat
  BY FS_CardinalityType, QueueSizes DEF MQ!MPSCQAssumption
<1>4. ASSUME NEW labels
      PROVE  IsFiniteSet(MQ!At(labels)) /\ Cardinality(MQ!At(labels)) \in 0 .. Cardinality(Threads)
  <2>1. MQ!At(labels) \in SUBSET Threads
    BY DEF MQ!At
  <2>2. IsFiniteSet(MQ!At(labels)) /\ Cardinality(MQ!At(labels)) <= Cardinality(Threads)
    BY <1>3, <2>1, FS_Subset
  <2>3. Cardinality(MQ!At(labels)) \in Nat
    BY <2>2, FS_CardinalityType
  <2> QED BY <1>3, <2>2, <2>3
<1>5. Cardinality(Claiming) + Cardinality(Filling) <= Cardinality(Busy)
  <2>1. Claiming \cap Filling = {} /\ Claiming \cup Filling \in SUBSET Busy
    BY DEF Claiming, Filling, Busy, MQ!At
  <2>2. IsFiniteSet(Claiming) /\ IsFiniteSet(Filling) /\ IsFiniteSet(Busy)
    BY <1>4 DEF Claiming, Filling, Busy
  <2>3. Cardinality(Claiming \cup Filling) <= Cardinality(Busy)
    BY <2>1, <2>2, FS_Subset
  <2>4. Cardinality(Claiming \cup Filling) = Cardinality(Claiming) + Cardinality(Filling) - 0
    BY <2>1, <2>2, FS_Union, FS_EmptySet
  <2>5. Cardinality(Claiming) \in Nat /\ Cardinality(Filling) \in Nat
    BY <2>2, FS_CardinalityType
  <2> QED BY <2>3, <2>4, <2>5
<1>6. Used \in Nat
  BY <1>2, <1>4, <1>3 DEF Used, Filling
<1> QED BY <1>2, <1>3, <1>4, <1>5, <1>6

\* How a step of a producer changes the number of producers at some labels.
LEMMA Moves ==
  ASSUME MQ!MPSCQAssumption, MQ!TypeOK, NEW p \in Threads, NEW from, NEW to, MQ!Goto(p, from, to),
         NEW labels
  PROVE  /\ MQ!At(labels)' = IF to \in labels THEN MQ!At(labels) \cup {p} ELSE MQ!At(labels) \ {p}
         /\ p \in MQ!At(labels) <=> from \in labels
         /\ Cardinality(MQ!At(labels)') =
              Cardinality(MQ!At(labels)) + QueueOne(to \in labels) - QueueOne(from \in labels)
<1>1. p \in MQ!At(labels) <=> from \in labels
  BY DEF MQ!At, MQ!Goto
<1>2. MQ!At(labels)' = IF to \in labels THEN MQ!At(labels) \cup {p} ELSE MQ!At(labels) \ {p}
  BY DEF MQ!At, MQ!Goto, MQ!TypeOK
<1>3. IsFiniteSet(MQ!At(labels)) /\ Cardinality(MQ!At(labels)) \in Nat
  BY Counts, FS_CardinalityType
<1> DEFINE c == Cardinality(MQ!At(labels))
           d == Cardinality(MQ!At(labels)')
<1>6. d = c + QueueOne(to \in labels) - QueueOne(from \in labels)
  <2>1. QueueOne(to \in labels) = (IF to \in labels THEN 1 ELSE 0)
    BY DEF QueueOne
  <2>2. QueueOne(from \in labels) = (IF p \in MQ!At(labels) THEN 1 ELSE 0)
    BY <1>1 DEF QueueOne
  <2>3. to \in labels => d = IF p \in MQ!At(labels) THEN c ELSE c + 1
    <3>1. Cardinality(MQ!At(labels) \cup {p}) = IF p \in MQ!At(labels) THEN c ELSE c + 1
      BY <1>3, FS_AddElement
    <3> QED BY <1>2, <3>1
  <2>4. to \notin labels => d = IF p \in MQ!At(labels) THEN c - 1 ELSE c
    <3>1. Cardinality(MQ!At(labels) \ {p}) = IF p \in MQ!At(labels) THEN c - 1 ELSE c
      BY <1>3, FS_RemoveElement
    <3> QED BY <1>2, <3>1
  <2>5. c \in Nat
    BY <1>3
  <2> HIDE DEF c, d
  <2> QED BY <2>1, <2>2, <2>3, <2>4, <2>5
<1> QED BY <1>1, <1>2, <1>6

\* The slots in their order from tail.
LEMMA Around ==
  ASSUME MQ!MPSCQAssumption, MQ!TypeOK
  PROVE  /\ \A n \in 0 .. Cap : Ahead(n) \in MQ!Slots
         /\ \A s \in MQ!Slots : \E n \in 0 .. Cap - 1 : Ahead(n) = s
         /\ \A m, n \in 0 .. Cap - 1 : Ahead(m) = Ahead(n) => m = n
         /\ \A n \in 0 .. Cap - 1 : Ahead(n + 1) = IF Ahead(n) = Cap - 1 THEN 0 ELSE Ahead(n) + 1
         /\ \A n \in 1 .. Cap : (qtail + n - 1) % Cap = Ahead(n - 1)
<1>1. Cap \in Nat /\ Cap > 1 /\ qtail \in 0 .. Cap - 1
  BY DEF MQ!MPSCQAssumption, MQ!TypeOK, MQ!Slots
<1>2. \A s \in MQ!Slots : \E n \in 0 .. Cap - 1 : Ahead(n) = s
  <2> TAKE s \in MQ!Slots
  <2> DEFINE n == IF qtail <= s THEN s - qtail ELSE s + Cap - qtail
  <2>1. n \in 0 .. Cap - 1 /\ Ahead(n) = s
    BY <1>1 DEF Ahead, MQ!Slots
  <2> QED BY <2>1
<1>3. \A n \in 1 .. Cap : (qtail + n - 1) % Cap = Ahead(n - 1)
  BY <1>1 DEF Ahead
<1> QED BY <1>1, <1>2, <1>3 DEF Ahead, MQ!Slots

-----------------------------------------------------------------------------
(* Every step keeps the invariant.                                         *)

LEMMA QueueInit == ASSUME MQ!MPSCQAssumption PROVE MQ!Init => QueueIInv
<1> SUFFICES ASSUME MQ!Init PROVE QueueIInv
  OBVIOUS
<1>1. MQ!Filled = {} /\ Filling = {} /\ Claiming = {} /\ Busy = {} /\ MQ!At({"undo", "claim", "check", "store"}) = {}
  BY DEF MQ!Init, MQ!Filled, Filling, Claiming, Busy, MQ!At
<1>2. MQ!TypeOK
  <2>1. Cardinality(Threads) \in Nat
    BY FS_CardinalityType, QueueSizes DEF MQ!MPSCQAssumption
  <2>2. 0 \in 0 .. Cap + Cardinality(Threads) /\ 0 \in 0 .. Wrap - 1 /\ 0 \in MQ!Slots /\ 0 \in 0 .. MaxPuts
    BY <2>1 DEF MQ!MPSCQAssumption, MQ!Slots
  <2> QED BY <2>2, QueueSizes DEF MQ!Init, MQ!TypeOK
<1>3. Cardinality({}) = 0
  BY FS_EmptySet
<1>4. Used = 0
  BY <1>1, <1>3 DEF Used
<1>5. MQ!CountsAll
  BY <1>1, <1>3, QueueSizes DEF MQ!CountsAll, MQ!Init
<1>6. MQ!SlotsFree
  BY <1>1 DEF MQ!SlotsFree, Filling, MQ!Init
<1>7. InOrder
  <2>1. qhead % Cap = 0
    BY DEF MQ!Init, MQ!MPSCQAssumption
  <2>2. Ahead(0) = 0
    BY DEF MQ!Init, Ahead, MQ!MPSCQAssumption
  <2>3. \A n \in 0 .. Cap - 1 : Ahead(n) \in MQ!Slots
    BY <1>2, Around DEF MQ!MPSCQAssumption
  <2>4. \A s \in MQ!Slots : ~InUse(s)
    BY <1>1 DEF MQ!Init, InUse
  <2> QED BY <1>4, <2>1, <2>2, <2>3, <2>4 DEF InOrder
<1>8. Admitted
  BY <1>1, <1>3, <1>4 DEF Admitted, QueueOne, MQ!Init, MQ!MPSCQAssumption
<1>9. Earlier
  BY <1>1 DEF Earlier, MQ!Init, MQ!MPSCQAssumption, MQ!Items
<1> QED BY <1>2, <1>5, <1>6, <1>7, <1>8, <1>9 DEF QueueIInv

\* The type of the counters follows from the rest, and from this of the other variables.
TypeOfRest ==
  /\ qhead \in 0 .. Wrap - 1
  /\ qtail \in MQ!Slots
  /\ qbuffer \in [MQ!Slots -> MQ!Items \cup {NULL}]
  /\ qpc \in [Threads -> {"idle", "undo", "claim", "check", "store"}]
  /\ qmine \in [Threads -> 0 .. Wrap - 1]
  /\ qnputs \in [Threads -> 0 .. MaxPuts]
  /\ qtook \in BOOLEAN
  /\ qret \in MQ!Items \cup {NULL}
  /\ qaborted \in BOOLEAN

\* A refused producer's count is above what Admitted bounds, by one for each of them.
LEMMA TypeOfCount ==
  ASSUME MQ!MPSCQAssumption, TypeOfRest', MQ!CountsAll', Admitted'
  PROVE  MQ!TypeOK'
<1> DEFINE f == Cardinality(MQ!Filled')
           g == Cardinality(Filling')
           c == Cardinality(Claiming')
           b == Cardinality(Busy')
           n == Cardinality(Threads)
           o == QueueOne(qtook')
<1>1. IsFiniteSet(MQ!Slots) /\ IsFiniteSet(Threads)
  BY FS_Interval, QueueSizes DEF MQ!Slots, MQ!MPSCQAssumption
<1>2. f \in Nat
  <2>1. MQ!Filled' \in SUBSET MQ!Slots
    BY DEF MQ!Filled
  <2> QED BY <1>1, <2>1, FS_Subset, FS_CardinalityType
<1>3. g \in Nat /\ c \in Nat /\ b \in Nat /\ b <= n /\ n \in Nat
  <2>1. Filling' \in SUBSET Threads /\ Claiming' \in SUBSET Threads /\ Busy' \in SUBSET Threads
    BY DEF Filling, Claiming, Busy, MQ!At
  <2> QED BY <1>1, <2>1, FS_Subset, FS_CardinalityType
<1>4. o \in {0, 1}
  BY DEF QueueOne
<1>5. f + g + c + o <= Cap /\ Cap \in Nat
  BY DEF Admitted, Used, MQ!MPSCQAssumption
<1>6. qcount' = f + b + o
  BY QueueSizes DEF MQ!CountsAll, Busy, QueueOne
<1>7. qcount' \in 0 .. Cap + n
  <2> HIDE DEF f, g, b, c, n, o
  <2> QED BY <1>2, <1>3, <1>4, <1>5, <1>6
<1> QED BY <1>7, QueueSizes DEF MQ!TypeOK, TypeOfRest

\* What a step that leaves the slots and the producers that have one as they are keeps.
LEMMA SlotsKept ==
  ASSUME MQ!MPSCQAssumption, QueueIInv, Filling' = Filling, UNCHANGED <<qhead, qtail, qbuffer>>,
         \A p \in Filling : qmine'[p] = qmine[p]
  PROVE  /\ Used' = Used /\ MQ!Filled' = MQ!Filled
         /\ \A s : InUse(s)' = InUse(s)
         /\ \A p \in Filling : MQ!Slot(p)' = MQ!Slot(p)
         /\ InOrder'
         /\ ~qaborted' => MQ!SlotsFree'
<1>1. \A p \in Filling : MQ!Slot(p)' = MQ!Slot(p)
  BY DEF MQ!Slot
<1>2. MQ!Filled' = MQ!Filled
  BY DEF MQ!Filled
<1>3. Used' = Used
  BY <1>2 DEF Used
<1>4. \A s : InUse(s)' = InUse(s)
  BY <1>1 DEF InUse
<1>5. \A n : Ahead(n)' = Ahead(n)
  BY DEF Ahead
<1>6. InOrder'
  BY <1>3, <1>4, <1>5 DEF InOrder, QueueIInv
<1>7. ~qaborted' => MQ!SlotsFree'
  BY <1>1 DEF MQ!SlotsFree, Filling, QueueIInv
<1> QED BY <1>1, <1>2, <1>3, <1>4, <1>6, <1>7

LEMMA EnqueueKeeps ==
  ASSUME MQ!MPSCQAssumption, QueueIInv, NEW p \in Threads, MQ!Enqueue(p)
  PROVE  QueueIInv' /\ Filling' = Filling
<1> DEFINE to == IF qcount >= Cap THEN "undo" ELSE "claim"
           u == Used
           f == Cardinality(MQ!Filled)
           g == Cardinality(Filling)
           c == Cardinality(Claiming)
           b == Cardinality(Busy)
<1> USE DEF QueueIInv
<1>1. MQ!Goto(p, "idle", to)
  BY DEF MQ!Enqueue
<1>2. to \in {"undo", "claim"} /\ MQ!TypeOK
  OBVIOUS
<1> HIDE DEF to
<1>3. Filling' = Filling
  BY <1>1, <1>2, Moves DEF Filling
<1>4. Busy' = Busy \cup {p} /\ Cardinality(Busy') = b + 1
  BY <1>1, <1>2, Moves DEF Busy, QueueOne
<1>5. Claiming' \subseteq Claiming \cup {p} /\ Cardinality(Claiming') = c + QueueOne(to = "claim")
  BY <1>1, <1>2, Moves DEF Claiming, QueueOne
<1>6. f \in Nat /\ g \in Nat /\ c \in Nat /\ b \in Nat /\ c + g <= b /\ u = f + g
  BY Counts DEF Used, Busy, Claiming, Filling
<1>7. Used' = Used /\ MQ!Filled' = MQ!Filled /\ InOrder' /\ MQ!SlotsFree'
  BY <1>3, SlotsKept DEF MQ!Enqueue, MQ!SlotsFree
<1>8. MQ!CountsAll /\ qcount = f + b + QueueOne(qtook) /\ qcount' = qcount + 1
  BY QueueSizes DEF MQ!CountsAll, Busy, MQ!Enqueue, QueueOne
<1>9. MQ!CountsAll'
  <2>1. qcount' = Cardinality(MQ!Filled') + Cardinality(Busy') + QueueOne(qtook')
    BY <1>4, <1>6, <1>7, <1>8 DEF MQ!Enqueue, QueueOne
  <2> QED BY <2>1, QueueSizes DEF MQ!CountsAll, Busy, QueueOne
<1>10. Admitted'
  <2>1. qtook' = qtook
    BY DEF MQ!Enqueue
  <2>2. CASE to = "claim"
    <3>1. qcount < Cap
      BY <2>2, <1>8, <1>6 DEF to, QueueOne, MQ!MPSCQAssumption
    <3>2. u + c + 1 + QueueOne(qtook) <= Cap
      BY <3>1, <1>6, <1>8 DEF QueueOne, MQ!MPSCQAssumption
    <3> QED BY <2>1, <2>2, <3>2, <1>5, <1>6, <1>7 DEF Admitted, QueueOne
  <2>3. CASE to # "claim"
    BY <2>1, <2>3, <1>5, <1>6, <1>7 DEF Admitted, QueueOne
  <2> QED BY <2>2, <2>3
<1>11. Earlier'
  <2>1. qnputs' = [qnputs EXCEPT ![p] = @ + 1] /\ qnputs \in [Threads -> 0 .. MaxPuts] /\ qbuffer' = qbuffer
    BY DEF MQ!Enqueue, MQ!TypeOK
  <2>2. p \notin Claiming \cup Filling
    BY <1>1, <1>2 DEF MQ!Goto, Claiming, Filling, MQ!At
  <2> QED BY <2>1, <2>2, <1>3, <1>4, <1>5 DEF Earlier, MQ!MPSCQAssumption
<1>12. TypeOfRest'
  BY <1>1, <1>2, QueueSizes DEF MQ!TypeOK, TypeOfRest, MQ!Enqueue, MQ!Goto, MQ!MPSCQAssumption
<1>13. MQ!TypeOK'
  BY <1>9, <1>10, <1>12, TypeOfCount
<1> QED BY <1>3, <1>7, <1>9, <1>10, <1>11, <1>13

LEMMA UndoKeeps ==
  ASSUME MQ!MPSCQAssumption, QueueIInv, NEW p \in Threads, MQ!Undo(p)
  PROVE  QueueIInv' /\ Filling' = Filling
<1> USE DEF QueueIInv
<1>1. MQ!Goto(p, "undo", "idle")
  BY DEF MQ!Undo
<1>3. Filling' = Filling /\ Claiming' = Claiming
  BY <1>1, Moves DEF Filling, Claiming
<1>4. Busy' = Busy \ {p} /\ Cardinality(Busy') = Cardinality(Busy) - 1
  BY <1>1, Moves, Counts DEF Busy, QueueOne
<1>6. Cardinality(MQ!Filled) \in Nat /\ Cardinality(Busy) \in Nat
  BY Counts DEF Busy
<1>7. Used' = Used /\ MQ!Filled' = MQ!Filled /\ InOrder' /\ MQ!SlotsFree'
  BY <1>3, SlotsKept DEF MQ!Undo, MQ!SlotsFree
<1>9. MQ!CountsAll'
  <2>1. qcount = Cardinality(MQ!Filled) + Cardinality(Busy) + QueueOne(qtook)
    BY QueueSizes DEF MQ!CountsAll, Busy, QueueOne
  <2>2. qcount' = Cardinality(MQ!Filled') + Cardinality(Busy') + QueueOne(qtook')
    BY <2>1, <1>4, <1>6, <1>7 DEF MQ!Undo, QueueOne
  <2> QED BY <2>2, QueueSizes DEF MQ!CountsAll, Busy, QueueOne
<1>10. Admitted'
  BY <1>3, <1>7 DEF Admitted, MQ!Undo
<1>11. Earlier'
  BY <1>3, <1>4 DEF Earlier, MQ!Undo
<1>12. TypeOfRest'
  BY <1>1, QueueSizes DEF MQ!TypeOK, TypeOfRest, MQ!Undo, MQ!Goto
<1>13. MQ!TypeOK'
  BY <1>9, <1>10, <1>12, TypeOfCount
<1> QED BY <1>3, <1>7, <1>9, <1>10, <1>11, <1>13

\* A producer that was admitted gets the first slot that is free.
LEMMA ClaimKeeps ==
  ASSUME MQ!MPSCQAssumption, QueueIInv, NEW p \in Threads, MQ!Claim(p)
  PROVE  /\ QueueIInv' /\ Filling' = Filling \cup {p} /\ p \notin Filling
         /\ Used' = Used + 1 /\ Used < Cap /\ MQ!Slot(p)' = Ahead(Used)
         /\ \A q \in Filling : MQ!Slot(q)' = MQ!Slot(q) /\ MQ!Slot(q) # Ahead(Used)
<1> USE DEF QueueIInv
<1>1. MQ!Goto(p, "claim", "check")
  BY DEF MQ!Claim
<1>2. Filling' = Filling \cup {p} /\ Cardinality(Filling') = Cardinality(Filling) + 1
  BY <1>1, Moves DEF Filling, QueueOne
<1>3. p \notin Filling /\ p \in Claiming
  BY <1>1 DEF MQ!Goto, Filling, Claiming, MQ!At
<1>4. Claiming' = Claiming \ {p} /\ Cardinality(Claiming') = Cardinality(Claiming) - 1
  BY <1>1, Moves, Counts DEF Claiming, QueueOne
<1>5. Busy' = Busy /\ MQ!Filled' = MQ!Filled
  <2>1. p \in Busy /\ Busy' = Busy \cup {p}
    BY <1>1, Moves DEF Busy
  <2> QED BY <2>1 DEF MQ!Filled, MQ!Claim
<1>6. /\ Cardinality(MQ!Filled) \in Nat /\ Cardinality(Filling) \in Nat /\ Used \in Nat
      /\ Cardinality(Claiming') \in Nat /\ Cardinality(Claiming) \in Nat
  <2>1. Cardinality(Claiming) \in Nat /\ Cardinality(Filling) \in Nat /\ IsFiniteSet(Claiming)
    BY Counts DEF Claiming, Filling
  <2>2. Cardinality(Claiming \ {p}) \in Nat
    BY <2>1, FS_RemoveElement, FS_CardinalityType
  <2> QED BY <1>4, <2>1, <2>2, Counts
<1>7. Used' = Used + 1
  BY <1>2, <1>5, <1>6 DEF Used
<1>8. Used < Cap
  BY <1>4, <1>6 DEF Admitted, QueueOne, MQ!MPSCQAssumption
<1>9. MQ!Slot(p)' = Ahead(Used)
  BY DEF MQ!Slot, MQ!Claim, MQ!TypeOK, InOrder
<1>10. \A q \in Threads : q # p => MQ!Slot(q)' = MQ!Slot(q)
  BY DEF MQ!Slot, MQ!Claim, MQ!TypeOK
<1>11. ~InUse(Ahead(Used))
  BY <1>6, <1>8 DEF InOrder, MQ!MPSCQAssumption
<1>12. \A q \in Filling : MQ!Slot(q)' = MQ!Slot(q) /\ MQ!Slot(q) # Ahead(Used)
  BY <1>3, <1>10, <1>11 DEF InUse, Filling, MQ!At
<1>13. InOrder'
  <2>1. \A n : Ahead(n)' = Ahead(n)
    BY DEF Ahead, MQ!Claim
  <2>2. \A n \in 0 .. Cap - 1 : InUse(Ahead(n))' <=> InUse(Ahead(n)) \/ Ahead(n) = Ahead(Used)
    BY <1>2, <1>9, <1>12, <2>1 DEF InUse, MQ!Claim
  <2>3. \A n \in 0 .. Cap - 1 : n < Used' <=> InUse(Ahead(n))'
    BY <2>2, <1>6, <1>7, <1>8, Around DEF InOrder, MQ!MPSCQAssumption
  <2>4. qhead' % Cap = Ahead(Used + 1)
    <3>1. qhead \in 0 .. Wrap - 1 /\ qhead' = (qhead + 1) % Wrap /\ qhead % Cap = Ahead(Used)
      BY DEF MQ!TypeOK, MQ!Claim, InOrder
    <3>2. qhead' % Cap = IF Ahead(Used) = Cap - 1 THEN 0 ELSE Ahead(Used) + 1
      BY <3>1, NextSlot
    <3>3. Used \in 0 .. Cap - 1
      BY <1>6, <1>8 DEF MQ!MPSCQAssumption
    <3> QED BY <3>2, <3>3, Around
  <2> QED BY <2>1, <2>3, <2>4, <1>7 DEF InOrder
<1>14. MQ!SlotsFree'
  <2>1. qbuffer' = qbuffer /\ ~qaborted' /\ qbuffer[Ahead(Used)] = NULL
    BY <1>11 DEF MQ!Claim, MQ!SlotsFree, InUse
  <2> QED BY <1>2, <1>9, <1>12, <2>1 DEF MQ!SlotsFree, Filling
<1>15. MQ!CountsAll'
  BY <1>5, QueueSizes DEF MQ!CountsAll, Busy, MQ!Claim
<1>16. Admitted'
  BY <1>4, <1>6, <1>7 DEF Admitted, MQ!Claim, QueueOne, MQ!MPSCQAssumption
<1>17. Earlier'
  BY <1>2, <1>3, <1>4, <1>5 DEF Earlier, MQ!Claim
<1>18. TypeOfRest'
  BY <1>1, NextSlot, QueueSizes DEF MQ!TypeOK, TypeOfRest, MQ!Claim, MQ!Goto
<1>19. MQ!TypeOK'
  BY <1>15, <1>16, <1>18, TypeOfCount
<1> QED BY <1>2, <1>3, <1>7, <1>8, <1>9, <1>12, <1>13, <1>14, <1>15, <1>16, <1>17, <1>19

LEMMA CheckKeeps ==
  ASSUME MQ!MPSCQAssumption, QueueIInv, NEW p \in Threads, MQ!Check(p)
  PROVE  QueueIInv' /\ Filling' = Filling
<1> USE DEF QueueIInv
<1>1. MQ!Goto(p, "check", "store")
  BY DEF MQ!Check
<1>2. p \in Filling /\ p \in Busy /\ p \notin Claiming
  BY <1>1 DEF MQ!Goto, Filling, Busy, Claiming, MQ!At
<1>3. Filling' = Filling /\ Busy' = Busy /\ Claiming' = Claiming
  <2>1. Filling' = Filling \cup {p} /\ Busy' = Busy \cup {p} /\ Claiming' = Claiming \ {p}
    BY <1>1, Moves DEF Filling, Busy, Claiming
  <2> QED BY <1>2, <2>1
<1>4. ~qaborted'
  BY <1>2 DEF MQ!Check, MQ!SlotsFree, Filling
<1>5. Used' = Used /\ MQ!Filled' = MQ!Filled /\ InOrder' /\ MQ!SlotsFree'
  BY <1>3, <1>4, SlotsKept DEF MQ!Check
<1>6. MQ!CountsAll'
  BY <1>3, <1>5, QueueSizes DEF MQ!CountsAll, Busy, MQ!Check
<1>7. Admitted'
  BY <1>3, <1>5 DEF Admitted, MQ!Check
<1>8. Earlier'
  BY <1>3 DEF Earlier, MQ!Check
<1>9. TypeOfRest'
  BY <1>1, QueueSizes DEF MQ!TypeOK, TypeOfRest, MQ!Check, MQ!Goto
<1>10. MQ!TypeOK'
  BY <1>6, <1>7, <1>9, TypeOfCount
<1> QED BY <1>3, <1>5, <1>6, <1>7, <1>8, <1>10

LEMMA StoreKeeps ==
  ASSUME MQ!MPSCQAssumption, QueueIInv, NEW p \in Threads, MQ!Store(p)
  PROVE  /\ QueueIInv' /\ Filling' = Filling \ {p} /\ p \in Filling
         /\ Used' = Used
         /\ <<p, qnputs[p]>> \in MQ!Items
         /\ \A q \in Filling : MQ!Slot(q)' = MQ!Slot(q)
<1> USE DEF QueueIInv
<1>1. MQ!Goto(p, "store", "idle")
  BY DEF MQ!Store
<1>2. p \in Filling /\ p \in Busy /\ p \notin Claiming
  BY <1>1 DEF MQ!Goto, Filling, Busy, Claiming, MQ!At
<1>3. Filling' = Filling \ {p} /\ Cardinality(Filling') = Cardinality(Filling) - 1
  BY <1>1, Moves, Counts DEF Filling, QueueOne
<1>4. Busy' = Busy \ {p} /\ Cardinality(Busy') = Cardinality(Busy) - 1
  BY <1>1, Moves, Counts DEF Busy, QueueOne
<1>5. Claiming' = Claiming
  BY <1>1, Moves DEF Claiming
<1>6. MQ!Slot(p) \in MQ!Slots /\ qbuffer[MQ!Slot(p)] = NULL
  <2>1. qmine[p] \in 0 .. Wrap - 1
    BY DEF MQ!TypeOK
  <2> QED BY <1>2, <2>1, NextSlot DEF MQ!Slot, MQ!SlotsFree, Filling
<1>7. <<p, qnputs[p]>> \in MQ!Items /\ NULL \notin MQ!Items
  BY <1>2 DEF MQ!Items, Earlier, MQ!TypeOK, MQ!MPSCQAssumption
<1>8. qbuffer' = [qbuffer EXCEPT ![MQ!Slot(p)] = <<p, qnputs[p]>>] /\ qbuffer \in [MQ!Slots -> MQ!Items \cup {NULL}]
  BY DEF MQ!Store, MQ!TypeOK
<1>9. MQ!Filled' = MQ!Filled \cup {MQ!Slot(p)} /\ Cardinality(MQ!Filled') = Cardinality(MQ!Filled) + 1
  <2>1. MQ!Filled' = MQ!Filled \cup {MQ!Slot(p)} /\ MQ!Slot(p) \notin MQ!Filled
    BY <1>6, <1>7, <1>8 DEF MQ!Filled
  <2>2. Cardinality(MQ!Filled \cup {MQ!Slot(p)}) = Cardinality(MQ!Filled) + 1
    BY <2>1, Counts, FS_AddElement
  <2> QED BY <2>1, <2>2
<1>10. /\ Cardinality(MQ!Filled) \in Nat /\ Cardinality(Filling) \in Nat /\ Cardinality(Busy) \in Nat
       /\ Used = Cardinality(MQ!Filled) + Cardinality(Filling)
  BY Counts DEF Filling, Busy, Used
<1>11. Used' = Used
  BY <1>3, <1>9, <1>10 DEF Used
<1>12. \A q : MQ!Slot(q)' = MQ!Slot(q)
  BY DEF MQ!Slot, MQ!Store
<1>13. InOrder'
  <2>1. \A n : Ahead(n)' = Ahead(n)
    BY DEF Ahead, MQ!Store
  <2>2. \A s \in MQ!Slots : InUse(s)' <=> InUse(s)
    BY <1>2, <1>3, <1>6, <1>7, <1>8, <1>12 DEF InUse
  <2>3. \A n \in 0 .. Cap - 1 : InUse(Ahead(n))' <=> InUse(Ahead(n))
    BY <2>1, <2>2, Around DEF MQ!MPSCQAssumption
  <2>4. qhead' = qhead
    BY DEF MQ!Store
  <2> QED BY <1>11, <2>1, <2>3, <2>4 DEF InOrder
<1>14. MQ!SlotsFree'
  <2>1. ~qaborted'
    BY <1>6 DEF MQ!Store
  <2>2. \A q \in Filling' : MQ!Slot(q) # MQ!Slot(p)
    BY <1>2, <1>3 DEF MQ!SlotsFree, Filling
  <2>3. \A q \in Filling' : qbuffer'[MQ!Slot(q)] = qbuffer[MQ!Slot(q)]
    BY <2>2, <1>8
  <2> QED BY <1>3, <1>12, <2>1, <2>3 DEF MQ!SlotsFree, Filling
<1>15. MQ!CountsAll'
  <2>1. qcount = Cardinality(MQ!Filled) + Cardinality(Busy) + QueueOne(qtook)
    BY QueueSizes DEF MQ!CountsAll, Busy, QueueOne
  <2>2. qcount' = Cardinality(MQ!Filled') + Cardinality(Busy') + QueueOne(qtook')
    BY <2>1, <1>4, <1>9, <1>10 DEF MQ!Store, QueueOne
  <2> QED BY <2>2, QueueSizes DEF MQ!CountsAll, Busy, QueueOne
<1>16. Admitted'
  BY <1>5, <1>11 DEF Admitted, MQ!Store
<1>17. Earlier'
  <2>1. qnputs' = qnputs
    BY DEF MQ!Store
  <2>2. \A q \in Threads, k \in 1 .. MaxPuts : <<q, k>> = <<p, qnputs[p]>> => q = p /\ k = qnputs[p]
    OBVIOUS
  <2>3. p \notin Claiming' \cup Filling'
    BY <1>2, <1>3, <1>5
  <2> QED BY <1>3, <1>4, <1>5, <1>8, <2>1, <2>2, <2>3 DEF Earlier, MQ!TypeOK
<1>18. TypeOfRest'
  BY <1>1, <1>6, <1>7, <1>8, QueueSizes DEF MQ!TypeOK, TypeOfRest, MQ!Store, MQ!Goto
<1>19. MQ!TypeOK'
  BY <1>15, <1>16, <1>18, TypeOfCount
<1> QED BY <1>2, <1>3, <1>7, <1>11, <1>12, <1>13, <1>14, <1>15, <1>16, <1>17, <1>19

LEMMA TakeKeeps ==
  ASSUME MQ!MPSCQAssumption, QueueIInv, MQ!Take
  PROVE  /\ QueueIInv' /\ Filling' = Filling
         /\ Used' = Used - 1 /\ Used \in 1 .. Cap
         /\ Ahead(0) = qtail
         /\ \A n \in 0 .. Used - 2 : Ahead(n)' = Ahead(n + 1) /\ Ahead(n + 1) # qtail
         /\ \A q \in Filling : MQ!Slot(q)' = MQ!Slot(q) /\ MQ!Slot(q) # qtail
<1> USE DEF QueueIInv
<1>1. /\ qbuffer' = [qbuffer EXCEPT ![qtail] = NULL] /\ qbuffer \in [MQ!Slots -> MQ!Items \cup {NULL}]
      /\ qbuffer[qtail] # NULL /\ qtail \in MQ!Slots /\ qpc' = qpc /\ qmine' = qmine /\ qnputs' = qnputs
      /\ Cap \in Nat /\ Cap > 1
  BY DEF MQ!Take, MQ!TypeOK, MQ!MPSCQAssumption
<1>2. Filling' = Filling /\ Claiming' = Claiming /\ Busy' = Busy
  BY <1>1 DEF Filling, Claiming, Busy, MQ!At
<1>3. Cardinality(MQ!Filled') = Cardinality(MQ!Filled) - 1 /\ Cardinality(MQ!Filled) \in Nat \ {0}
  <2>1. MQ!Filled' = MQ!Filled \ {qtail} /\ qtail \in MQ!Filled
    BY <1>1 DEF MQ!Filled
  <2>2. Cardinality(MQ!Filled \ {qtail}) = Cardinality(MQ!Filled) - 1
    BY <2>1, Counts, FS_RemoveElement
  <2>3. Cardinality(MQ!Filled \ {qtail}) \in Nat /\ Cardinality(MQ!Filled) \in Nat
    BY Counts, FS_RemoveElement, FS_CardinalityType
  <2> QED BY <2>1, <2>2, <2>3
<1>4. Cardinality(Filling) \in Nat /\ Cardinality(Claiming) \in Nat /\ Cardinality(Busy) \in Nat
  BY Counts DEF Filling, Claiming, Busy
<1>5. Used' = Used - 1 /\ Used \in 1 .. Cap
  BY <1>2, <1>3, <1>4, <1>1 DEF Used, Admitted, QueueOne
<1>6. Ahead(0) = qtail
  BY <1>1 DEF Ahead, MQ!Slots
<1>7. \A q : MQ!Slot(q)' = MQ!Slot(q)
  BY <1>1 DEF MQ!Slot
<1>8. \A q \in Filling : MQ!Slot(q) # qtail
  BY <1>1 DEF MQ!SlotsFree, Filling
<1>9. qtail' = Ahead(1) /\ qtail' \in MQ!Slots
  BY <1>1 DEF MQ!Take, Ahead, MQ!Slots
<1>10. /\ \A n \in 0 .. Cap - 2 : Ahead(n)' = Ahead(n + 1) /\ Ahead(n + 1) # qtail
       /\ Ahead(Cap - 1)' = qtail
  BY <1>1, <1>9 DEF Ahead, MQ!Slots
<1>11. InOrder'
  <2>1. \A s \in MQ!Slots : InUse(s)' <=> InUse(s) /\ s # qtail
    BY <1>1, <1>2, <1>7, <1>8 DEF InUse
  <2>2. \A n \in 0 .. Cap - 1 : n < Used' <=> InUse(Ahead(n))'
    <3> TAKE n \in 0 .. Cap - 1
    <3>1. CASE n = Cap - 1
      <4>1. PICK s \in MQ!Slots : s = qtail
        BY <1>1
      <4>2. ~InUse(s)'
        BY <4>1, <2>1
      <4>3. InUse(Ahead(n))' <=> InUse(s)'
        BY <3>1, <4>1, <1>10 DEF InUse
      <4>4. ~(n < Used')
        BY <3>1, <1>1, <1>5
      <4> QED BY <4>2, <4>3, <4>4
    <3>2. CASE n \in 0 .. Cap - 2
      <4>1. n + 1 \in 0 .. Cap - 1 /\ Ahead(n + 1) \in MQ!Slots /\ Ahead(n + 1) # qtail /\ Ahead(n)' = Ahead(n + 1)
        BY <3>2, <1>1, <1>10, Around
      <4>2. n + 1 < Used <=> InUse(Ahead(n + 1))
        BY <4>1 DEF InOrder
      <4>3. InUse(Ahead(n))' <=> InUse(Ahead(n + 1))
        BY <4>1, <2>1, <1>2, <1>7 DEF InUse
      <4> QED BY <4>1, <4>2, <4>3, <1>5
    <3> QED BY <3>1, <3>2, <1>1
  <2>3. qhead' % Cap = Ahead(Used)'
    <3> DEFINE u == Used
               v == Used'
    <3>1. qhead' % Cap = IF qtail + u < Cap THEN qtail + u ELSE qtail + u - Cap
      BY DEF MQ!Take, InOrder, Ahead
    <3>2. qtail' = (IF qtail + 1 >= Cap THEN 0 ELSE qtail + 1) /\ v = u - 1 /\ u \in 1 .. Cap
      BY <1>5 DEF MQ!Take
    <3>3. Ahead(Used)' = IF qtail' + v < Cap THEN qtail' + v ELSE qtail' + v - Cap
      BY DEF Ahead
    <3>4. qtail \in 0 .. Cap - 1
      BY <1>1 DEF MQ!Slots
    <3> HIDE DEF u, v
    <3> QED BY <3>1, <3>2, <3>3, <3>4, <1>1
  <2> QED BY <2>2, <2>3, <1>5 DEF InOrder
<1>12. MQ!SlotsFree'
  BY <1>1, <1>2, <1>7, <1>8 DEF MQ!SlotsFree, Filling, MQ!Take
<1>13. MQ!CountsAll'
  <2>1. qcount = Cardinality(MQ!Filled) + Cardinality(Busy) + 0
    BY QueueSizes DEF MQ!CountsAll, Busy, MQ!Take
  <2>2. qcount' = Cardinality(MQ!Filled') + Cardinality(Busy') + 1
    BY <2>1, <1>2, <1>3, <1>4 DEF MQ!Take
  <2> QED BY <2>2, QueueSizes DEF MQ!CountsAll, Busy, MQ!Take
<1>14. Admitted'
  BY <1>1, <1>2, <1>4, <1>5 DEF Admitted, MQ!Take, QueueOne
<1>15. Earlier'
  <2>1. \A s \in MQ!Slots : qbuffer'[s] = qbuffer[s] \/ qbuffer'[s] = NULL
    BY <1>1
  <2>2. \A q \in Threads, k \in 1 .. MaxPuts : NULL # <<q, k>>
    BY DEF MQ!MPSCQAssumption
  <2> QED BY <1>1, <1>2, <2>1, <2>2 DEF Earlier
<1>16. TypeOfRest'
  BY <1>1, <1>9, QueueSizes DEF MQ!TypeOK, TypeOfRest, MQ!Take
<1>17. MQ!TypeOK'
  BY <1>13, <1>14, <1>16, TypeOfCount
<1>18. \A n \in 0 .. Used - 2 : n \in 0 .. Cap - 2
  BY <1>1, <1>5
<1> QED BY <1>2, <1>5, <1>6, <1>7, <1>8, <1>10, <1>11, <1>12, <1>13, <1>14, <1>15, <1>17, <1>18

LEMMA TakenKeeps ==
  ASSUME MQ!MPSCQAssumption, QueueIInv, MQ!Taken
  PROVE  QueueIInv' /\ Filling' = Filling
<1> USE DEF QueueIInv
<1>1. Filling' = Filling /\ Claiming' = Claiming /\ Busy' = Busy
  BY DEF MQ!Taken, Filling, Claiming, Busy, MQ!At
<1>2. /\ Cardinality(MQ!Filled) \in Nat /\ Cardinality(Busy) \in Nat
      /\ Cardinality(Claiming) \in Nat /\ Used \in Nat
  BY Counts DEF Busy, Claiming
<1>3. qcount = Cardinality(MQ!Filled) + Cardinality(Busy) + 1
  BY QueueSizes DEF MQ!CountsAll, Busy, MQ!Taken
<1>4. ~qaborted'
  <2>1. ~(qcount <= 0)
    BY <1>2, <1>3
  <2>2. qaborted' = (qcount <= 0)
    BY DEF MQ!Taken
  <2> QED BY <2>1, <2>2, Zenon
<1>5. Used' = Used /\ MQ!Filled' = MQ!Filled /\ InOrder' /\ MQ!SlotsFree'
  BY <1>1, <1>4, SlotsKept DEF MQ!Taken
<1>6. MQ!CountsAll'
  <2>1. qcount' = Cardinality(MQ!Filled') + Cardinality(Busy') + 0
    BY <1>1, <1>2, <1>3, <1>5 DEF MQ!Taken
  <2> QED BY <2>1, QueueSizes DEF MQ!CountsAll, Busy, MQ!Taken
<1>7. Admitted'
  BY <1>1, <1>2, <1>5 DEF Admitted, MQ!Taken, QueueOne, MQ!MPSCQAssumption
<1>8. Earlier'
  BY <1>1 DEF Earlier, MQ!Taken
<1>9. TypeOfRest'
  <2>1. qaborted' \in BOOLEAN
    BY DEF MQ!Taken
  <2> QED BY <2>1, QueueSizes DEF MQ!TypeOK, TypeOfRest, MQ!Taken
<1>10. MQ!TypeOK'
  BY <1>6, <1>7, <1>9, TypeOfCount
<1> QED BY <1>1, <1>5, <1>6, <1>7, <1>8, <1>10

LEMMA QueueNext ==
  ASSUME MQ!MPSCQAssumption, QueueIInv, [MQ!Next]_(MQ!vars)
  PROVE  QueueIInv'
<1>1. ASSUME NEW p \in Threads, MQ!Enqueue(p) PROVE QueueIInv'
  BY <1>1, EnqueueKeeps
<1>2. ASSUME NEW p \in Threads, MQ!Produce(p) PROVE QueueIInv'
  BY <1>2, UndoKeeps, ClaimKeeps, CheckKeeps, StoreKeeps DEF MQ!Produce
<1>3. CASE MQ!Consume
  BY <1>3, TakeKeeps, TakenKeeps DEF MQ!Consume
<1>4. CASE UNCHANGED MQ!vars
  BY <1>4, QueueSizes DEF MQ!vars, QueueIInv, MQ!TypeOK, MQ!CountsAll, MQ!SlotsFree, InOrder, Admitted, Earlier, Used, MQ!Filled,
              Filling, Claiming, Busy, MQ!At, InUse, Ahead, MQ!Slot
<1> QED BY <1>1, <1>2, <1>3, <1>4 DEF MQ!Next

\* The inductive invariant holds.
THEOREM QueueInvariance == ASSUME MQ!MPSCQAssumption PROVE MQ!Spec => []QueueIInv
<1>1. MQ!Init => QueueIInv
  BY QueueInit
<1>2. QueueIInv /\ [MQ!Next]_(MQ!vars) => QueueIInv'
  BY QueueNext
<1> QED BY <1>1, <1>2, PTL DEF MQ!Spec

\* MPSCQueueEnqueue and MPSCQueueDequeue: count is what it should count, and no assertion of
\* mpscq.c fails, whatever the producers do at once.
THEOREM CountersAgree == ASSUME MQ!MPSCQAssumption PROVE MQ!Spec => []MQ!QueueInv
<1>1. QueueIInv => MQ!QueueInv
  BY DEF QueueIInv, MQ!QueueInv
<1> QED BY <1>1, QueueInvariance, PTL

-----------------------------------------------------------------------------
(* The queue is first in, first out.                                       *)

\* What is at a place: an item, or the item a producer is about to store.
Place(s) ==
  IF qbuffer[s] # NULL
    THEN [item |-> qbuffer[s], filled |-> TRUE]
    ELSE [item |-> <<MQ!Late(s), qnputs[MQ!Late(s)]>>, filled |-> FALSE]

LEMMA PlacesAre ==
  ASSUME MQ!MPSCQAssumption, QueueIInv
  PROVE  /\ Used \in 0 .. Cap
         /\ MQ!Places = [n \in 1 .. Used |-> Place(Ahead(n - 1))]
         /\ Len(MQ!Places) = Used /\ DOMAIN MQ!Places = 1 .. Used
         /\ \A n \in 1 .. Used : Ahead(n - 1) \in MQ!Slots /\ InUse(Ahead(n - 1))
         /\ \A p \in Filling : MQ!Late(MQ!Slot(p)) = p
<1>1. Used \in 0 .. Cap
  <2>1. Used \in Nat /\ Cardinality(Claiming) \in Nat
    BY Counts DEF Claiming
  <2> QED BY <2>1 DEF QueueIInv, Admitted, QueueOne, MQ!MPSCQAssumption
<1>2. \A n \in 1 .. Used : (qtail + n - 1) % Cap = Ahead(n - 1)
  <2>1. \A n \in 1 .. Used : n \in 1 .. Cap
    BY <1>1 DEF MQ!MPSCQAssumption
  <2> QED BY <2>1, Around DEF QueueIInv
<1>3. MQ!Places = [n \in 1 .. Used |-> Place(Ahead(n - 1))]
  BY <1>2, QueueSizes DEF MQ!Places, Place, Used, Filling
<1>4. \A n \in 1 .. Used : Ahead(n - 1) \in MQ!Slots /\ InUse(Ahead(n - 1))
  <2> TAKE n \in 1 .. Used
  <2>1. n - 1 \in 0 .. Cap - 1 /\ n - 1 < Used
    BY <1>1 DEF MQ!MPSCQAssumption
  <2> QED BY <2>1, Around DEF QueueIInv, InOrder, MQ!MPSCQAssumption
<1>5. \A p \in Filling : MQ!Late(MQ!Slot(p)) = p
  BY DEF MQ!Late, QueueIInv, MQ!SlotsFree, Filling
<1> QED BY <1>1, <1>3, <1>4, <1>5

LEMMA PlacesNext ==
  ASSUME MQ!MPSCQAssumption, QueueIInv', Used' \in 0 .. Cap
  PROVE  MQ!Places' = [n \in 1 .. Used' |-> Place(Ahead(n - 1))']
<1>1. Cap \in Nat /\ Cap > 1 /\ qtail' \in 0 .. Cap - 1
  BY DEF MQ!MPSCQAssumption, QueueIInv, MQ!TypeOK, MQ!Slots
<1>2. \A n \in 1 .. Cap : (qtail' + n - 1) % Cap = Ahead(n - 1)'
  <2> TAKE n \in 1 .. Cap
  <2>1. PICK t \in 0 .. Cap - 1 : t = qtail'
    BY <1>1
  <2>2. (t + n - 1) % Cap = IF t + (n - 1) < Cap THEN t + (n - 1) ELSE t + (n - 1) - Cap
    BY <1>1
  <2> QED BY <2>1, <2>2 DEF Ahead
<1>3. \A n \in 1 .. Used' : n \in 1 .. Cap
  BY <1>1
<1> QED BY <1>2, <1>3, QueueSizes DEF MQ!Places, Place, Used, Filling

\* A place stays the same while its slot, and the producer that is late, do.
LEMMA PlaceKept ==
  ASSUME MQ!MPSCQAssumption, QueueIInv, QueueIInv', NEW s \in MQ!Slots, InUse(s), qbuffer'[s] = qbuffer[s],
         \A p \in Filling : MQ!Slot(p) = s => p \in Filling' /\ MQ!Slot(p)' = s /\ qnputs'[p] = qnputs[p]
  PROVE  Place(s)' = Place(s)
<1>1. CASE qbuffer[s] # NULL
  BY <1>1 DEF Place
<1>2. CASE qbuffer[s] = NULL
  <2>1. PICK p \in Filling : MQ!Slot(p) = s
    BY <1>2 DEF InUse
  <2>2. MQ!Late(s) = p
    BY <2>1, PlacesAre
  <2>3. MQ!Late(s)' = p
    BY <2>1 DEF MQ!Late, QueueIInv, MQ!SlotsFree, Filling
  <2> QED BY <1>2, <2>1, <2>2, <2>3 DEF Place
<1> QED BY <1>1, <1>2


\* A step that keeps the slots, and the producers that have one, keeps the places.
LEMMA PlacesKept ==
  ASSUME MQ!MPSCQAssumption, QueueIInv, QueueIInv', Filling' = Filling, UNCHANGED <<qtail, qbuffer>>,
         \A p \in Filling : MQ!Slot(p)' = MQ!Slot(p) /\ qnputs'[p] = qnputs[p]
  PROVE  MQ!Places' = MQ!Places
<1>1. MQ!Filled' = MQ!Filled /\ Used' = Used
  BY DEF Used, MQ!Filled
<1>2. \A n : Ahead(n)' = Ahead(n)
  BY DEF Ahead
<1>3. \A n \in 1 .. Used : Place(Ahead(n - 1))' = Place(Ahead(n - 1))
  <2> TAKE n \in 1 .. Used
  <2>1. PICK s \in MQ!Slots : s = Ahead(n - 1) /\ InUse(s)
    BY PlacesAre
  <2>2. Place(s)' = Place(s)
    BY <2>1, PlaceKept
  <2>3. Place(Ahead(n - 1))' = Place(s)'
    BY <2>1, <1>2 DEF Place, MQ!Late
  <2> QED BY <2>1, <2>2, <2>3
<1>4. MQ!Places' = [n \in 1 .. Used' |-> Place(Ahead(n - 1))']
  BY <1>1, PlacesAre, PlacesNext
<1>5. MQ!Places = [n \in 1 .. Used |-> Place(Ahead(n - 1))]
  BY PlacesAre
<1> QED BY <1>1, <1>3, <1>4, <1>5

\* A sequence that is one longer than s and agrees with it is s with an item appended.
LEMMA Appended ==
  ASSUME NEW n \in Nat, NEW e, NEW s, NEW t,
         s = [k \in 1 .. n |-> s[k]], t = [k \in 1 .. n + 1 |-> t[k]],
         \A k \in 1 .. n : t[k] = s[k], t[n + 1] = e
  PROVE  t = Append(s, e)
<1> DEFINE Both == {s[k] : k \in 1 .. n} \cup {e}
<1>1. s \in Seq(Both) /\ e \in Both /\ Len(s) = n
  OBVIOUS
<1> HIDE DEF Both
<1>2. /\ Append(s, e) \in Seq(Both) /\ Len(Append(s, e)) = n + 1
      /\ \A k \in 1 .. n : Append(s, e)[k] = s[k]
      /\ Append(s, e)[n + 1] = e
  BY <1>1
<1>3. Append(s, e) = [k \in 1 .. n + 1 |-> Append(s, e)[k]]
  BY <1>2
<1>4. \A k \in 1 .. n + 1 : Append(s, e)[k] = t[k]
  <2> TAKE k \in 1 .. n + 1
  <2>1. k \in 1 .. n \/ k = n + 1
    OBVIOUS
  <2> QED
    BY ONLY <2>1, <1>2, \A i \in 1 .. n : t[i] = s[i], t[n + 1] = e
<1>5. [k \in 1 .. n + 1 |-> Append(s, e)[k]] = [k \in 1 .. n + 1 |-> t[k]]
  BY ONLY <1>4
<1> QED
  BY ONLY <1>3, <1>5, t = [k \in 1 .. n + 1 |-> t[k]]

\* A producer that is admitted reserves the place after the last, for a new item.
LEMMA ClaimReserves ==
  ASSUME MQ!MPSCQAssumption, QueueIInv, QueueIInv', NEW p \in Threads, MQ!Claim(p)
  PROVE  MQ!Q!Reserve(<<p, qnputs[p]>>) /\ <<p, qnputs[p]>> \in MQ!Items
<1>1. /\ Filling' = Filling \cup {p} /\ p \notin Filling
      /\ Used' = Used + 1 /\ Used < Cap /\ MQ!Slot(p)' = Ahead(Used)
      /\ \A q \in Filling : MQ!Slot(q)' = MQ!Slot(q) /\ MQ!Slot(q) # Ahead(Used)
  BY ClaimKeeps
<1>2. /\ Used \in 0 .. Cap - 1 /\ Used' \in 0 .. Cap
      /\ MQ!Places = [n \in 1 .. Used |-> Place(Ahead(n - 1))]
      /\ Len(MQ!Places) = Used /\ DOMAIN MQ!Places = 1 .. Used
  BY <1>1, PlacesAre DEF MQ!MPSCQAssumption
<1>3. MQ!Places' = [n \in 1 .. Used' |-> Place(Ahead(n - 1))']
  BY <1>2, PlacesNext
<1>4. \A n : Ahead(n)' = Ahead(n)
  BY DEF MQ!Claim, Ahead
<1>5. p \in Claiming /\ p \in Busy /\ qbuffer' = qbuffer /\ qnputs' = qnputs /\ qret' = qret
  BY DEF MQ!Claim, MQ!Goto, Claiming, Busy, MQ!At
<1>6. <<p, qnputs[p]>> \in MQ!Items
  BY <1>5 DEF QueueIInv, Earlier, MQ!Items, MQ!TypeOK
<1>7. ASSUME NEW n \in 1 .. Used PROVE MQ!Places'[n] = MQ!Places[n] /\ MQ!Places[n].item # <<p, qnputs[p]>>
  <2>1. PICK s \in MQ!Slots : s = Ahead(n - 1) /\ InUse(s)
    BY PlacesAre
  <2>2. Place(s)' = Place(s)
    BY <2>1, <1>1, <1>5, PlaceKept
  <2>3. Place(Ahead(n - 1))' = Place(s)'
    BY <2>1, <1>4 DEF Place, MQ!Late
  <2>4. Place(s).item # <<p, qnputs[p]>>
    <3>1. CASE qbuffer[s] # NULL
      BY <3>1, <1>5, <1>6 DEF Place, QueueIInv, Earlier, MQ!Items, MQ!TypeOK
    <3>2. CASE qbuffer[s] = NULL
      <4>1. PICK q \in Filling : MQ!Slot(q) = s /\ MQ!Late(s) = q
        BY <2>1, <3>2, PlacesAre DEF InUse
      <4> QED BY <4>1, <3>2, <1>1 DEF Place
    <3> QED BY <3>1, <3>2
  <2>5. n \in 1 .. Used'
    BY <1>1, <1>2
  <2> QED BY <2>1, <2>2, <2>3, <2>4, <2>5, <1>2, <1>3
<1>8. MQ!Places'[Used + 1] = [item |-> <<p, qnputs[p]>>, filled |-> FALSE]
  <2>1. PICK n \in 1 .. Cap : n = Used + 1
    BY <1>2 DEF MQ!MPSCQAssumption
  <2>2. PICK s \in MQ!Slots : s = Ahead(n - 1)
    BY <2>1, <1>2, Around DEF QueueIInv, MQ!MPSCQAssumption
  <2>3. n - 1 = Used
    BY <2>1, <1>2
  <2>4. qbuffer[s] = NULL
    <3>1. ~InUse(Ahead(n - 1))
      BY <1>2, <2>3 DEF QueueIInv, InOrder
    <3> QED BY <2>2, <3>1 DEF InUse
  <2>5. MQ!Late(s)' = p
    BY <2>2, <2>3, <1>1 DEF MQ!Late, QueueIInv, MQ!SlotsFree, Filling
  <2>6. Place(s)' = [item |-> <<p, qnputs[p]>>, filled |-> FALSE]
    BY <2>4, <2>5, <1>5 DEF Place
  <2>7. MQ!Places'[n] = Place(Ahead(n - 1))'
    BY <1>1, <1>3, <2>1
  <2>8. Place(Ahead(n - 1))' = Place(s)'
    BY <2>2, <1>4 DEF Place, MQ!Late
  <2> QED BY <2>1, <2>6, <2>7, <2>8
<1>9. MQ!Places' = Append(MQ!Places, [item |-> <<p, qnputs[p]>>, filled |-> FALSE])
  <2>1. MQ!Places' = [n \in 1 .. Used + 1 |-> MQ!Places'[n]]
    BY <1>1, <1>3
  <2>2. MQ!Places = [n \in 1 .. Used |-> MQ!Places[n]]
    BY <1>2
  <2>3. \A n \in 1 .. Used : MQ!Places'[n] = MQ!Places[n]
    BY <1>7
  <2>4. Used \in Nat
    BY <1>2
  <2> QED BY ONLY <2>1, <2>2, <2>3, <2>4, <1>8, Appended
<1> QED BY <1>1, <1>2, <1>5, <1>6, <1>7, <1>9 DEF MQ!Q!Reserve

\* The store fills the place that the producer has.
LEMMA StoreFills ==
  ASSUME MQ!MPSCQAssumption, QueueIInv, QueueIInv', NEW p \in Threads, MQ!Store(p)
  PROVE  \E n \in DOMAIN MQ!Places : MQ!Q!Fill(n)
<1>1. /\ Filling' = Filling \ {p} /\ p \in Filling /\ Used' = Used
      /\ <<p, qnputs[p]>> \in MQ!Items
      /\ \A q \in Filling : MQ!Slot(q)' = MQ!Slot(q)
  BY StoreKeeps
<1>2. /\ Used \in 0 .. Cap
      /\ MQ!Places = [n \in 1 .. Used |-> Place(Ahead(n - 1))] /\ DOMAIN MQ!Places = 1 .. Used
      /\ \A q \in Filling : MQ!Late(MQ!Slot(q)) = q
  BY PlacesAre
<1>3. MQ!Places' = [n \in 1 .. Used |-> Place(Ahead(n - 1))']
  BY <1>1, <1>2, PlacesNext
<1>4. \A n : Ahead(n)' = Ahead(n)
  BY DEF MQ!Store, Ahead
<1>5. MQ!Slot(p) \in MQ!Slots /\ InUse(MQ!Slot(p)) /\ qbuffer[MQ!Slot(p)] = NULL
  <2>1. qmine[p] \in 0 .. Wrap - 1
    BY DEF QueueIInv, MQ!TypeOK
  <2> QED BY <1>1, <2>1, NextSlot DEF MQ!Slot, QueueIInv, MQ!SlotsFree, Filling, InUse
<1>6. /\ qbuffer' = [qbuffer EXCEPT ![MQ!Slot(p)] = <<p, qnputs[p]>>] /\ qnputs' = qnputs /\ qret' = qret
      /\ qbuffer \in [MQ!Slots -> MQ!Items \cup {NULL}] /\ NULL \notin MQ!Items
  BY DEF MQ!Store, QueueIInv, MQ!TypeOK, MQ!Items, MQ!MPSCQAssumption
<1>7. PICK n \in 1 .. Used : Ahead(n - 1) = MQ!Slot(p)
  <2>1. PICK m \in 0 .. Cap - 1 : Ahead(m) = MQ!Slot(p)
    BY <1>5, Around DEF QueueIInv
  <2>2. m < Used
    BY <2>1, <1>5 DEF QueueIInv, InOrder
  <2>3. m + 1 \in 1 .. Used /\ (m + 1) - 1 = m
    BY <2>2, <1>2
  <2> QED BY <2>1, <2>3
<1>8. MQ!Places[n] = [item |-> <<p, qnputs[p]>>, filled |-> FALSE]
  BY <1>1, <1>2, <1>5, <1>7 DEF Place
<1>9. MQ!Places'[n] = [item |-> <<p, qnputs[p]>>, filled |-> TRUE]
  <2>1. PICK s \in MQ!Slots : s = MQ!Slot(p)
    BY <1>5
  <2>2. Place(s)' = [item |-> <<p, qnputs[p]>>, filled |-> TRUE]
    BY <1>1, <1>6, <2>1 DEF Place
  <2>3. Place(Ahead(n - 1))' = Place(s)'
    BY <1>4, <1>7, <2>1 DEF Place, MQ!Late
  <2> QED BY <1>3, <2>2, <2>3
<1>10. ASSUME NEW m \in 1 .. Used, m # n PROVE MQ!Places'[m] = MQ!Places[m]
  <2>1. PICK s \in MQ!Slots : s = Ahead(m - 1) /\ InUse(s)
    BY PlacesAre
  <2>2. s # MQ!Slot(p)
    <3>1. m - 1 \in 0 .. Cap - 1 /\ n - 1 \in 0 .. Cap - 1 /\ m - 1 # n - 1
      BY <1>2, <1>10 DEF MQ!MPSCQAssumption
    <3> QED BY <2>1, <3>1, <1>7, Around DEF QueueIInv
  <2>3. Place(s)' = Place(s)
    BY <2>1, <2>2, <1>1, <1>6, PlaceKept
  <2>4. Place(Ahead(m - 1))' = Place(s)'
    BY <1>4, <2>1 DEF Place, MQ!Late
  <2> QED BY <1>2, <1>3, <2>1, <2>3, <2>4
<1>11. MQ!Places' = [MQ!Places EXCEPT ![n] = [item |-> MQ!Places[n].item, filled |-> TRUE]]
  <2>1. MQ!Places[n].item = <<p, qnputs[p]>>
    BY <1>8
  <2> QED BY <2>1, <1>2, <1>3, <1>9, <1>10
<1>12. ~MQ!Places[n].filled
  BY <1>8
<1> QED BY <1>2, <1>6, <1>11, <1>12 DEF MQ!Q!Fill

\* The consumer takes the item at the first place, when that is filled.
LEMMA TakeTakes ==
  ASSUME MQ!MPSCQAssumption, QueueIInv, QueueIInv', MQ!Take
  PROVE  MQ!Q!Take
<1>1. /\ Filling' = Filling
      /\ Used' = Used - 1 /\ Used \in 1 .. Cap
      /\ Ahead(0) = qtail
      /\ \A n \in 0 .. Used - 2 : Ahead(n)' = Ahead(n + 1) /\ Ahead(n + 1) # qtail
      /\ \A q \in Filling : MQ!Slot(q)' = MQ!Slot(q) /\ MQ!Slot(q) # qtail
  BY TakeKeeps
<1>2. /\ MQ!Places = [n \in 1 .. Used |-> Place(Ahead(n - 1))]
      /\ Len(MQ!Places) = Used /\ DOMAIN MQ!Places = 1 .. Used
  BY PlacesAre
<1>3. MQ!Places' = [n \in 1 .. Used' |-> Place(Ahead(n - 1))']
  <2>1. Used' \in 0 .. Cap
    BY <1>1 DEF MQ!MPSCQAssumption
  <2> QED BY <2>1, PlacesNext
<1>4. /\ qbuffer' = [qbuffer EXCEPT ![qtail] = NULL] /\ qbuffer \in [MQ!Slots -> MQ!Items \cup {NULL}]
      /\ qbuffer[qtail] # NULL /\ qret' = qbuffer[qtail] /\ qnputs' = qnputs
  BY DEF MQ!Take, QueueIInv, MQ!TypeOK
<1>5. MQ!Places[1] = [item |-> qbuffer[qtail], filled |-> TRUE]
  <2>1. MQ!Places[1] = Place(qtail)
    BY <1>1, <1>2
  <2> QED BY <2>1, <1>4 DEF Place
<1>6. ASSUME NEW n \in 1 .. Used - 1 PROVE MQ!Places'[n] = MQ!Places[n + 1]
  <2>1. n + 1 \in 1 .. Used /\ (n + 1) - 1 = (n - 1) + 1 /\ n - 1 \in 0 .. Used - 2
    BY <1>1
  <2>2. PICK s \in MQ!Slots : s = Ahead((n - 1) + 1) /\ InUse(s)
    BY <2>1, PlacesAre
  <2>3. s # qtail /\ Ahead(n - 1)' = s
    BY <2>1, <2>2, <1>1
  <2>4. Place(s)' = Place(s)
    BY <2>2, <2>3, <1>1, <1>4, PlaceKept
  <2>5. Place(Ahead(n - 1))' = Place(s)'
    BY <2>3 DEF Place, MQ!Late
  <2>6. MQ!Places'[n] = Place(Ahead(n - 1))'
    BY <1>1, <1>3
  <2>7. MQ!Places[n + 1] = Place(Ahead((n - 1) + 1))
    BY <1>2, <2>1
  <2> QED BY <2>2, <2>4, <2>5, <2>6, <2>7
<1>7. MQ!Places' = Tail(MQ!Places)
  BY <1>1, <1>2, <1>3, <1>6
<1> QED BY <1>1, <1>2, <1>4, <1>5, <1>7, SMTT(30) DEF MQ!Q!Take

\* Every step of the queue is one of a first-in first-out queue, or none.
LEMMA StepRefines ==
  ASSUME MQ!MPSCQAssumption, QueueIInv, QueueIInv', [MQ!Next]_(MQ!vars)
  PROVE  [MQ!Q!Next]_<<MQ!Places, qret>>
<1>1. ASSUME NEW p \in Threads, MQ!Enqueue(p) \/ MQ!Undo(p) \/ MQ!Check(p) PROVE UNCHANGED <<MQ!Places, qret>>
  <2>1. Filling' = Filling /\ UNCHANGED <<qtail, qbuffer, qmine, qret>>
    BY <1>1, EnqueueKeeps, UndoKeeps, CheckKeeps DEF MQ!Enqueue, MQ!Undo, MQ!Check
  <2>2. \A q \in Filling : qnputs'[q] = qnputs[q]
    <3>1. CASE MQ!Enqueue(p)
      BY <3>1 DEF MQ!Enqueue, MQ!Goto, Filling, MQ!At, QueueIInv, MQ!TypeOK
    <3>2. CASE MQ!Undo(p) \/ MQ!Check(p)
      BY <3>2 DEF MQ!Undo, MQ!Check
    <3> QED BY <1>1, <3>1, <3>2
  <2>3. \A q : MQ!Slot(q)' = MQ!Slot(q)
    BY <2>1 DEF MQ!Slot
  <2> QED BY <2>1, <2>2, <2>3, PlacesKept
<1>2. ASSUME NEW p \in Threads, MQ!Claim(p) PROVE MQ!Q!Next
  BY <1>2, ClaimReserves DEF MQ!Q!Next
<1>3. ASSUME NEW p \in Threads, MQ!Store(p) PROVE MQ!Q!Next
  BY <1>3, StoreFills DEF MQ!Q!Next
<1>4. CASE MQ!Take
  BY <1>4, TakeTakes DEF MQ!Q!Next
<1>5. CASE MQ!Taken \/ UNCHANGED MQ!vars
  <2>1. UNCHANGED <<qtail, qbuffer, qpc, qmine, qnputs, qret>>
    BY <1>5 DEF MQ!Taken, MQ!vars
  <2>2. Filling' = Filling /\ \A q : MQ!Slot(q)' = MQ!Slot(q)
    BY <2>1 DEF Filling, MQ!At, MQ!Slot
  <2> QED BY <2>1, <2>2, PlacesKept
<1> QED BY <1>1, <1>2, <1>3, <1>4, <1>5 DEF MQ!Next, MQ!Produce, MQ!Consume

\* MPSCQueueEnqueue and MPSCQueueDequeue implement a bounded queue, first in, first out: a
\* producer that is late keeps its place, and nothing behind it is received before it.
THEOREM QueueRefinement == ASSUME MQ!MPSCQAssumption PROVE MQ!Spec => MQ!IsQueue
<1>1. MQ!Init => MQ!Q!Init
  <2> SUFFICES ASSUME MQ!Init PROVE MQ!Q!Init
    OBVIOUS
  <2>1. MQ!Filled = {} /\ MQ!At({"check", "store"}) = {}
    BY DEF MQ!Init, MQ!Filled, MQ!At
  <2>2. Cardinality({}) = 0
    BY FS_EmptySet
  <2>3. MQ!Places = <<>>
    <3>1. Used = 0
      BY <2>1, <2>2 DEF Used, Filling
    <3>2. MQ!Places = [n \in 1 .. Used |-> Place(Ahead(n - 1))]
      BY QueueInit, PlacesAre
    <3> QED BY <3>1, <3>2
  <2> QED BY <2>3 DEF MQ!Init, MQ!Q!Init
<1>2. QueueIInv /\ QueueIInv' /\ [MQ!Next]_(MQ!vars) => [MQ!Q!Next]_<<MQ!Places, qret>>
  BY StepRefines
<1> QED BY <1>1, <1>2, QueueInvariance, PTL DEF MQ!Spec, MQ!IsQueue, MQ!Q!Spec

-----------------------------------------------------------------------------
(* A pool and a queue in one program, as MCLockFree has them.              *)

\* Every step of the two is a step of one and none of the other.
LEMMA Parts == MCSpec => Spec /\ MQ!Spec
<1>1. MCInit => Init /\ MQ!Init
  BY DEF MCInit
<1>2. [MCNext]_all => [Next]_vars
  BY DEF MCNext, OfPool, OfQueue, all
<1>3. [MCNext]_all => [MQ!Next]_(MQ!vars)
  BY DEF MCNext, OfPool, OfQueue, all, queue, MQ!vars
<1> QED BY <1>1, <1>2, <1>3, PTL DEF MCSpec, Spec, MQ!Spec

\* mpscq.c beside a pool that the same threads use: the counters of the queue agree with its
\* slots, and no assertion fails.
THEOREM CountersBesidePool == MCSpec => []QueueInv
BY Parts, QueueAssumption, CountersAgree, PTL DEF QueueInv

\* mpscq.c beside a pool that the same threads use: the queue is first in, first out.
THEOREM QueueBesidePool == MCSpec => IsQueue
BY Parts, QueueAssumption, QueueRefinement, PTL DEF IsQueue
=============================================================================
