-------------------------- MODULE SpinMutexesProofs --------------------------
(***************************************************************************)
(* Proofs about SpinMutexes, for any number of threads, any spin count and *)
(* any number of locks.                                                    *)
(***************************************************************************)
EXTENDS SpinMutexes, FiniteSetTheorems, TLAPS

\* The mutex's words, the spin counters and the labels keep their types.
LEMMA TypeCorrect == Spec => []TypeOK
<1>1. Init => TypeOK
  <2>1. Init => flag \in BOOLEAN /\ kind \in Kinds /\ reorder \in BOOLEAN
    BY DEF Init
  <2>2. Init => TypeOK!4 /\ TypeOK!5 /\ TypeOK!6 /\ TypeOK!7 /\ TypeOK!8
    BY SpinMutexAssumption, SMT DEF Init, TypeOK, Labels
  <2> QED
    BY <2>1, <2>2 DEF TypeOK
<1>2. TypeOK /\ [Next]_vars => TypeOK'
  <2> SUFFICES ASSUME TypeOK, [Next]_vars PROVE TypeOK'
    OBVIOUS
  <2>0. kind' \in Kinds /\ reorder' \in BOOLEAN
    BY DEF TypeOK, Next, Start, Step, vars
  <2> USE <2>0, SpinMutexAssumption DEF TypeOK, Goto, Labels
  <2>1. ASSUME NEW t \in Threads, Start(t) PROVE TypeOK'
    BY <2>1, SMT DEF Start
  <2>2. ASSUME NEW t \in Threads, FastLock(t) PROVE TypeOK'
    BY <2>2, SMT DEF FastLock
  <2>3. ASSUME NEW t \in Threads, Retry(t) PROVE TypeOK'
    BY <2>3, SMT DEF Retry
  <2>4. ASSUME NEW t \in Threads, SpinOut(t) PROVE TypeOK'
    BY <2>4, SMT DEF SpinOut
  <2>5. ASSUME NEW t \in Threads, Spin(t) PROVE TypeOK'
    <3>1. \A i \in 0 .. Wrap - 1 : Less(i) \in 0 .. Wrap - 1
      BY SMT DEF Less
    <3> QED
      BY <2>5, <3>1, SMT DEF Spin
  <2>16. ASSUME NEW t \in Threads, Yield(t) PROVE TypeOK'
    BY <2>16, SMT DEF Yield
  <2>6. ASSUME NEW t \in Threads, Enlist(t) PROVE TypeOK'
    BY <2>6, SMT DEF Enlist
  <2>7. ASSUME NEW t \in Threads, CheckEarly(t) PROVE TypeOK'
    BY <2>7, SMT DEF CheckEarly
  <2>8. ASSUME NEW t \in Threads, EnlistLate(t) PROVE TypeOK'
    BY <2>8, SMT DEF EnlistLate
  <2>9. ASSUME NEW t \in Threads, Check(t) PROVE TypeOK'
    BY <2>9, SMT DEF Check
  <2>10. ASSUME NEW t \in Threads, Sleep(t) PROVE TypeOK'
    BY <2>10, SMT DEF Sleep
  <2>11. ASSUME NEW t \in Threads, Delist(t) PROVE TypeOK'
    BY <2>11, SMT DEF Delist
  <2>12. ASSUME NEW t \in Threads, Unlock(t) PROVE TypeOK'
    <3>1. flag' \in BOOLEAN
      BY <2>12 DEF Unlock
    <3> QED
      BY <2>12, <3>1, SMT DEF Unlock
  <2>13. ASSUME NEW t \in Threads, Look(t) PROVE TypeOK'
    BY <2>13, SMT DEF Look
  <2>14. ASSUME NEW t \in Threads, Post(t) PROVE TypeOK'
    BY <2>14, SMT DEF Post
  <2>15. CASE UNCHANGED vars
    BY <2>15, SMT DEF vars
  <2> QED
    BY <2>1, <2>2, <2>3, <2>4, <2>5, <2>6, <2>7, <2>8, <2>9, <2>10, <2>11, <2>12,
       <2>13, <2>14, <2>15, <2>16 DEF Next, Step
<1> QED
  BY <1>1, <1>2, PTL DEF Spec

\* Mutual exclusion: the flag is set exactly while a thread is between
\* HybridMutexLock and HybridMutexUnlock, and never two are.
THEOREM Exclusion == Spec => []MutualExclusion
<1>1. Init => MutualExclusion
  BY SMT DEF Init, MutualExclusion, Holders
<1>2. TypeOK /\ MutualExclusion /\ [Next]_vars => MutualExclusion'
  <2> SUFFICES ASSUME TypeOK, MutualExclusion, [Next]_vars PROVE MutualExclusion'
    OBVIOUS
  <2> USE DEF TypeOK, MutualExclusion, Holders, Goto
  <2>1. CASE UNCHANGED vars
    BY <2>1 DEF vars
  <2>2. ASSUME NEW t \in Threads, FastLock(t) \/ Retry(t) PROVE MutualExclusion'
    BY <2>2, SMT DEF FastLock, Retry
  <2>3. ASSUME NEW t \in Threads, Unlock(t) PROVE MutualExclusion'
    BY <2>3, SMT DEF Unlock
  <2>4. ASSUME NEW t \in Threads,
               \/ Start(t) \/ SpinOut(t) \/ Spin(t) \/ Yield(t) \/ Enlist(t) \/ CheckEarly(t)
               \/ EnlistLate(t) \/ Check(t) \/ Sleep(t) \/ Delist(t) \/ Look(t) \/ Post(t)
        PROVE  MutualExclusion'
    BY <2>4, SMT DEF Start, SpinOut, Spin, Yield, Enlist, CheckEarly, EnlistLate, Check, Sleep,
                     Delist, Look, Post
  <2> QED
    BY <2>1, <2>2, <2>3, <2>4 DEF Next, Step
<1> QED
  BY <1>1, <1>2, TypeCorrect, PTL DEF Spec

\* What an unlock reads in nwait is the number of threads between their
\* increment and their decrement of it.
THEOREM Counted == Spec => []WaitersCounted
<1>1. Init => WaitersCounted
  BY FS_EmptySet, SMT DEF Init, WaitersCounted, Waiters
<1>2. TypeOK /\ WaitersCounted /\ [Next]_vars => WaitersCounted'
  <2> SUFFICES ASSUME TypeOK, WaitersCounted, [Next]_vars PROVE WaitersCounted'
    OBVIOUS
  <2>0. IsFiniteSet(Waiters)
    BY SpinMutexAssumption, FS_Subset DEF Waiters
  <2>1. CASE UNCHANGED vars
    BY <2>1 DEF vars, WaitersCounted, Waiters
  <2>2. ASSUME NEW t \in Threads, Enlist(t) \/ EnlistLate(t) PROVE WaitersCounted'
    <3>1. t \notin Waiters /\ Waiters' = Waiters \cup {t} /\ nwait' = nwait + 1
      BY <2>2, SMT DEF Enlist, EnlistLate, Goto, Waiters, TypeOK
    <3> QED
      BY <2>0, <3>1, FS_AddElement, SMT DEF WaitersCounted
  <2>3. ASSUME NEW t \in Threads, Delist(t) PROVE WaitersCounted'
    <3>1. t \in Waiters /\ Waiters' = Waiters \ {t} /\ nwait' = nwait - 1
      BY <2>3, SMT DEF Delist, Goto, Waiters, TypeOK
    <3>2. Cardinality(Waiters \ {t}) = Cardinality(Waiters) - 1
      BY <2>0, <3>1, FS_RemoveElement
    <3> QED
      BY <3>1, <3>2 DEF WaitersCounted
  <2>4. ASSUME NEW t \in Threads,
               \/ Start(t) \/ FastLock(t) \/ Retry(t) \/ SpinOut(t) \/ Spin(t) \/ Yield(t)
               \/ CheckEarly(t) \/ Check(t) \/ Sleep(t) \/ Unlock(t) \/ Look(t) \/ Post(t)
        PROVE  WaitersCounted'
    <3>1. Waiters' = Waiters /\ nwait' = nwait
      BY <2>4, SMT DEF Start, FastLock, Retry, SpinOut, Spin, Yield, CheckEarly, Check, Sleep,
                       Unlock, Look, Post, Goto, Waiters, TypeOK
    <3> QED
      BY <3>1 DEF WaitersCounted
  <2> QED
    BY <2>1, <2>2, <2>3, <2>4 DEF Next, Step
<1> QED
  BY <1>1, <1>2, TypeCorrect, PTL DEF Spec

-----------------------------------------------------------------------------
(* No wakeup is lost where loads do not pass the relaxed add.  A sleeper   *)
(* is counted in nwait, so that every thread that unlocks will signal; and *)
(* a thread falls asleep only while the flag is set, that is, while there  *)
(* is a thread that will unlock.                                           *)

NeverBlocks ==
  kind = "SpinMutex" =>
    \A t \in Threads : pc[t] \notin {"enlist", "enlisted", "check", "sleep", "delist"}

\* The waiters of a SpinMutex do not sleep.
LEMMA Spinning == Spec => []NeverBlocks
<1>1. Init => NeverBlocks
  BY SMT DEF Init, NeverBlocks
<1>2. TypeOK /\ NeverBlocks /\ [Next]_vars => NeverBlocks'
  <2> SUFFICES ASSUME TypeOK, NeverBlocks, [Next]_vars PROVE NeverBlocks'
    OBVIOUS
  <2> USE DEF TypeOK, NeverBlocks, Goto
  <2>1. CASE UNCHANGED vars
    BY <2>1, SMT DEF vars
  <2>2. ASSUME NEW u \in Threads, Start(u) PROVE NeverBlocks'
    BY <2>2, SMT DEF Start
  <2>3. ASSUME NEW u \in Threads, Step(u) PROVE NeverBlocks'
    BY <2>3, SMT DEF Step, FastLock, Retry, SpinOut, Spin, Yield, Enlist, CheckEarly,
                     EnlistLate, Check, Sleep, Delist, Unlock, Look, Post
  <2> QED
    BY <2>1, <2>2, <2>3 DEF Next
<1> QED
  BY <1>1, <1>2, TypeCorrect, PTL DEF Spec

AwakeInv ==
  /\ NoLostWakeup
  /\ ~reorder => \A t \in Threads : pc[t] # "enlisted"

\* While no load passes an atomic add, a sleeper for whom no signal is left
\* is one that a holder, or a thread behind it, will find in nwait.
LEMMA Awake == Spec => []AwakeInv
<1>1. Init => AwakeInv
  BY SMT DEF Init, AwakeInv, NoLostWakeup
<1>2. /\ TypeOK /\ MutualExclusion /\ WaitersCounted /\ NeverBlocks /\ AwakeInv /\ [Next]_vars
      => AwakeInv'
  <2> SUFFICES ASSUME TypeOK, MutualExclusion, WaitersCounted, NeverBlocks, AwakeInv,
                      [Next]_vars, ~reorder'
               PROVE  /\ NoLostWakeup'
                      /\ \A t \in Threads : pc'[t] # "enlisted"
    BY DEF AwakeInv, NoLostWakeup
  <2>0. ~reorder
    BY DEF Next, Start, Step, vars
  <2> USE <2>0 DEF TypeOK, AwakeInv, NoLostWakeup, Goto
  <2>1. CASE UNCHANGED vars
    BY <2>1, SMT DEF vars
  <2>2. ASSUME NEW u \in Threads, Check(u)
        PROVE  NoLostWakeup' /\ \A t \in Threads : pc'[t] # "enlisted"
    BY <2>2, SMT DEF Check, MutualExclusion, Holders
  <2>3. ASSUME NEW u \in Threads, Look(u)
        PROVE  NoLostWakeup' /\ \A t \in Threads : pc'[t] # "enlisted"
    <3>1. ASSUME NEW t \in Threads, pc[t] = "sleep" PROVE nwait # 0
      <4>1. t \in Waiters /\ IsFiniteSet(Waiters)
        BY <3>1, SpinMutexAssumption, FS_Subset DEF Waiters
      <4>2. Cardinality(Waiters) # 0
        BY <4>1, FS_EmptySet
      <4> QED
        BY <4>2 DEF WaitersCounted
    <3> QED
      BY <2>3, <3>1, SMT DEF Look
  <2>4. ASSUME NEW u \in Threads,
               \/ Start(u) \/ FastLock(u) \/ Retry(u) \/ SpinOut(u) \/ Spin(u) \/ Yield(u) \/ Enlist(u)
               \/ CheckEarly(u) \/ EnlistLate(u)
        PROVE  NoLostWakeup' /\ \A t \in Threads : pc'[t] # "enlisted"
    BY <2>4, SMT DEF Start, FastLock, Retry, SpinOut, Spin, Yield, Enlist, CheckEarly, EnlistLate
  <2>5. ASSUME NEW u \in Threads, Sleep(u) \/ Delist(u) \/ Post(u)
        PROVE  NoLostWakeup' /\ \A t \in Threads : pc'[t] # "enlisted"
    BY <2>5, SMT DEF Sleep, Delist, Post
  <2>6. ASSUME NEW u \in Threads, Unlock(u)
        PROVE  NoLostWakeup' /\ \A t \in Threads : pc'[t] # "enlisted"
    <3>1. CASE kind = "HybridMutex"
      BY <2>6, <3>1, SMT DEF Unlock
    <3>2. CASE kind = "SpinMutex"
      BY <2>6, <3>2, SMT DEF Unlock, NeverBlocks
    <3> QED
      BY <3>1, <3>2 DEF Kinds
  <2> QED
    BY <2>1, <2>2, <2>3, <2>4, <2>5, <2>6 DEF Next, Step
<1> QED
  BY <1>1, <1>2, TypeCorrect, Exclusion, Counted, Spinning, PTL DEF Spec

\* On a machine that keeps a load behind an earlier atomic add (x86 does), no
\* thread sleeps with nobody left to signal it.
THEOREM NeverAsleep == Spec => []NoLostWakeup
<1>1. AwakeInv => NoLostWakeup
  BY DEF AwakeInv
<1> QED
  BY <1>1, Awake, PTL

-----------------------------------------------------------------------------
(* The refinement: every step of the code is a step of Mutex or a stutter. *)

\* While mutual exclusion holds, Owner is the thread that holds the mutex.
LEMMA OwnerHolds ==
  ASSUME MutualExclusion, NEW t \in Threads
  PROVE  pc[t] = "held" <=> Owner = t
<1>1. CASE flag
  <2>1. PICK h \in Threads : pc[h] = "held"
    BY <1>1 DEF MutualExclusion, Holders
  <2>2. Owner \in Threads /\ pc[Owner] = "held"
    BY <1>1, <2>1 DEF Owner
  <2> QED
    BY <2>2 DEF MutualExclusion, Holders
<1>2. CASE ~flag
  <2>1. pc[t] # "held"
    BY <1>2 DEF MutualExclusion, Holders
  <2>2. Owner # t
    BY <1>2, SpinMutexAssumption DEF Owner
  <2> QED
    BY <2>1, <2>2
<1> QED
  BY <1>1, <1>2

\* A step that leaves the flag and the set of holders alone keeps the owner.
LEMMA OwnerStays ==
  ASSUME MutualExclusion, MutualExclusion', flag' = flag, Holders' = Holders
  PROVE  Owner' = Owner
<1>1. CASE flag
  <2>1. PICK h \in Threads : pc[h] = "held"
    BY <1>1 DEF MutualExclusion, Holders
  <2>2. pc'[h] = "held"
    BY <2>1 DEF Holders
  <2>3. Owner = h
    BY <2>1, OwnerHolds
  <2>4. Owner' \in Threads /\ pc'[Owner'] = "held"
    BY <1>1, <2>2 DEF Owner
  <2> QED
    BY <2>2, <2>3, <2>4 DEF MutualExclusion, Holders
<1>2. CASE ~flag
  BY <1>2 DEF Owner
<1> QED
  BY <1>1, <1>2

\* The thread that gets the flag is the owner after the step.
LEMMA OwnerNew ==
  ASSUME MutualExclusion', NEW t \in Threads, pc'[t] = "held", flag'
  PROVE  Owner' = t
<1>1. Owner' \in Threads /\ pc'[Owner'] = "held"
  BY DEF Owner
<1> QED
  BY <1>1 DEF MutualExclusion, Holders

\* The code implements the abstract mutex: one owner at a time, which is the
\* thread that asked, and which alone releases it.
THEOREM Refinement == Spec => IsMutex
<1>1. Init => M!Init
  BY SMT DEF Init, M!Init, Asking, Owner
<1>2. /\ TypeOK /\ TypeOK' /\ MutualExclusion /\ MutualExclusion' /\ [Next]_vars
      => [M!Next]_<<Asking, Owner>>
  <2> SUFFICES ASSUME TypeOK, TypeOK', MutualExclusion, MutualExclusion', [Next]_vars
               PROVE  M!Next \/ (Asking' = Asking /\ Owner' = Owner)
    OBVIOUS
  <2>1. CASE UNCHANGED vars
    BY <2>1 DEF vars, Asking, Owner
  <2>2. ASSUME NEW t \in Threads, Start(t) PROVE M!Ask(t)
    <3>1. pc[t] = "idle" /\ pc' = [pc EXCEPT ![t] = "lock"] /\ flag' = flag
      BY <2>2 DEF Start, Goto
    <3>2. Asking' = Asking \cup {t} /\ t \notin Asking /\ Holders' = Holders
      BY <3>1, SMT DEF TypeOK, Asking, Holders
    <3>3. Owner # t
      BY <3>1, OwnerHolds
    <3> QED
      BY <3>1, <3>2, <3>3, OwnerStays DEF M!Ask
  <2>3. ASSUME NEW t \in Threads, FastLock(t) \/ Retry(t), ~flag PROVE M!Acquire(t)
    <3>1. /\ pc[t] \in {"lock", "retry"} /\ pc' = [pc EXCEPT ![t] = "held"] /\ flag'
      BY <2>3 DEF FastLock, Retry, Goto
    <3>2. t \in Asking /\ Asking' = Asking \ {t} /\ pc'[t] = "held"
      BY <3>1, SMT DEF TypeOK, Asking
    <3>3. Owner = NULL
      BY <2>3 DEF Owner
    <3>4. Owner' = t
      BY <3>1, <3>2, OwnerNew
    <3> QED
      BY <3>2, <3>3, <3>4 DEF M!Acquire
  <2>4. ASSUME NEW t \in Threads, Unlock(t) PROVE M!Release(t)
    <3>1. pc[t] = "held" /\ ~flag'
      BY <2>4 DEF Unlock, Goto
    <3>2. Asking' = Asking
      BY <2>4, SMT DEF TypeOK, Unlock, Goto, Asking
    <3>3. Owner = t
      BY <3>1, OwnerHolds
    <3>4. Owner' = NULL
      BY <3>1 DEF Owner
    <3> QED
      BY <3>2, <3>3, <3>4 DEF M!Release
  <2>5. ASSUME NEW t \in Threads,
               \/ (FastLock(t) \/ Retry(t)) /\ flag
               \/ SpinOut(t) \/ Spin(t) \/ Yield(t) \/ Enlist(t) \/ CheckEarly(t) \/ EnlistLate(t)
               \/ Check(t) \/ Sleep(t) \/ Delist(t) \/ Look(t) \/ Post(t)
        PROVE  Asking' = Asking /\ Owner' = Owner
    <3>1. Asking' = Asking /\ Holders' = Holders
      BY <2>5, SMT DEF FastLock, Retry, SpinOut, Spin, Yield, Enlist, CheckEarly, EnlistLate, Check,
                       Sleep, Delist, Look, Post, Goto, TypeOK, Asking, Holders
    <3>2. flag' = flag
      <4>1. CASE (FastLock(t) \/ Retry(t)) /\ flag
        BY <4>1 DEF FastLock, Retry, TypeOK
      <4>2. CASE ~((FastLock(t) \/ Retry(t)) /\ flag)
        BY <2>5, <4>2 DEF SpinOut, Spin, Yield, Enlist, CheckEarly, EnlistLate, Check, Sleep,
                          Delist, Look, Post
      <4> QED
        BY <4>1, <4>2
    <3> QED
      BY <3>1, <3>2, OwnerStays
  <2> QED
    BY <2>1, <2>2, <2>3, <2>4, <2>5 DEF Next, Step, M!Next
<1> QED
  BY <1>1, <1>2, TypeCorrect, Exclusion, PTL DEF Spec, IsMutex, M!Spec
=============================================================================
