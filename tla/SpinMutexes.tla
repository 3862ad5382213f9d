----------------------------- MODULE SpinMutexes -----------------------------
(***************************************************************************)
(* The two mutexes of pkg/rbase/thread.h and thread_spinmutex.c.  A waiter *)
(* spins on the flag.  When it has spun for a while, a SpinMutex goes on   *)
(* spinning; a HybridMutex sleeps on a semaphore, and its unlock signals   *)
(* when some thread is waiting.                                            *)
(*                                                                         *)
(* Every atomic operation is one step.  The semaphore is the operating     *)
(* system's: a counter, whose wait blocks at zero.  kind and reorder are   *)
(* chosen at the start: which mutex it is, and whether the CPU lets a load *)
(* be done before an earlier relaxed addition.                             *)
(***************************************************************************)
EXTENDS Integers, FiniteSets

CONSTANTS Threads,
          MaxLocks,  \* bounds how often each thread locks
          Tries,     \* kYieldProcessorTries
          Wrap,      \* 2^64: size_t counts modulo Wrap
          NULL       \* no thread

ASSUME SpinMutexAssumption ==
  /\ IsFiniteSet(Threads)
  /\ MaxLocks \in Nat
  /\ Wrap \in Nat /\ Tries \in 1 .. Wrap - 1
  /\ NULL \notin Threads

VARIABLES
  kind, reorder,      \* the mutex and the machine, for good
  flag, nwait, sema,  \* the SpinMutex has a flag only
  pc,                 \* where each thread is
  n,                  \* its spin counter
  nlocks              \* how often it has locked so far

vars == <<kind, reorder, flag, nwait, sema, pc, n, nlocks>>

Labels == {"idle", "lock", "retry", "spin", "enlist", "enlisted", "check",
           "sleep", "delist", "held", "look", "post"}

Kinds == {"SpinMutex", "HybridMutex"}

Init ==
  /\ kind \in Kinds
  /\ reorder \in BOOLEAN
  /\ flag = FALSE
  /\ nwait = 0
  /\ sema = 0
  /\ pc = [t \in Threads |-> "idle"]
  /\ n = [t \in Threads |-> 0]
  /\ nlocks = [t \in Threads |-> 0]

Goto(t, from, to) == pc[t] = from /\ pc' = [pc EXCEPT ![t] = to]

-----------------------------------------------------------------------------
(* Lock, and _spinMutexWait or _hybridMutexWait.                           *)

Start(t) ==
  /\ nlocks[t] < MaxLocks
  /\ Goto(t, "idle", "lock")
  /\ nlocks' = [nlocks EXCEPT ![t] = @ + 1]
  /\ UNCHANGED <<kind, reorder, flag, nwait, sema, n>>

\* Not the code: a load and a store for the exchange, the store of which is late.
Retry_Torn(t) ==
  /\ Goto(t, "retry", "held")
  /\ flag' = TRUE
  /\ UNCHANGED <<nwait, sema, n, nlocks>>

\* The exchange of SpinMutexLock and HybridMutexLock; n is not in use yet.
FastLock(t) ==
  /\ Goto(t, "lock", IF flag THEN "retry" ELSE "held")
  /\ flag' = TRUE
  /\ UNCHANGED <<nwait, sema, n, nlocks>>

\* The exchange that begins a turn of the outer loop, and the reset of n when it fails.
Retry(t) ==
  /\ Goto(t, "retry", IF flag THEN "spin" ELSE "held")
  /\ flag' = TRUE
  /\ n' = [n EXCEPT ![t] = IF flag THEN Tries ELSE @]
  /\ UNCHANGED <<nwait, sema, nlocks>>

\* The inner loop finds the flag clear ...
SpinOut(t) ==
  /\ ~flag
  /\ Goto(t, "spin", "retry")
  /\ UNCHANGED <<flag, nwait, sema, n, nlocks>>

Less(i) == (i + Wrap - 1) % Wrap

\* ... or set: if (--n == 0).
Spin(t) ==
  /\ flag
  /\ Less(n[t]) # 0 \/ kind = "HybridMutex"
  /\ Goto(t, "spin", IF Less(n[t]) = 0 THEN "enlist" ELSE "spin")
  /\ n' = [n EXCEPT ![t] = Less(@)]
  /\ UNCHANGED <<flag, nwait, sema, nlocks>>

\* A SpinMutex starts to count again.
Yield(t) ==
  /\ flag
  /\ Less(n[t]) = 0 /\ kind = "SpinMutex"
  /\ Goto(t, "spin", "spin")
  /\ n' = [n EXCEPT ![t] = Tries]
  /\ UNCHANGED <<flag, nwait, sema, nlocks>>

\* AtomicAdd(&m->nwait, 1)
Enlist(t) ==
  /\ Goto(t, "enlist", "check")
  /\ nwait' = nwait + 1
  /\ UNCHANGED <<flag, sema, n, nlocks>>

\* The first load of the flag after a relaxed add may be done before it.
CheckEarly(t) ==
  /\ reorder
  /\ flag
  /\ Goto(t, "enlist", "enlisted")
  /\ UNCHANGED <<flag, nwait, sema, n, nlocks>>

EnlistLate(t) ==
  /\ Goto(t, "enlisted", "sleep")
  /\ nwait' = nwait + 1
  /\ UNCHANGED <<flag, sema, n, nlocks>>

\* Not the code: the flag is not looked at again before sleeping.
Check_Skipped(t) ==
  /\ Goto(t, "check", "sleep")
  /\ UNCHANGED <<flag, nwait, sema, n, nlocks>>

\* while (flag)
Check(t) ==
  /\ Goto(t, "check", IF flag THEN "sleep" ELSE "delist")
  /\ UNCHANGED <<flag, nwait, sema, n, nlocks>>

\* SemaWait
Sleep(t) ==
  /\ sema > 0
  /\ Goto(t, "sleep", "check")
  /\ sema' = sema - 1
  /\ UNCHANGED <<flag, nwait, n, nlocks>>

\* Not the code: nwait only ever grows.
Delist_Forgets(t) ==
  /\ Goto(t, "delist", "spin")
  /\ UNCHANGED <<flag, nwait, sema, n, nlocks>>

\* AtomicSub(&m->nwait, 1): the spin counter stays at zero.
Delist(t) ==
  /\ Goto(t, "delist", "spin")
  /\ nwait' = nwait - 1
  /\ UNCHANGED <<flag, sema, n, nlocks>>

-----------------------------------------------------------------------------
(* Unlock: a HybridMutex looks for waiters afterwards.                     *)

Unlock(t) ==
  /\ Goto(t, "held", IF kind = "HybridMutex" THEN "look" ELSE "idle")
  /\ flag' = FALSE
  /\ UNCHANGED <<nwait, sema, n, nlocks>>

\* Not the code: one waiter is not worth a signal.
Look_OffByOne(t) ==
  /\ Goto(t, "look", IF nwait > 1 THEN "post" ELSE "idle")
  /\ UNCHANGED <<flag, nwait, sema, n, nlocks>>

Look(t) ==
  /\ Goto(t, "look", IF nwait # 0 THEN "post" ELSE "idle")
  /\ UNCHANGED <<flag, nwait, sema, n, nlocks>>

Post(t) ==
  /\ Goto(t, "post", "idle")
  /\ sema' = sema + 1
  /\ UNCHANGED <<flag, nwait, n, nlocks>>

-----------------------------------------------------------------------------
Step(t) ==
  /\ UNCHANGED <<kind, reorder>>
  /\ \/ FastLock(t) \/ Retry(t) \/ SpinOut(t) \/ Spin(t) \/ Yield(t)
     \/ Enlist(t) \/ CheckEarly(t) \/ EnlistLate(t) \/ Check(t) \/ Sleep(t) \/ Delist(t)
     \/ Unlock(t) \/ Look(t) \/ Post(t)

Next == \E t \in Threads : Start(t) \/ Step(t)

Spec == Init /\ [][Next]_vars

\* Threads are scheduled, and one that holds the mutex gives it back.
FairSpec == Spec /\ \A t \in Threads : WF_vars(Start(t)) /\ WF_vars(Step(t))

-----------------------------------------------------------------------------
(* Properties.                                                             *)

TypeOK ==
  /\ kind \in Kinds
  /\ reorder \in BOOLEAN
  /\ flag \in BOOLEAN
  /\ nwait \in Int
  /\ sema \in Nat
  /\ pc \in [Threads -> Labels]
  /\ n \in [Threads -> 0 .. Wrap - 1]
  /\ nlocks \in [Threads -> Nat]

Holders == {t \in Threads : pc[t] = "held"}

\* The flag is set exactly while some thread is between Lock and Unlock, and it
\* is one thread.
MutualExclusion ==
  /\ flag <=> Holders # {}
  /\ \A t, u \in Holders : t = u

\* The threads between AtomicAdd(&m->nwait, 1) and AtomicSub(&m->nwait, 1).
Waiters == {t \in Threads : pc[t] \in {"check", "sleep", "delist"}}

\* What the unlock of a HybridMutex reads is the number of those threads, never less.
WaitersCounted == nwait = Cardinality(Waiters)

\* No thread sleeps without a signal on its way unless another thread is in the
\* code of the mutex, and will find nwait above zero when it leaves.  This needs
\* a machine that does the load of the flag after the addition to nwait.
NoLostWakeup ==
  ~reorder =>
    \A t \in Threads :
      pc[t] = "sleep" /\ sema = 0 => \E u \in Threads : pc[u] \notin {"idle", "sleep"}

\* Threads that lock a finite number of times all get through
\* (thread_spinmutex.c asserts it of its test threads: nlocks is 0 after join).
AllDone == <>(\A t \in Threads : pc[t] = "idle" /\ nlocks[t] = MaxLocks)

\* The same on a machine that keeps the two in order.
AllDoneInOrder == ~reorder => AllDone

-----------------------------------------------------------------------------
\* The threads between the call of Lock and its return, and the one
\* that has locked and not yet unlocked.
Asking == {t \in Threads : pc[t] \notin {"idle", "held", "look", "post"}}
Owner  == IF flag THEN CHOOSE t \in Threads : pc[t] = "held" ELSE NULL

M == INSTANCE Mutex WITH asking <- Asking, owner <- Owner

\* Both are mutexes.
IsMutex == M!Spec
=============================================================================
