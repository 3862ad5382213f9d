----------------------------- MODULE LazyRWMutex -----------------------------
(***************************************************************************)
(* A read-write mutex that is created on first use by r_sync_once, as the  *)
(* static variables of os_getcwd.c and the others are: every thread passes *)
(* r_sync_once before it asks for the lock.                                *)
(***************************************************************************)
EXTENDS RWMutex

CONSTANTS MaxPasses  \* bounds how often each thread passes r_sync_once

VARIABLES flag, made, mu, begun, ended, oncepc, passes

oncevars == <<flag, made, mu, begun, ended, oncepc, passes>>

Once == INSTANCE SyncOnce WITH pc <- oncepc, ncalls <- passes, MaxCalls <- MaxPasses

BothInit == Init /\ Once!Init

OnceStep(t) == Once!Step(t) /\ UNCHANGED vars

\* A thread has the lock to use once its r_sync_once has returned.
LockStep(t) == oncepc[t] = "returned" /\ Step(t) /\ UNCHANGED oncevars

BothNext == \E t \in Threads : OnceStep(t) \/ LockStep(t)

bothvars == <<vars, oncevars>>

BothSpec ==
  /\ BothInit /\ [][BothNext]_bothvars
  /\ \A t \in Threads :
       /\ WF_bothvars(OnceStep(t))
       /\ WF_bothvars(LockStep(t))

\* r_sync_once: no call returns before the statement has run, which makes the mutex, and
\* the losers never wait for a mutex that is not made.
OnceInv == Once!TypeOK /\ Once!OnceBeforeReturn /\ Once!MutexReady
=============================================================================
