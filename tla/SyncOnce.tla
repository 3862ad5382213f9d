------------------------------ MODULE SyncOnce ------------------------------
(***************************************************************************)
(* r_sync_once of pkg/rbase/thread.h and thread.c: threads race to run a   *)
(* statement, one of them runs it, and the others wait for that one.       *)
(* os_getcwd.c, os_cacheline_size.c and os_exepath.c fill a static         *)
(* variable by it and read the variable afterwards.                        *)
(*                                                                         *)
(* Every atomic operation on the flag, every call of the mutex, and the    *)
(* beginning and the end of the statement are steps.                       *)
(***************************************************************************)
EXTENDS Integers

CONSTANTS Threads,
          MaxCalls  \* bounds how often each thread comes by

VARIABLES
  flag,   \* 0 untouched, 1 mutex in the making, 2 statement running, 3 done
  made,   \* has mtx_init of mu returned?
  mu,     \* the threads that hold mu
  begun,  \* the threads that have begun the statement
  ended,  \* the threads that have ended it
  pc,     \* where each thread is
  ncalls  \* how often it has come by

vars == <<flag, made, mu, begun, ended, pc, ncalls>>

Labels == {"idle", "start", "init", "claim", "announce", "stmt", "running", "end",
           "release", "spin", "wait", "pass", "returned"}

Init ==
  /\ flag = 0
  /\ made = FALSE
  /\ mu = {}
  /\ begun = {}
  /\ ended = {}
  /\ pc = [t \in Threads |-> "idle"]
  /\ ncalls = [t \in Threads |-> 0]

Goto(t, from, to) == pc[t] = from /\ pc' = [pc EXCEPT ![t] = to]

-----------------------------------------------------------------------------
(* The macro: one load of the flag, and nothing more once it is 3.         *)

\* Not the code: the macro is satisfied with a statement that is running.
Enter_Early(t) ==
  /\ pc[t] \in {"idle", "returned"}
  /\ ncalls[t] < MaxCalls
  /\ pc' = [pc EXCEPT ![t] = IF flag < 2 THEN "start" ELSE "returned"]
  /\ ncalls' = [ncalls EXCEPT ![t] = @ + 1]
  /\ UNCHANGED <<flag, made, mu, begun, ended>>

Enter(t) ==
  /\ pc[t] \in {"idle", "returned"}
  /\ ncalls[t] < MaxCalls
  /\ pc' = [pc EXCEPT ![t] = IF flag < 3 THEN "start" ELSE "returned"]
  /\ ncalls' = [ncalls EXCEPT ![t] = @ + 1]
  /\ UNCHANGED <<flag, made, mu, begun, ended>>

-----------------------------------------------------------------------------
(* _sync_once_start, the winner: the swap of 0 for 1.                      *)

Win(t) ==
  /\ flag = 0
  /\ Goto(t, "start", "init")
  /\ flag' = 1
  /\ UNCHANGED <<made, mu, begun, ended, ncalls>>

InitMutex(t) ==
  /\ Goto(t, "init", "claim")
  /\ made' = TRUE
  /\ UNCHANGED <<flag, mu, begun, ended, ncalls>>

Claim(t) ==
  /\ mu = {}
  /\ Goto(t, "claim", "announce")
  /\ mu' = {t}
  /\ UNCHANGED <<flag, made, begun, ended, ncalls>>

\* The addition of 1 to the flag.
Announce(t) ==
  /\ Goto(t, "announce", "stmt")
  /\ flag' = flag + 1
  /\ UNCHANGED <<made, mu, begun, ended, ncalls>>

\* The statement of the caller, which takes its time.
Begin(t) ==
  /\ Goto(t, "stmt", "running")
  /\ begun' = begun \cup {t}
  /\ UNCHANGED <<flag, made, mu, ended, ncalls>>

Finish(t) ==
  /\ Goto(t, "running", "end")
  /\ ended' = ended \cup {t}
  /\ UNCHANGED <<flag, made, mu, begun, ncalls>>

\* _sync_once_end.
End(t) ==
  /\ Goto(t, "end", "release")
  /\ flag' = 3
  /\ UNCHANGED <<made, mu, begun, ended, ncalls>>

Release(t) ==
  /\ Goto(t, "release", "returned")
  /\ mu' = {}
  /\ UNCHANGED <<flag, made, begun, ended, ncalls>>

-----------------------------------------------------------------------------
(* _sync_once_start, the losers.                                           *)

Lose(t) ==
  /\ flag # 0
  /\ Goto(t, "start", "spin")
  /\ UNCHANGED <<flag, made, mu, begun, ended, ncalls>>

\* Not the code: it does not wait for the winner to lock the mutex.
Spin_Early(t) ==
  /\ flag > 0
  /\ Goto(t, "spin", IF flag = 3 THEN "returned" ELSE "wait")
  /\ UNCHANGED <<flag, made, mu, begun, ended, ncalls>>

\* The loop reads the flag until the mutex is there.
Spin(t) ==
  /\ flag > 1
  /\ Goto(t, "spin", IF flag = 3 THEN "returned" ELSE "wait")
  /\ UNCHANGED <<flag, made, mu, begun, ended, ncalls>>

Wait(t) ==
  /\ mu = {}
  /\ Goto(t, "wait", "pass")
  /\ mu' = {t}
  /\ UNCHANGED <<flag, made, begun, ended, ncalls>>

Pass(t) ==
  /\ Goto(t, "pass", "returned")
  /\ mu' = {}
  /\ UNCHANGED <<flag, made, begun, ended, ncalls>>

-----------------------------------------------------------------------------
Step(t) ==
  \/ Enter(t)
  \/ Win(t) \/ InitMutex(t) \/ Claim(t) \/ Announce(t)
  \/ Begin(t) \/ Finish(t) \/ End(t) \/ Release(t)
  \/ Lose(t) \/ Spin(t) \/ Wait(t) \/ Pass(t)

Next == \E t \in Threads : Step(t)

Spec == Init /\ [][Next]_vars

-----------------------------------------------------------------------------
(* Properties.                                                             *)

TypeOK ==
  /\ flag \in 0 .. 3
  /\ made \in BOOLEAN
  /\ mu \subseteq Threads
  /\ begun \subseteq Threads
  /\ ended \subseteq begun
  /\ pc \in [Threads -> Labels]
  /\ ncalls \in [Threads -> Nat]

\* "Execute code exactly once", and "threads losing the race will wait for the
\* winning thread to complete": no two threads run the statement, and whoever has
\* returned finds it run to its end.
OnceBeforeReturn ==
  /\ \A t, u \in begun : t = u
  /\ (\E t \in Threads : pc[t] = "returned") => ended # {}

\* "Wait for fl->mu to be ready": nobody locks the mutex before mtx_init has
\* returned, two threads never hold it, and the losers cannot pass it before the
\* winner has locked it and run the statement.
MutexReady ==
  /\ \A t, u \in mu : t = u
  /\ \A t \in Threads : pc[t] \in {"claim", "wait", "pass"} => made
  /\ \A t \in Threads : pc[t] = "pass" => flag = 3
=============================================================================
