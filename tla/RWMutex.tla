------------------------------- MODULE RWMutex -------------------------------
(***************************************************************************)
(* rwmtx_t of pkg/rbase/thread.c: many readers or one writer.  r counts    *)
(* the readers, and a writer adds the watermark to it; a thread that reads *)
(* adds itself first and looks afterwards.  w is a mutex the writer holds, *)
(* on which readers wait for it.                                           *)
(*                                                                         *)
(* Every atomic operation on r and every call of the mutex is one step; a  *)
(* load and the compare-and-swap of the value it read are one where the    *)
(* swap succeeds, and no step where it fails and the loop begins again.    *)
(***************************************************************************)
EXTENDS Integers, FiniteSets

CONSTANTS Threads,
          Marks,     \* what MTX_W_WATERMARK may be
          MaxCalls,  \* bounds how often each thread asks for the lock
          NULL       \* no thread

ASSUME RWMutexAssumption ==
  /\ IsFiniteSet(Threads)
  /\ Marks \subseteq Nat \ {0}
  /\ MaxCalls \in Nat
  /\ NULL \notin Threads

VARIABLES
  mark,    \* MTX_W_WATERMARK, for good
  r, w,    \* w: the thread that has the mutex
  pc, op,  \* where each thread is, in which operation
  ncalls,  \* how often it has asked for the lock
  lost     \* has some trylock added the watermark and returned thrd_busy?

vars == <<mark, r, w, pc, op, ncalls, lost>>

Requests == {"rlock", "tryrlock", "lock", "trylock"}

Labels == {"idle", "add", "back", "await", "pass", "reading", "load", "sub",
           "swap", "claimed", "writing", "unswap", "drop", "error"}

Init ==
  /\ mark \in Marks
  /\ r = 0
  /\ w = NULL
  /\ pc = [t \in Threads |-> "idle"]
  /\ op = [t \in Threads |-> "none"]
  /\ ncalls = [t \in Threads |-> 0]
  /\ lost = FALSE

Goto(t, from, to) == pc[t] = from /\ pc' = [pc EXCEPT ![t] = to]

\* A thread that has no lock asks for one.
Call(t) ==
  /\ ncalls[t] < MaxCalls
  /\ \E o \in Requests :
       /\ Goto(t, "idle", IF o \in {"rlock", "tryrlock"} THEN "add" ELSE "swap")
       /\ op' = [op EXCEPT ![t] = o]
  /\ ncalls' = [ncalls EXCEPT ![t] = @ + 1]
  /\ UNCHANGED <<r, w, lost>>

-----------------------------------------------------------------------------
(* Readers.                                                                *)

\* Not the code: the reader is let in at the watermark.
Add_OffByOne(t) ==
  /\ Goto(t, "add", IF r <= mark THEN "reading" ELSE "back")
  /\ r' = r + 1
  /\ UNCHANGED <<w, op, ncalls, lost>>

Add(t) ==
  /\ Goto(t, "add", IF r < mark THEN "reading" ELSE "back")
  /\ r' = r + 1
  /\ UNCHANGED <<w, op, ncalls, lost>>

\* Not the code: a tryrlock that fails leaves its addition.
Back_Forgets(t) ==
  /\ Goto(t, "back", IF op[t] = "tryrlock" THEN "idle" ELSE "await")
  /\ r' = IF op[t] = "tryrlock" THEN r ELSE r - 1
  /\ UNCHANGED <<w, op, ncalls, lost>>

Back(t) ==
  /\ Goto(t, "back", IF op[t] = "tryrlock" THEN "idle" ELSE "await")
  /\ r' = r - 1
  /\ UNCHANGED <<w, op, ncalls, lost>>

\* "await write lock": the mutex is taken, given back, and all tried again.
Await(t) ==
  /\ w = NULL
  /\ Goto(t, "await", "pass")
  /\ w' = t
  /\ UNCHANGED <<r, op, ncalls, lost>>

Pass(t) ==
  /\ Goto(t, "pass", IF op[t] = "runlock" THEN "load" ELSE "add")
  /\ w' = NULL
  /\ UNCHANGED <<r, op, ncalls, lost>>

ReadUnlock(t) ==
  /\ Goto(t, "reading", "load")
  /\ op' = [op EXCEPT ![t] = "runlock"]
  /\ UNCHANGED <<r, w, ncalls, lost>>

\* Not the code: the last reader below the watermark is taken for a writer.
Load_OffByOne(t) ==
  /\ Goto(t, "load", IF r = 0 THEN "error" ELSE IF r < mark - 1 THEN "sub" ELSE "await")
  /\ UNCHANGED <<r, w, op, ncalls, lost>>

Load(t) ==
  /\ Goto(t, "load", IF r = 0 THEN "error" ELSE IF r < mark THEN "sub" ELSE "await")
  /\ UNCHANGED <<r, w, op, ncalls, lost>>

Sub(t) ==
  /\ Goto(t, "sub", "idle")
  /\ r' = r - 1
  /\ UNCHANGED <<w, op, ncalls, lost>>

-----------------------------------------------------------------------------
(* Writers.                                                                *)

\* The swap of 0 for the watermark.
Swap(t) ==
  /\ r = 0
  /\ Goto(t, "swap", "claimed")
  /\ r' = mark
  /\ UNCHANGED <<w, op, ncalls, lost>>

\* rwmtx_trylock finds r set, or its weak swap fails.
SwapBusy(t) ==
  /\ op[t] = "trylock"
  /\ Goto(t, "swap", "idle")
  /\ UNCHANGED <<r, w, op, ncalls, lost>>

\* mtx_lock, or mtx_trylock when it succeeds.
Claim(t) ==
  /\ w = NULL
  /\ Goto(t, "claimed", "writing")
  /\ w' = t
  /\ UNCHANGED <<r, op, ncalls, lost>>

\* mtx_trylock fails, and its status is returned: r stays as it is.
ClaimBusy(t) ==
  /\ op[t] = "trylock"
  /\ w # NULL
  /\ Goto(t, "claimed", "idle")
  /\ lost' = TRUE
  /\ UNCHANGED <<r, w, op, ncalls>>

WriteUnlock(t) ==
  /\ Goto(t, "writing", "unswap")
  /\ op' = [op EXCEPT ![t] = "unlock"]
  /\ UNCHANGED <<r, w, ncalls, lost>>

\* Not the code: r is cleared, with the readers that are about to take back their addition.
Unswap_Clears(t) ==
  /\ Goto(t, "unswap", IF r < mark THEN "error" ELSE "drop")
  /\ r' = IF r < mark THEN r ELSE 0
  /\ UNCHANGED <<w, op, ncalls, lost>>

Unswap(t) ==
  /\ Goto(t, "unswap", IF r < mark THEN "error" ELSE "drop")
  /\ r' = IF r < mark THEN r ELSE r - mark
  /\ UNCHANGED <<w, op, ncalls, lost>>

\* Not the code: the mutex is not given back.
Drop_Forgets(t) ==
  /\ Goto(t, "drop", "idle")
  /\ UNCHANGED <<r, w, op, ncalls, lost>>

Drop(t) ==
  /\ Goto(t, "drop", "idle")
  /\ w' = NULL
  /\ UNCHANGED <<r, op, ncalls, lost>>

-----------------------------------------------------------------------------
Step(t) ==
  /\ UNCHANGED mark
  /\ \/ Call(t)
     \/ Add(t) \/ Back(t) \/ Await(t) \/ Pass(t) \/ ReadUnlock(t) \/ Load(t) \/ Sub(t)
     \/ Swap(t) \/ SwapBusy(t) \/ Claim(t) \/ ClaimBusy(t)
     \/ WriteUnlock(t) \/ Unswap(t) \/ Drop(t)

Next == \E t \in Threads : Step(t)

Spec == Init /\ [][Next]_vars

\* Threads are scheduled, give back what they hold, and use all their calls.  The
\* mutex may pass over a thread that waits for it as often as it is free.
FairSpec == Spec /\ \A t \in Threads : WF_vars(Step(t))

-----------------------------------------------------------------------------
(* Properties.                                                             *)

TypeOK ==
  /\ mark \in Marks
  /\ r \in Nat
  /\ w \in Threads \cup {NULL}
  /\ pc \in [Threads -> Labels]
  /\ op \in [Threads -> Requests \cup {"none", "runlock", "unlock"}]
  /\ ncalls \in [Threads -> 0 .. MaxCalls]
  /\ lost \in BOOLEAN

\* From the return of rwmtx_rlock or rwmtx_tryrlock to the subtraction of runlock.
Reading(t) ==
  \/ pc[t] \in {"reading", "load", "sub"}
  \/ pc[t] \in {"await", "pass"} /\ op[t] = "runlock"

\* From the return of rwmtx_lock or rwmtx_trylock to the swap of unlock.
Writing(t) == pc[t] \in {"writing", "unswap"}

Readers == {t \in Threads : Reading(t)}

\* "While a write lock is held no read locks or other write locks can be held."
Exclusion ==
  \A t, u \in Threads : Writing(t) /\ (Writing(u) \/ Reading(u)) => t = u

\* The threads whose addition of 1 is in r, and those whose watermark is.
Counted == {t \in Threads : Reading(t) \/ pc[t] = "back"}
Claimants == {t \in Threads : Writing(t) \/ pc[t] = "claimed"}

\* r is the number of readers, and of readers that have still to take back their
\* addition, plus one watermark for a writer or for a trylock that lost it.
Accounted ==
  /\ r = Cardinality(Counted) + (IF lost \/ Claimants # {} THEN mark ELSE 0)
  /\ \A t, u \in Claimants : t = u
  /\ lost => Claimants = {}

\* The mutex belongs to the writer, to a writer that is leaving, or to a reader
\* that waits for one.
MutexOwned ==
  \A t \in Threads : w = t <=> Writing(t) \/ pc[t] \in {"pass", "drop"}

\* Those who hold a lock can release it: runlock and unlock never return thrd_error
\* (thread.c asserts that they return thrd_success), and runlock waits for a writer
\* only where it takes for one as many readers as the watermark - never for a writer,
\* nor for the watermark that a trylock lost.
ReleaseSucceeds ==
  [][\A t \in Threads :
       /\ pc'[t] # "error"
       /\ pc[t] = "load" /\ pc'[t] = "await" => Cardinality(Counted) >= mark]_vars

\* Every call returns and every lock is released, or it is one of the three ways in
\* which calls of this lock wait for ever: a trylock has lost the watermark; the
\* readers, with those about to take back their addition, are again and again as many
\* as the watermark; or a writer has claimed r and never gets the mutex, which the
\* readers that wait for it take and give back in turns.
AllReturn ==
  \/ <>(\A t \in Threads : pc[t] = "idle" /\ ncalls[t] = MaxCalls)
  \/ <>lost
  \/ []<>(Cardinality(Counted) >= mark)
  \/ \E t \in Threads : /\ <>[](pc[t] = "claimed")
                        /\ []<>(\E u \in Threads : pc[u] = "pass")
=============================================================================
