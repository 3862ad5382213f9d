-------------------------------- MODULE LSema --------------------------------
(***************************************************************************)
(* The light-weight semaphore of pkg/rbase/thread_sema.c: a count taken by *)
(* compare-and-swap, which below zero says how many threads wait on the    *)
(* operating system's semaphore underneath.                                *)
(*                                                                         *)
(* A load and the compare-and-swap that follows it are one step, since the *)
(* latter succeeds only if the count is what was loaded; where a loaded    *)
(* value decides more than that, it is kept in old.  Memory order is       *)
(* sequentially consistent, and a timeout may expire at any time.          *)
(***************************************************************************)
EXTENDS Integers, FiniteSets

CONSTANTS Threads,
          Program,    \* Program[t] is the set of operations thread t may call
          MaxCalls,   \* MaxCalls[t] bounds the number of its calls
          MaxSignal,  \* bounds the count argument of LSemaSignal
          InitCount   \* the argument of LSemaInit

Ops == {"wait", "trywait", "timedwait", "signal"}

ASSUME LSemaAssumption ==
  /\ IsFiniteSet(Threads)
  /\ Program \in [Threads -> SUBSET Ops]
  /\ MaxCalls \in [Threads -> Nat]
  /\ MaxSignal \in Nat /\ InitCount \in Nat

VARIABLES
  count, sema,    \* the LSema: its count, and the permits of the OS semaphore
  pc, op, ncall,  \* where each thread is, in its ncall-th call
  old,            \* the oldCount loaded last
  left,           \* sem_post calls SemaSignal still has to make
  ret             \* result of the last wait

vars == <<count, sema, pc, op, ncall, old, left, ret>>

Labels == {"idle", "try", "spin", "sleep", "adjust", "trywait", "undo",
           "add", "post"}

Init ==
  /\ count = InitCount
  /\ sema = InitCount
  /\ pc = [t \in Threads |-> "idle"]
  /\ op = [t \in Threads |-> "wait"]
  /\ ncall = [t \in Threads |-> 0]
  /\ old = [t \in Threads |-> 0]
  /\ left = [t \in Threads |-> 0]
  /\ ret = [t \in Threads |-> FALSE]

Goto(t, from, to) == pc[t] = from /\ pc' = [pc EXCEPT ![t] = to]

Return(t, from, r) == Goto(t, from, "idle") /\ ret' = [ret EXCEPT ![t] = r]

call == <<op, ncall, left>>

-----------------------------------------------------------------------------
Start(t, o) ==
  /\ ncall[t] < MaxCalls[t]
  /\ o \in Program[t]
  /\ Goto(t, "idle", IF o = "signal" THEN "add" ELSE "try")
  /\ op' = [op EXCEPT ![t] = o]
  /\ ncall' = [ncall EXCEPT ![t] = @ + 1]
  /\ \E k \in 1 .. MaxSignal : left' = [left EXCEPT ![t] = IF o = "signal" THEN k ELSE 0]
  /\ old' = [old EXCEPT ![t] = 0]
  /\ UNCHANGED <<count, sema, ret>>

-----------------------------------------------------------------------------
(* LSemaTryWait, and the spinning of _LSemaWaitPartialSpin.                *)

\* The compare-and-swap from a positive count succeeds.
TakeOne(t) ==
  /\ pc[t] \in {"try", "spin"}
  /\ count > 0
  /\ Return(t, pc[t], TRUE)
  /\ count' = count - 1
  /\ UNCHANGED <<sema, call, old>>

\* LSemaTryWait finds no permit.
TryFails(t) ==
  /\ count <= 0
  /\ \/ op[t] = "trywait" /\ Return(t, "try", FALSE)
     \/ op[t] # "trywait" /\ Goto(t, "try", "spin") /\ UNCHANGED ret
  /\ UNCHANGED <<count, sema, call, old>>

\* Not the code: a count that was zero is taken for a permit.
GiveUp_OffByOne(t) ==
  /\ \/ count >= 0 /\ Return(t, "spin", TRUE)
     \/ count < 0 /\ Goto(t, "spin", "sleep") /\ UNCHANGED ret
  /\ count' = count - 1
  /\ UNCHANGED <<sema, call, old>>

\* LSEMA_MAX_SPINS is used up, by empty counts or by lost races: whatever the
\* count is now, it is decremented.
GiveUp(t) ==
  /\ \/ count > 0 /\ Return(t, "spin", TRUE)
     \/ count <= 0 /\ Goto(t, "spin", "sleep") /\ UNCHANGED ret
  /\ count' = count - 1
  /\ UNCHANGED <<sema, call, old>>

-----------------------------------------------------------------------------
(* Sleeping, and timing out.                                               *)

\* SemaWait or SemaTimedWait gets a permit.
Wake(t) ==
  /\ sema > 0
  /\ Return(t, "sleep", TRUE)
  /\ sema' = sema - 1
  /\ UNCHANGED <<count, call, old>>

\* SemaTimedWait does not.
Expire(t) ==
  /\ op[t] = "timedwait"
  /\ Goto(t, "sleep", "adjust")
  /\ UNCHANGED <<count, sema, call, old, ret>>

\* The loop of the timed out: it loads the count, ...
LoadCount(t) ==
  /\ Goto(t, "adjust", IF count >= 0 THEN "trywait" ELSE "undo")
  /\ old' = [old EXCEPT ![t] = count]
  /\ UNCHANGED <<count, sema, call, ret>>

\* ... takes a permit that was posted for it after all, ...
LateWake(t) ==
  /\ \/ sema > 0 /\ Return(t, "trywait", TRUE) /\ sema' = sema - 1
     \/ sema = 0 /\ Goto(t, "trywait", "adjust") /\ UNCHANGED <<sema, ret>>
  /\ UNCHANGED <<count, call, old>>

\* Not the code: the count is put back whatever became of it meanwhile.
Undo_Blindly(t) ==
  /\ Return(t, "undo", FALSE)
  /\ count' = count + 1
  /\ UNCHANGED <<sema, call, old>>

\* ... or takes back its decrement.
Undo(t) ==
  /\ \/ count = old[t] /\ Return(t, "undo", FALSE) /\ count' = count + 1
     \/ count # old[t] /\ Goto(t, "undo", "adjust") /\ UNCHANGED <<count, ret>>
  /\ UNCHANGED <<sema, call, old>>

-----------------------------------------------------------------------------
(* LSemaSignal.                                                            *)

\* Not the code: all permits are posted, waited for or not.
ToRelease_All(oldCount, k) == k

\* Not the code: one sleeper fewer than there are.
ToRelease_OffByOne(oldCount, k) ==
  IF oldCount >= -1 THEN 0 ELSE IF -oldCount - 1 < k THEN -oldCount - 1 ELSE k

\* -oldCount < count ? -oldCount : count, of which SemaSignal is called for a
\* positive one (ssize_t is wider than u32: the comparison is of signed numbers).
ToRelease(oldCount, k) ==
  IF oldCount >= 0 THEN 0 ELSE IF -oldCount < k THEN -oldCount ELSE k

SignalAdd(t) ==
  LET release == ToRelease(count, left[t])
  IN /\ \/ release > 0 /\ Goto(t, "add", "post")
        \/ release = 0 /\ Goto(t, "add", "idle")
     /\ count' = count + left[t]
     /\ left' = [left EXCEPT ![t] = release]
     /\ UNCHANGED <<sema, op, ncall, old, ret>>

\* One turn of SemaSignal.
SignalPost(t) ==
  /\ \/ left[t] > 1 /\ Goto(t, "post", "post")
     \/ left[t] = 1 /\ Goto(t, "post", "idle")
  /\ left' = [left EXCEPT ![t] = @ - 1]
  /\ sema' = sema + 1
  /\ UNCHANGED <<count, op, ncall, old, ret>>

-----------------------------------------------------------------------------
Step(t) ==
  \/ TakeOne(t) \/ TryFails(t) \/ GiveUp(t)
  \/ Wake(t) \/ Expire(t) \/ LoadCount(t) \/ LateWake(t) \/ Undo(t)
  \/ SignalAdd(t) \/ SignalPost(t)

Next == \E t \in Threads : Step(t) \/ \E o \in Ops : Start(t, o)

Spec == Init /\ [][Next]_vars

\* Every thread keeps calling and is scheduled, and a thread stops spinning.
FairSpec ==
  Spec /\ \A t \in Threads : WF_vars(Step(t)) /\ WF_vars(\E o \in Ops : Start(t, o))

-----------------------------------------------------------------------------
(* Properties.                                                             *)

TypeOK ==
  /\ count \in Int
  /\ sema \in Nat
  /\ pc \in [Threads -> Labels]
  /\ op \in [Threads -> Ops]
  /\ ncall \in [Threads -> Nat]
  /\ old \in [Threads -> Int]
  /\ left \in [Threads -> Nat]
  /\ ret \in [Threads -> BOOLEAN]

\* The threads whose decrement of the count is not settled yet.
Sleepers == {t \in Threads : pc[t] \in {"sleep", "adjust", "trywait", "undo"}}

\* Never do more waits succeed than there were signals: the permits that are
\* left, those the sleepers still may take included, are not negative.
NoExtraSignal == count + Cardinality(Sleepers) >= 0

\* A count of -k stands for k sleepers whom no post is meant for, and once all
\* posts are made the others find theirs: sleepers and permits match, so that
\* none sleeps with its permit lost and none is left over for a later wait.
PermitsMatch ==
  (\A t \in Threads : pc[t] # "post") =>
    sema = Cardinality(Sleepers) - (IF count < 0 THEN -count ELSE 0)

\* LSema neither loses a permit nor invents one, whatever times out meanwhile.
PermitsInv == TypeOK /\ NoExtraSignal /\ PermitsMatch

\* In the end nobody sleeps while there is a permit: when all signals have been
\* given, the sleepers left are those for whom there was none (the loop of
\* test_sema in thread_sema.c: "wait for every signal").
Served == <>[](Sleepers = {} \/ count + Cardinality(Sleepers) = 0)

-----------------------------------------------------------------------------
S == INSTANCE Semaphore WITH
       avail <- count + Cardinality(Sleepers),
       queue <- Sleepers,
       got   <- ret

\* The LSema is a counting semaphore.
IsSemaphore == S!Spec
=============================================================================
