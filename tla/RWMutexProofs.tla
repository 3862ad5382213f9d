---------------------------- MODULE RWMutexProofs ----------------------------
(***************************************************************************)
(* Proofs about RWMutex, for any number of threads and any watermark, the  *)
(* ones that more readers than the watermark use included.                 *)
(*                                                                         *)
(* A reader comes in when it found r below the watermark and a writer when *)
(* it found r zero, in the step that changes r.  So all depends on what r  *)
(* counts (Accounted), in which the failing reader's addition has a place. *)
(*                                                                         *)
(* The last part is about a lock that r_sync_once makes on first use: a    *)
(* step of one part leaves the other alone, so each keeps its invariant.   *)
(***************************************************************************)
EXTENDS LazyRWMutex, FiniteSetTheorems, TLAPS

\* The watermark is in r.
Taken == lost \/ Claimants # {}

\* A thread that adds itself to r is not one that holds a read lock, and one that
\* looks before it releases is.
OpsMatch ==
  \A t \in Threads : /\ pc[t] \in {"add", "back"} => op[t] # "runlock"
                     /\ pc[t] \in {"load", "sub"} => op[t] = "runlock"

\* Nobody reads once the watermark is in r, even before the writer has the mutex.
NoReaders == Taken => Readers = {}

\* Nobody is refused.
NoErrors == \A t \in Threads : pc[t] # "error"

IInv == TypeOK /\ OpsMatch /\ Accounted /\ NoReaders /\ MutexOwned /\ NoErrors

\* A thread that is counted in r makes it positive.
LEMMA CountedFinite ==
  /\ IsFiniteSet(Counted)
  /\ Cardinality(Counted) \in Nat
  /\ Cardinality(Counted) = 0 <=> Counted = {}
  /\ \A t \in Counted : Cardinality(Counted \ {t}) = Cardinality(Counted) - 1
  /\ \A t : t \notin Counted => Cardinality(Counted \cup {t}) = Cardinality(Counted) + 1
<1>1. IsFiniteSet(Counted)
  BY RWMutexAssumption, FS_Subset DEF Counted
<1> QED
  BY <1>1, FS_CardinalityType, FS_EmptySet, FS_RemoveElement, FS_AddElement

LEMMA InitInv == Init => IInv
<1> SUFFICES ASSUME Init PROVE IInv
  OBVIOUS
<1>1. TypeOK
  <2>1. TypeOK!1 /\ TypeOK!2 /\ TypeOK!3 /\ TypeOK!4 /\ TypeOK!5 /\ TypeOK!6
    BY RWMutexAssumption, SMT DEF Init, TypeOK, Labels
  <2>2. TypeOK!7
    BY DEF Init, TypeOK
  <2> QED
    BY <2>1, <2>2 DEF TypeOK
<1>2. Counted = {} /\ Claimants = {} /\ Readers = {}
  BY SMT DEF Init, Counted, Claimants, Readers, Reading, Writing
<1>3. OpsMatch /\ MutexOwned /\ NoErrors
  BY RWMutexAssumption, SMT DEF Init, OpsMatch, MutexOwned, NoErrors, Writing
<1>4. lost = FALSE /\ r = 0
  BY DEF Init
<1> QED
  BY <1>1, <1>2, <1>3, <1>4, FS_EmptySet, SMT DEF IInv, Accounted, NoReaders, Taken

\* The labels, the operations and the mutex: the parts of the invariant that
\* need no counting.
LEMMA StepOwned ==
  ASSUME IInv, NEW t \in Threads, Step(t)
  PROVE  OpsMatch' /\ MutexOwned' /\ mark' = mark
<1> USE RWMutexAssumption DEF IInv, TypeOK, OpsMatch, MutexOwned, Goto, Writing, Requests
<1>1. CASE Call(t)
  BY <1>1, SMT DEF Call, Step
<1>2. CASE Add(t) \/ Back(t) \/ Await(t) \/ Pass(t)
  BY <1>2, SMT DEF Add, Back, Await, Pass, Step
<1>3. CASE ReadUnlock(t) \/ Load(t) \/ Sub(t) \/ Swap(t) \/ SwapBusy(t)
  BY <1>3, SMT DEF ReadUnlock, Load, Sub, Swap, SwapBusy, Step
<1>4. CASE Claim(t) \/ ClaimBusy(t) \/ WriteUnlock(t) \/ Unswap(t) \/ Drop(t)
  <2>1. ~(Unswap(t) /\ r < mark)
    <3>1. ASSUME Unswap(t) PROVE t \in Claimants
      BY <3>1, SMT DEF Unswap, Claimants
    <3> QED
      BY <3>1, CountedFinite, SMT DEF Accounted
  <2> QED
    BY <1>4, <2>1, SMT DEF Claim, ClaimBusy, WriteUnlock, Unswap, Drop, Step
<1> QED
  BY <1>1, <1>2, <1>3, <1>4 DEF Step

\* A step that moves no addition to r keeps what r counts.
LEMMA StepQuiet ==
  ASSUME IInv, NEW t \in Threads, Step(t),
         \/ Call(t) \/ Await(t) \/ Pass(t) \/ ReadUnlock(t) \/ Load(t) \/ SwapBusy(t)
         \/ Claim(t) \/ WriteUnlock(t) \/ Drop(t)
  PROVE  Accounted' /\ NoReaders' /\ r' = r /\ lost' = lost
<1>1. /\ Counted' = Counted /\ Claimants' = Claimants /\ Readers' = Readers
      /\ r' = r /\ lost' = lost /\ mark' = mark
  <2>1. CASE Call(t) \/ Await(t) \/ Pass(t) \/ SwapBusy(t)
    BY <2>1, SMT DEF Call, Await, Pass, SwapBusy, Step, Goto, Requests, IInv, TypeOK, OpsMatch,
                     Counted, Claimants, Readers, Reading, Writing
  <2>2. CASE ReadUnlock(t) \/ Claim(t) \/ WriteUnlock(t) \/ Drop(t)
    BY <2>2, SMT DEF ReadUnlock, Claim, WriteUnlock, Drop, Step, Goto, IInv, TypeOK,
                     Counted, Claimants, Readers, Reading, Writing
  <2>3. CASE Load(t)
    <3>1. t \in Counted
      BY <2>3, SMT DEF Load, Goto, Counted, Reading
    <3>2. r # 0
      BY <3>1, CountedFinite, RWMutexAssumption, SMT DEF IInv, TypeOK, Accounted
    <3>3. r' = r /\ lost' = lost /\ mark' = mark /\ op' = op
      BY <2>3 DEF Load, Step
    <3>4. /\ pc[t] = "load" /\ op[t] = "runlock"
          /\ pc' = [pc EXCEPT ![t] = IF r < mark THEN "sub" ELSE "await"]
      BY <2>3, <3>2, SMT DEF Load, Goto, IInv, OpsMatch
    <3> QED
      BY <3>3, <3>4, SMT DEF IInv, TypeOK, Counted, Claimants, Readers, Reading, Writing
  <2> QED
    BY <2>1, <2>2, <2>3
<1> QED
  BY <1>1 DEF IInv, Accounted, NoReaders, Taken

\* A step that adds to r or subtracts from it keeps what r counts.
LEMMA StepCounts ==
  ASSUME IInv, NEW t \in Threads, Step(t),
         \/ Add(t) \/ Back(t) \/ Sub(t) \/ Swap(t) \/ ClaimBusy(t) \/ Unswap(t)
  PROVE  Accounted' /\ NoReaders' /\ r' \in Nat /\ lost' \in BOOLEAN
<1> DEFINE Rest == IF Taken THEN mark ELSE 0
<1>0. /\ mark \in Nat \ {0} /\ mark' = mark /\ r \in Nat /\ lost \in BOOLEAN
      /\ r = Cardinality(Counted) + Rest
  BY RWMutexAssumption DEF Step, IInv, TypeOK, Accounted, Taken
<1>1. CASE Add(t)
  <2>1. /\ t \notin Counted /\ Counted' = Counted \cup {t}
        /\ Claimants' = Claimants /\ r' = r + 1 /\ lost' = lost
    BY <1>1, SMT DEF Add, Goto, IInv, TypeOK, OpsMatch, Counted, Claimants, Readers,
                     Reading, Writing
  <2>2. Taken => Readers' = {}
    BY <1>0, <1>1, CountedFinite, SMT DEF Add, Goto, IInv, TypeOK, NoReaders, Readers, Reading
  <2> QED
    BY <1>0, <2>1, <2>2, CountedFinite, SMT DEF IInv, Accounted, NoReaders, Taken
<1>2. CASE Back(t) \/ Sub(t)
  <2>1. /\ t \in Counted /\ Counted' = Counted \ {t} /\ Readers' \subseteq Readers
        /\ Claimants' = Claimants /\ r' = r - 1 /\ lost' = lost
    BY <1>2, SMT DEF Back, Sub, Goto, IInv, TypeOK, OpsMatch, Counted, Claimants, Readers,
                     Reading, Writing
  <2> QED
    BY <1>0, <2>1, CountedFinite, SMT DEF IInv, Accounted, NoReaders, Taken
<1>3. CASE Swap(t)
  <2>1. Counted = {} /\ ~Taken
    BY <1>0, <1>3, CountedFinite, SMT DEF Swap
  <2>2. /\ Counted' = {} /\ Readers' = {} /\ Claimants' = {t}
        /\ r' = mark /\ lost' = lost
    BY <1>3, <2>1, SMT DEF Swap, Taken, Goto, IInv, TypeOK, OpsMatch, Counted, Claimants, Readers,
                     Reading, Writing
  <2> QED
    BY <1>0, <2>1, <2>2, FS_EmptySet, SMT DEF IInv, Accounted, NoReaders, Taken
<1>4. CASE ClaimBusy(t)
  <2>1. /\ Taken /\ Claimants' = {} /\ Counted' = Counted /\ Readers' = Readers
        /\ r' = r /\ lost' = TRUE
    BY <1>4, SMT DEF ClaimBusy, Accounted, Taken, Goto, IInv, TypeOK, OpsMatch, Counted, Claimants, Readers,
                     Reading, Writing
  <2> QED
    BY <1>0, <2>1, SMT DEF IInv, Accounted, NoReaders, Taken
<1>5. CASE Unswap(t)
  <2>1. Taken /\ ~lost
    BY <1>5, SMT DEF Unswap, Goto, IInv, Accounted, Taken, Claimants, Writing
  <2>2. r >= mark
    BY <1>0, <2>1, CountedFinite, SMT
  <2>3. /\ Claimants' = {} /\ Counted' = Counted /\ Readers' = Readers
        /\ r' = r - mark /\ lost' = lost
    BY <1>0, <1>5, <2>2, SMT DEF Unswap, Accounted, Goto, IInv, TypeOK, OpsMatch, Counted, Claimants, Readers,
                     Reading, Writing
  <2>4. ~lost' /\ ~Taken'
    BY <2>1, <2>3 DEF Taken
  <2>5. r' = Cardinality(Counted') /\ r' \in Nat
    BY <1>0, <2>1, <2>3, CountedFinite, SMT
  <2> QED
    BY <1>0, <2>3, <2>4, <2>5, SMT DEF Accounted, NoReaders, Taken
<1> QED
  BY <1>1, <1>2, <1>3, <1>4, <1>5

\* Those who hold a lock find themselves counted in r.
LEMMA StepNoErrors ==
  ASSUME IInv, NEW t \in Threads, Step(t)
  PROVE  NoErrors'
<1>1. CASE Load(t)
  <2>1. r # 0
    <3>1. t \in Counted
      BY <1>1, SMT DEF Load, Goto, Counted, Reading
    <3> QED
      BY <3>1, CountedFinite, RWMutexAssumption, SMT DEF IInv, TypeOK, Accounted
  <2> QED
    BY <1>1, <2>1, SMT DEF Load, Goto, IInv, TypeOK, NoErrors
<1>2. CASE Unswap(t)
  <2>1. r >= mark
    <3>1. t \in Claimants
      BY <1>2, SMT DEF Unswap, Goto, Claimants, Writing
    <3> QED
      BY <3>1, CountedFinite, RWMutexAssumption, SMT DEF IInv, TypeOK, Accounted
  <2> QED
    BY <1>2, <2>1, RWMutexAssumption, SMT DEF Unswap, Goto, IInv, TypeOK, NoErrors
<1>3. CASE Call(t) \/ Add(t) \/ Back(t) \/ Await(t) \/ Pass(t) \/ ReadUnlock(t) \/ Sub(t)
  BY <1>3, SMT DEF Call, Add, Back, Await, Pass, ReadUnlock, Sub, Goto, IInv, TypeOK,
                   NoErrors
<1>4. CASE Swap(t) \/ SwapBusy(t) \/ Claim(t) \/ ClaimBusy(t) \/ WriteUnlock(t) \/ Drop(t)
  BY <1>4, SMT DEF Swap, SwapBusy, Claim, ClaimBusy, WriteUnlock, Drop, Goto, IInv, TypeOK,
                   NoErrors
<1> QED
  BY <1>1, <1>2, <1>3, <1>4 DEF Step

\* A reader that leaves and has to wait: no watermark is in r then, as it reads itself.
LEMMA StepReleases ==
  ASSUME IInv, NEW t \in Threads, Step(t), NEW u \in Threads, pc[u] = "load", pc'[u] = "await"
  PROVE  Cardinality(Counted) >= mark
<1>1. u = t /\ Load(t)
  <2>1. u = t
    BY SMT DEF Step, Call, Add, Back, Await, Pass, ReadUnlock, Load, Sub, Swap, SwapBusy, Claim,
               ClaimBusy, WriteUnlock, Unswap, Drop, Goto, IInv, TypeOK
  <2> QED
    BY <2>1, SMT DEF Step, Call, Add, Back, Await, Pass, ReadUnlock, Sub, Swap, SwapBusy, Claim,
                     ClaimBusy, WriteUnlock, Unswap, Drop, Goto
<1>2. ~(r < mark)
  BY <1>1, SMT DEF Load, Goto, IInv, TypeOK
<1>3. ~Taken
  <2>1. u \in Readers
    BY DEF Readers, Reading
  <2> QED
    BY <2>1 DEF IInv, NoReaders
<1> QED
  BY <1>2, <1>3, CountedFinite, RWMutexAssumption, SMT DEF IInv, TypeOK, Accounted, Taken

LEMMA StepTypes ==
  ASSUME IInv, NEW t \in Threads, Step(t)
  PROVE  TypeOK'
<1>1. r' \in Nat /\ lost' \in BOOLEAN
  BY StepQuiet, StepCounts DEF Step, IInv, TypeOK
<1>2. mark' \in Marks
  BY DEF Step, IInv, TypeOK
<1> USE <1>1, <1>2, RWMutexAssumption DEF IInv, TypeOK, Goto, Labels, Requests
<1>3. CASE Call(t)
  BY <1>3, SMT DEF Call
<1>4. CASE Add(t) \/ Back(t) \/ Await(t) \/ Pass(t) \/ ReadUnlock(t) \/ Load(t) \/ Sub(t)
  BY <1>4, SMT DEF Add, Back, Await, Pass, ReadUnlock, Load, Sub
<1>5. CASE \/ Swap(t) \/ SwapBusy(t) \/ Claim(t) \/ ClaimBusy(t)
           \/ WriteUnlock(t) \/ Unswap(t) \/ Drop(t)
  BY <1>5, SMT DEF Swap, SwapBusy, Claim, ClaimBusy, WriteUnlock, Unswap, Drop
<1> QED
  BY <1>3, <1>4, <1>5 DEF Step

LEMMA Invariance == Spec => []IInv
<1>1. IInv /\ [Next]_vars => IInv'
  <2> SUFFICES ASSUME IInv, [Next]_vars PROVE IInv'
    OBVIOUS
  <2>1. ASSUME NEW t \in Threads, Step(t) PROVE IInv'
    <3>1. Accounted' /\ NoReaders'
      BY <2>1, StepQuiet, StepCounts DEF Step
    <3> QED
      BY <2>1, <3>1, StepOwned, StepNoErrors, StepTypes DEF IInv
  <2>2. CASE UNCHANGED vars
    BY <2>2 DEF vars, IInv, TypeOK, OpsMatch, Accounted, NoReaders, Taken, MutexOwned,
                NoErrors, Readers, Counted, Claimants, Reading, Writing
  <2> QED
    BY <2>1, <2>2 DEF Next
<1> QED
  BY <1>1, InitInv, PTL DEF Spec

\* r never falls below zero, and the other variables keep their types.
THEOREM TypeCorrect == Spec => []TypeOK
<1>1. IInv => TypeOK
  BY DEF IInv
<1> QED
  BY <1>1, Invariance, PTL

\* r counts the readers, those about to take back their addition, and the writer.
THEOREM RCounts == Spec => []Accounted
<1>1. IInv => Accounted
  BY DEF IInv
<1> QED
  BY <1>1, Invariance, PTL

\* While a write lock is held no read lock and no other write lock is held.
THEOREM ReadersOrWriter == Spec => []Exclusion
<1>1. IInv => Exclusion
  <2> SUFFICES ASSUME IInv, NEW t \in Threads, NEW u \in Threads,
                      Writing(t), Writing(u) \/ Reading(u)
               PROVE  t = u
    BY DEF Exclusion
  <2>1. t \in Claimants
    BY DEF Claimants
  <2>2. u \in Claimants
    BY <2>1 DEF IInv, NoReaders, Taken, Readers, Claimants
  <2> QED
    BY <2>1, <2>2 DEF IInv, Accounted
<1> QED
  BY <1>1, Invariance, PTL

\* The mutex belongs to a writer, one that leaves, or a reader that waited for one.
THEOREM MutexHasOwner == Spec => []MutexOwned
<1>1. IInv => MutexOwned
  BY DEF IInv
<1> QED
  BY <1>1, Invariance, PTL

\* Whoever holds a lock can release it: nobody is refused, and whatever the watermark, a
\* reader that leaves waits only where that many are counted in r - never for a writer.
THEOREM HoldersRelease == Spec => ReleaseSucceeds
<1>1. IInv /\ IInv' /\ [Next]_vars =>
        [\A t \in Threads :
           /\ pc'[t] # "error"
           /\ pc[t] = "load" /\ pc'[t] = "await" => Cardinality(Counted) >= mark]_vars
  <2> SUFFICES ASSUME IInv, IInv', Next, NEW u \in Threads
               PROVE  /\ pc'[u] # "error"
                      /\ pc[u] = "load" /\ pc'[u] = "await" => Cardinality(Counted) >= mark
    OBVIOUS
  <2>1. pc'[u] # "error"
    BY DEF IInv, NoErrors
  <2>2. PICK t \in Threads : Step(t)
    BY DEF Next
  <2> QED
    BY <2>1, <2>2, StepReleases
<1> QED
  BY <1>1, Invariance, PTL DEF Spec, ReleaseSucceeds

-----------------------------------------------------------------------------
(* r_sync_once.  The flag says how far the winner is, and there is one:    *)
(* the swap of 0 for 1 happens once.  A loser that waits for the mutex has *)
(* seen the flag above 1, when the winner had locked it, and so gets it    *)
(* only from the winner's unlock, after the statement.                     *)

\* The labels of the winner, in its order.
Making  == {"init", "claim", "announce"}
Running == {"stmt", "running", "end"}
Winning == Making \cup Running \cup {"release"}

OneWinner == \A t, u \in Threads : oncepc[t] \in Winning /\ oncepc[u] \in Winning => t = u

\* How far the winner is.
FlagTells ==
  \A t \in Threads : /\ oncepc[t] \in Making => flag = 1
                     /\ oncepc[t] \in Running => flag = 2
                     /\ oncepc[t] \in {"release", "pass", "returned"} => flag = 3
                     /\ oncepc[t] = "wait" => flag \in {2, 3}

\* Who holds the mutex; while the flag is 2 the winner does.
MutexHeld ==
  /\ \A t, u \in mu : t = u
  /\ \A t \in Threads : oncepc[t] \in {"announce", "release", "pass"} \cup Running => mu = {t}
  /\ flag = 2 => \E t \in Threads : oncepc[t] \in Running
  /\ flag \in {2, 3} => made
  /\ \A t \in Threads : oncepc[t] \in {"claim", "announce"} => made

\* The statement: begun by the winner once it may, ended before the flag is 3.
StatementRun ==
  /\ \A t \in begun : oncepc[t] \in {"running", "end"} \/ flag = 3
  /\ \A t, u \in begun : t = u
  /\ \A t \in Threads : /\ oncepc[t] = "running" => t \in begun
                        /\ oncepc[t] = "end" => ended # {}
  /\ flag = 3 => ended # {}

OnceIInv == Once!TypeOK /\ OneWinner /\ FlagTells /\ MutexHeld /\ StatementRun

LEMMA OnceInitInv == Once!Init => OnceIInv
<1> SUFFICES ASSUME Once!Init PROVE OnceIInv
  OBVIOUS
<1>1. Once!TypeOK
  <2>1. made \in BOOLEAN
    BY DEF Once!Init
  <2> QED
    BY <2>1, SMT DEF Once!Init, Once!TypeOK, Once!Labels
<1>2. OneWinner /\ FlagTells /\ StatementRun
  BY SMT DEF Once!Init, OneWinner, FlagTells, StatementRun, Making, Running, Winning
<1>3. MutexHeld
  BY SMT DEF Once!Init, MutexHeld, Running
<1> QED
  BY <1>1, <1>2, <1>3 DEF OnceIInv

\* A step of the winner: each is the next of its own.
LEMMA WinnerStep ==
  ASSUME OnceIInv, NEW t \in Threads,
         \/ Once!Win(t) \/ Once!InitMutex(t) \/ Once!Claim(t) \/ Once!Announce(t)
         \/ Once!Begin(t) \/ Once!Finish(t) \/ Once!End(t) \/ Once!Release(t)
  PROVE  OnceIInv'
<1> USE DEF OnceIInv, Once!TypeOK, Once!Labels, OneWinner, FlagTells, MutexHeld, StatementRun, Once!Goto,
            Making, Running, Winning
<1>1. CASE Once!Win(t)
  BY <1>1, SMT DEF Once!Win
<1>2. CASE Once!InitMutex(t)
  BY <1>2, SMT DEF Once!InitMutex
<1>3. CASE Once!Claim(t)
  BY <1>3, SMT DEF Once!Claim
<1>4. CASE Once!Announce(t)
  BY <1>4, SMT DEF Once!Announce
<1>5. CASE Once!Begin(t)
  BY <1>5, SMT DEF Once!Begin
<1>6. CASE Once!Finish(t)
  BY <1>6, SMT DEF Once!Finish
<1>7. CASE Once!End(t)
  BY <1>7, SMT DEF Once!End
<1>8. CASE Once!Release(t)
  BY <1>8, SMT DEF Once!Release
<1> QED
  BY <1>1, <1>2, <1>3, <1>4, <1>5, <1>6, <1>7, <1>8

\* A step of another thread: it changes the mutex only when the flag is 3.
LEMMA LoserStep ==
  ASSUME OnceIInv, NEW t \in Threads,
         Once!Enter(t) \/ Once!Lose(t) \/ Once!Spin(t) \/ Once!Wait(t) \/ Once!Pass(t)
  PROVE  OnceIInv'
<1> USE DEF OnceIInv, Once!TypeOK, Once!Labels, OneWinner, FlagTells, MutexHeld, StatementRun, Once!Goto,
            Making, Running, Winning
<1>1. CASE Once!Enter(t)
  BY <1>1, SMT DEF Once!Enter
<1>2. CASE Once!Lose(t)
  BY <1>2, SMT DEF Once!Lose
<1>3. CASE Once!Spin(t)
  BY <1>3, SMT DEF Once!Spin
<1>4. CASE Once!Wait(t)
  <2>1. flag = 3
    BY <1>4, SMT DEF Once!Wait
  <2> QED
    BY <1>4, <2>1, SMT DEF Once!Wait
<1>5. CASE Once!Pass(t)
  BY <1>5, SMT DEF Once!Pass
<1> QED
  BY <1>1, <1>2, <1>3, <1>4, <1>5

LEMMA OnceInvariance == Once!Spec => []OnceIInv
<1>1. Once!Init => OnceIInv
  BY OnceInitInv
<1>2. OnceIInv /\ [Once!Next]_(Once!vars) => OnceIInv'
  <2>1. ASSUME OnceIInv, UNCHANGED Once!vars PROVE OnceIInv'
    BY <2>1 DEF Once!vars, OnceIInv, Once!TypeOK, OneWinner, FlagTells, MutexHeld, StatementRun
  <2> QED
    BY <2>1, WinnerStep, LoserStep DEF Once!Next, Once!Step
<1> QED
  BY <1>1, <1>2, PTL DEF Once!Spec

\* thread.h: "execute code exactly once", and whoever returns finds it executed.
THEOREM RunsOnce == Once!Spec => []Once!OnceBeforeReturn
<1>1. OnceIInv => Once!OnceBeforeReturn
  BY SMT DEF OnceIInv, FlagTells, StatementRun, Once!OnceBeforeReturn
<1> QED
  BY <1>1, OnceInvariance, PTL

\* thread.c: nobody locks the mutex before it is made, and no loser passes it before the
\* winner has run the statement.
THEOREM NotTooEarly == Once!Spec => []Once!MutexReady
<1>1. OnceIInv => Once!MutexReady
  BY SMT DEF OnceIInv, FlagTells, MutexHeld, Once!MutexReady
<1> QED
  BY <1>1, OnceInvariance, PTL

-----------------------------------------------------------------------------
(* The lock that is created on first use.                                  *)

\* Every step of the two together is one of each, or none.
LEMMA Parts == BothSpec => Spec /\ Once!Spec
<1>1. BothInit => Init /\ Once!Init
  BY DEF BothInit
<1>2. [BothNext]_bothvars => [Next]_vars
  BY DEF BothNext, OnceStep, LockStep, Next, bothvars
<1>3. [BothNext]_bothvars => [Once!Next]_(Once!vars)
  BY DEF BothNext, OnceStep, LockStep, Once!Next, Once!vars, oncevars, bothvars
<1> QED
  BY <1>1, <1>2, <1>3, PTL DEF BothSpec, Spec, Once!Spec

\* r_sync_once: the statement runs once, ends before any call returns, and the losers wait
\* for a mutex that is made, also while others use the lock already.
THEOREM CreatedOnce == BothSpec => []OnceInv
<1>1. OnceIInv => OnceInv
  BY DEF OnceIInv, FlagTells, MutexHeld, StatementRun, OnceInv, Once!OnceBeforeReturn, Once!MutexReady
<1> QED
  BY <1>1, Parts, OnceInvariance, PTL

\* thread.c and thread.h together: what holds of the lock holds of one made on first use.
THEOREM LazyLock == BothSpec => [](Exclusion /\ Accounted /\ MutexOwned) /\ ReleaseSucceeds
BY Parts, ReadersOrWriter, RCounts, MutexHasOwner, HoldersRelease, PTL

\* A thread that has asked for the lock has returned from r_sync_once, and returns at once
\* when it comes by again.
Passed == \A t \in Threads : ncalls[t] > 0 => oncepc[t] = "returned"

LEMMA PassedKept == ASSUME TypeOK, OnceIInv, Passed, [BothNext]_bothvars PROVE Passed'
<1> USE DEF Passed, TypeOK, OnceIInv, Once!TypeOK
<1>1. ASSUME NEW u \in Threads, LockStep(u) PROVE Passed'
  <2>1. UNCHANGED oncepc /\ oncepc[u] = "returned"
    BY <1>1 DEF LockStep, oncevars
  <2>2. \A t \in Threads : t # u => ncalls'[t] = ncalls[t]
    BY <1>1 DEF LockStep, Step, Call, Add, Back, Await, Pass, ReadUnlock, Load, Sub, Swap,
                SwapBusy, Claim, ClaimBusy, WriteUnlock, Unswap, Drop
  <2> QED
    BY <2>1, <2>2
<1>2. ASSUME NEW u \in Threads, OnceStep(u) PROVE Passed'
  <2>1. ncalls' = ncalls
    BY <1>2 DEF OnceStep, vars
  <2>2. Once!Step(u)
    BY <1>2 DEF OnceStep
  <2>3. CASE Once!Enter(u)
    <3>1. oncepc[u] = "returned" => flag = 3
      BY DEF FlagTells
    <3> QED
      BY <2>1, <2>3, <3>1 DEF Once!Enter
  <2>4. CASE ~Once!Enter(u)
    <3>1. oncepc[u] # "returned"
      BY <2>2, <2>4 DEF Once!Step, Once!Win, Once!InitMutex, Once!Claim, Once!Announce,
            Once!Begin, Once!Finish, Once!End, Once!Release, Once!Lose, Once!Spin,
            Once!Wait, Once!Pass, Once!Goto
    <3>2. \A t \in Threads : t # u => oncepc'[t] = oncepc[t]
      BY <2>2, <2>4 DEF Once!Step, Once!Win, Once!InitMutex, Once!Claim, Once!Announce,
            Once!Begin, Once!Finish, Once!End, Once!Release, Once!Lose, Once!Spin,
            Once!Wait, Once!Pass, Once!Goto
    <3> QED
      BY <2>1, <3>1, <3>2
  <2> QED
    BY <2>3, <2>4
<1>3. CASE UNCHANGED bothvars
  BY <1>3 DEF bothvars, vars, oncevars
<1> QED
  BY <1>1, <1>2, <1>3 DEF BothNext

\* thread.h: whoever asks for the lock finds it made, and the statement that makes it ended.
THEOREM MadeBeforeUse ==
  BothSpec => [](\A t \in Threads : ncalls[t] > 0 => made /\ ended # {})
<1>1. BothInit => Passed
  BY DEF BothInit, Init, Once!Init, Passed
<1>2. TypeOK /\ OnceIInv /\ Passed /\ [BothNext]_bothvars => Passed'
  BY PassedKept
<1>3. OnceIInv /\ Passed => \A t \in Threads : ncalls[t] > 0 => made /\ ended # {}
  BY DEF Passed, OnceIInv, FlagTells, MutexHeld, StatementRun
<1> QED
  BY <1>1, <1>2, <1>3, Parts, TypeCorrect, OnceInvariance, PTL DEF BothSpec
=============================================================================
