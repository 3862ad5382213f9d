---------------------------- MODULE LSemaProofs ----------------------------
(***************************************************************************)
(* Proofs about LSema, for any number of threads, any program of calls and *)
(* any number of permits in a signal, when LSemaInit is given no permits,  *)
(* as everywhere in the repository.                                        *)
(*                                                                         *)
(* Between LSemaSignal's addition and its last post the permits it has     *)
(* still to post belong to the sleepers already: with them in the sum, the *)
(* balance of sleepers, count and permits holds at every step.             *)
(***************************************************************************)
EXTENDS LSema, FiniteSetTheorems, TLAPS

\* The posts that are still to be made, each of a thread and a number.
Owed == {tn \in Threads \X Nat : pc[tn[1]] = "post" /\ tn[2] \in 1 .. left[tn[1]]}

\* How many sleepers there are whom no post is meant for.
Short == IF count < 0 THEN -count ELSE 0

Balance ==
  /\ IsFiniteSet(Owed)
  /\ sema + Cardinality(Owed) + Short = Cardinality(Sleepers)

\* A thread takes its decrement back only where the count it has seen was below zero.
UndoesItsOwn == \A t \in Threads : pc[t] = "undo" => old[t] < 0

IInv == TypeOK /\ Balance /\ UndoesItsOwn

\* Semaphore counts as LSema does.
LEMMA SameCount == ASSUME NEW x PROVE S!Cardinality(x) = Cardinality(x)
BY DEF S!Cardinality, Cardinality

LEMMA SleepersFinite ==
  /\ IsFiniteSet(Sleepers)
  /\ Cardinality(Sleepers) \in Nat
  /\ \A t \in Sleepers : Cardinality(Sleepers \ {t}) = Cardinality(Sleepers) - 1
  /\ \A t : t \notin Sleepers => Cardinality(Sleepers \cup {t}) = Cardinality(Sleepers) + 1
<1>1. IsFiniteSet(Sleepers)
  BY LSemaAssumption, FS_Subset DEF Sleepers
<1> QED
  BY <1>1, FS_CardinalityType, FS_RemoveElement, FS_AddElement

\* LSemaInit.
LEMMA InitInv ==
  ASSUME InitCount = 0, Init
  PROVE  IInv
<1>1. TypeOK
  <2>1. count \in Int /\ sema \in Nat
    BY LSemaAssumption, SMT DEF Init
  <2> QED
    BY <2>1, SMT DEF Init, TypeOK, Labels, Ops
<1>2. Owed = {} /\ Sleepers = {}
  BY SMT DEF Init, Owed, Sleepers
<1>3. count = 0 /\ sema = 0
  BY DEF Init
<1>4. UndoesItsOwn
  BY SMT DEF Init, UndoesItsOwn
<1> QED
  BY <1>1, <1>2, <1>3, <1>4, FS_EmptySet, SMT DEF IInv, Balance, Short

\* Types, and what a thread about to undo has seen: no counting is needed.
LEMMA StepTypes ==
  ASSUME TypeOK, UndoesItsOwn, NEW t \in Threads, Step(t) \/ \E o \in Ops : Start(t, o)
  PROVE  TypeOK' /\ UndoesItsOwn'
<1> USE DEF TypeOK, UndoesItsOwn, Goto, Return, Labels, Ops, call
<1>1. ASSUME NEW o \in Ops, Start(t, o) PROVE TypeOK' /\ UndoesItsOwn'
  <2>1. PICK k \in 1 .. MaxSignal : left' = [left EXCEPT ![t] = IF o = "signal" THEN k ELSE 0]
    BY <1>1 DEF Start
  <2>2. left' \in [Threads -> Nat]
    BY <2>1, LSemaAssumption, SMT
  <2> QED
    BY <1>1, <2>2, SMT DEF Start
<1>2. ASSUME Step(t) PROVE TypeOK' /\ UndoesItsOwn'
  <2>1. ret' \in [Threads -> BOOLEAN]
    <3>1. ret' = ret \/ \E v \in BOOLEAN : ret' = [ret EXCEPT ![t] = v]
      BY <1>2, Zenon DEF Step, TakeOne, TryFails, GiveUp, Wake, Expire, LoadCount, LateWake,
                         Undo, SignalAdd, SignalPost
    <3> QED
      BY <3>1
  <2>2. (TypeOK!1 /\ TypeOK!2 /\ TypeOK!3 /\ TypeOK!4 /\ TypeOK!5 /\ TypeOK!6 /\ TypeOK!7)'
        /\ UndoesItsOwn'
    <3>1. CASE TakeOne(t) \/ TryFails(t) \/ GiveUp(t)
      BY <3>1, SMT DEF TakeOne, TryFails, GiveUp
    <3>2. CASE Wake(t) \/ Expire(t) \/ LateWake(t)
      BY <3>2, SMT DEF Wake, Expire, LateWake
    <3>3. CASE LoadCount(t) \/ Undo(t)
      BY <3>3, SMT DEF LoadCount, Undo
    <3>4. CASE SignalAdd(t) \/ SignalPost(t)
      BY <3>4, SMT DEF SignalAdd, SignalPost, ToRelease
    <3> QED
      BY <1>2, <3>1, <3>2, <3>3, <3>4 DEF Step
  <2> QED
    BY <2>1, <2>2
<1> QED
  BY <1>1, <1>2

\* What a step does to those who sleep and to the posts to be made, for a step that is
\* no step of LSemaSignal.
LEMMA WaiterMoves ==
  ASSUME IInv, NEW t \in Threads, Step(t), ~SignalAdd(t), ~SignalPost(t)
  PROVE  /\ Owed' = Owed
         /\ \/ Sleepers' = Sleepers /\ sema' = sema /\ Short' = Short
            \/ /\ t \notin Sleepers /\ Sleepers' = Sleepers \cup {t}
               /\ sema' = sema /\ Short' = Short + 1
            \/ /\ t \in Sleepers /\ Sleepers' = Sleepers \ {t}
               /\ sema' + Short' = sema + Short - 1
<1> USE DEF IInv, TypeOK, Goto, Return, call, Sleepers, Short
<1>1. Owed' = Owed
  BY SMT DEF Step, Owed, TakeOne, TryFails, GiveUp, Wake, Expire, LoadCount, LateWake, Undo
<1>2. CASE TakeOne(t) \/ TryFails(t) \/ Expire(t) \/ LoadCount(t)
  BY <1>1, <1>2, SMT DEF TakeOne, TryFails, Expire, LoadCount
<1>3. CASE GiveUp(t)
  BY <1>1, <1>3, SMT DEF GiveUp
<1>4. CASE Wake(t) \/ LateWake(t)
  BY <1>1, <1>4, SMT DEF Wake, LateWake
<1>5. CASE Undo(t)
  BY <1>1, <1>5, SMT DEF Undo, UndoesItsOwn
<1> QED
  BY <1>2, <1>3, <1>4, <1>5 DEF Step

\* The addition of LSemaSignal moves as many sleepers from those who are short of a post
\* to those who have one coming.
LEMMA SignalOwes ==
  ASSUME IInv, NEW t \in Threads, SignalAdd(t)
  PROVE  /\ Sleepers' = Sleepers /\ sema' = sema
         /\ IsFiniteSet(Owed')
         /\ Cardinality(Owed') + Short' = Cardinality(Owed) + Short
<1> DEFINE release == ToRelease(count, left[t])
           new     == {t} \X (1 .. release)
<1>1. /\ count \in Int /\ left[t] \in Nat /\ release \in Nat
      /\ sema' = sema /\ count' = count + left[t] /\ left' = [left EXCEPT ![t] = release]
      /\ pc[t] = "add" /\ pc' = [pc EXCEPT ![t] = IF release > 0 THEN "post" ELSE "idle"]
  BY SMT DEF IInv, TypeOK, SignalAdd, ToRelease, Goto
<1>2. Sleepers' = Sleepers
  BY <1>1, SMT DEF IInv, TypeOK, Sleepers
<1>3. Short' = Short - release
  BY <1>1, SMT DEF Short, ToRelease
<1>4. Owed' = Owed \cup new /\ Owed \cap new = {}
  BY <1>1, SMT DEF IInv, TypeOK, Owed
<1>5. IsFiniteSet(new) /\ Cardinality(new) = release
  <2>1. IsFiniteSet(1 .. release) /\ Cardinality(1 .. release) = release
    BY <1>1, FS_Interval, SMT
  <2>2. IsFiniteSet({t}) /\ Cardinality({t}) = 1
    BY FS_Singleton
  <2> QED
    BY <1>1, <2>1, <2>2, FS_Product, SMT
<1>6. /\ IsFiniteSet(Owed') /\ Cardinality(Owed') = Cardinality(Owed) + release
      /\ Cardinality(Owed) \in Nat
  <2>1. IsFiniteSet(Owed) /\ Cardinality(Owed) \in Nat
    BY FS_CardinalityType DEF IInv, Balance
  <2>2. /\ IsFiniteSet(Owed \cup new)
        /\ Cardinality(Owed \cup new) = Cardinality(Owed) + Cardinality(new) - Cardinality(Owed \cap new)
    BY <1>5, <2>1, FS_Union
  <2>3. Cardinality(Owed \cap new) = 0
    BY <1>4, FS_EmptySet
  <2> QED
    BY <1>1, <1>4, <1>5, <2>1, <2>2, <2>3, SMT
<1>7. Short \in Int
  BY <1>1, SMT DEF Short
<1> QED
  BY <1>1, <1>2, <1>3, <1>6, <1>7, SMT

\* A post moves one permit from those owed to the semaphore underneath.
LEMMA SignalPays ==
  ASSUME IInv, NEW t \in Threads, SignalPost(t)
  PROVE  /\ Sleepers' = Sleepers /\ Short' = Short /\ count' = count /\ ret' = ret
         /\ IsFiniteSet(Owed')
         /\ sema' + Cardinality(Owed') = sema + Cardinality(Owed)
<1>1. /\ left[t] \in Nat \ {0} /\ sema' = sema + 1 /\ sema \in Nat
      /\ count' = count /\ ret' = ret /\ left' = [left EXCEPT ![t] = @ - 1]
      /\ pc[t] = "post" /\ pc' = [pc EXCEPT ![t] = IF left[t] > 1 THEN "post" ELSE "idle"]
  BY SMT DEF IInv, TypeOK, SignalPost, Goto
<1>2. Sleepers' = Sleepers /\ Short' = Short
  BY <1>1, SMT DEF IInv, TypeOK, Sleepers, Short
<1>3. <<t, left[t]>> \in Owed /\ Owed' = Owed \ {<<t, left[t]>>}
  BY <1>1, SMT DEF IInv, TypeOK, Owed
<1>4. /\ IsFiniteSet(Owed') /\ Cardinality(Owed') = Cardinality(Owed) - 1
      /\ Cardinality(Owed) \in Nat
  BY <1>3, FS_RemoveElement, FS_CardinalityType DEF IInv, Balance
<1> QED
  BY <1>1, <1>2, <1>4, SMT

LEMMA StepInv ==
  ASSUME IInv, [Next]_vars
  PROVE  IInv'
<1>1. CASE UNCHANGED vars
  <2>1. Owed' = Owed /\ Sleepers' = Sleepers /\ Short' = Short /\ sema' = sema
    BY <1>1 DEF vars, Owed, Sleepers, Short
  <2>2. TypeOK' /\ UndoesItsOwn'
    BY <1>1 DEF vars, IInv, TypeOK, UndoesItsOwn
  <2> QED
    BY <2>1, <2>2 DEF IInv, Balance
<1>2. ASSUME NEW t \in Threads, NEW o \in Ops, Start(t, o) PROVE IInv'
  <2>1. TypeOK' /\ UndoesItsOwn'
    BY <1>2, StepTypes DEF IInv
  <2>2. Sleepers' = Sleepers /\ Short' = Short /\ sema' = sema
    BY <1>2, SMT DEF IInv, TypeOK, Start, Goto, Sleepers, Short
  <2>3. Owed' = Owed
    <3>1. /\ pc[t] = "idle" /\ pc'[t] # "post" /\ left' \in [Threads -> Nat]
          /\ \A u \in Threads \ {t} : pc'[u] = pc[u] /\ left'[u] = left[u]
      BY <1>2, <2>1, SMT DEF IInv, TypeOK, Start, Goto
    <3> QED
      BY <3>1, SMT DEF Owed
  <2> QED
    BY <2>1, <2>2, <2>3 DEF IInv, Balance
<1>3. ASSUME NEW t \in Threads, Step(t) PROVE IInv'
  <2>0. /\ TypeOK' /\ UndoesItsOwn'
        /\ sema \in Nat /\ sema' \in Nat /\ Short \in Int /\ Short' \in Int
        /\ IsFiniteSet(Owed) /\ Cardinality(Owed) \in Nat
        /\ sema + Cardinality(Owed) + Short = Cardinality(Sleepers)
    <3>1. TypeOK' /\ UndoesItsOwn'
      BY <1>3, StepTypes DEF IInv
    <3> QED
      BY <3>1, FS_CardinalityType, SMT DEF IInv, TypeOK, Balance, Short
  <2>1. CASE SignalAdd(t)
    <3>1. /\ Sleepers' = Sleepers /\ sema' = sema /\ IsFiniteSet(Owed')
          /\ Cardinality(Owed') + Short' = Cardinality(Owed) + Short
      BY <2>1, SignalOwes
    <3>2. Cardinality(Owed') \in Nat
      BY <3>1, FS_CardinalityType
    <3> QED
      BY <2>0, <3>1, <3>2, SMT DEF IInv, Balance
  <2>2. CASE SignalPost(t)
    <3>1. /\ Sleepers' = Sleepers /\ Short' = Short /\ IsFiniteSet(Owed')
          /\ sema' + Cardinality(Owed') = sema + Cardinality(Owed)
      BY <2>2, SignalPays
    <3>2. Cardinality(Owed') \in Nat
      BY <3>1, FS_CardinalityType
    <3> QED
      BY <2>0, <3>1, <3>2, SMT DEF IInv, Balance
  <2>3. CASE ~SignalAdd(t) /\ ~SignalPost(t)
    <3>1. Owed' = Owed /\ Cardinality(Sleepers) \in Nat
      BY <1>3, <2>3, WaiterMoves, SleepersFinite
    <3>2. CASE Sleepers' = Sleepers /\ sema' = sema /\ Short' = Short
      BY <2>0, <3>1, <3>2 DEF IInv, Balance
    <3>3. CASE /\ t \notin Sleepers /\ Sleepers' = Sleepers \cup {t}
               /\ sema' = sema /\ Short' = Short + 1
      <4>1. Cardinality(Sleepers') = Cardinality(Sleepers) + 1
        BY <3>3, SleepersFinite
      <4> QED
        BY <2>0, <3>1, <3>3, <4>1, SMT DEF IInv, Balance
    <3>4. CASE /\ t \in Sleepers /\ Sleepers' = Sleepers \ {t}
               /\ sema' + Short' = sema + Short - 1
      <4>1. Cardinality(Sleepers') = Cardinality(Sleepers) - 1
        BY <3>4, SleepersFinite
      <4>2. Cardinality(Owed') = Cardinality(Owed)
        BY <3>1
      <4>3. sema' + Short' = sema + Short - 1
        BY <3>4
      <4>4. sema' + Cardinality(Owed') + Short' = Cardinality(Sleepers')
        <5> DEFINE s == sema  s2 == sema'  d == Short  d2 == Short'
                   o == Cardinality(Owed)  c == Cardinality(Sleepers)
        <5>1. /\ s \in Int /\ s2 \in Int /\ d \in Int /\ d2 \in Int /\ o \in Int
              /\ s + o + d = c /\ s2 + d2 = s + d - 1
          <6>1. s \in Int /\ s2 \in Int
            BY <2>0, SMT
          <6>2. d \in Int /\ d2 \in Int
            BY <2>0, SMT
          <6>3. o \in Int
            BY <2>0, SMT
          <6>4. s + o + d = c
            BY <2>0
          <6>5. s2 + d2 = s + d - 1
            BY <4>3
          <6> QED
            BY <6>1, <6>2, <6>3, <6>4, <6>5
        <5> HIDE DEF s, s2, d, d2, o, c
        <5>2. s2 + o + d2 = c - 1
          BY <5>1, SMT
        <5> QED
          BY <4>1, <4>2, <5>2 DEF s2, d2, o, c
      <4> QED
        BY <2>0, <3>1, <4>4 DEF IInv, Balance
    <3> QED
      BY <1>3, <2>3, <3>2, <3>3, <3>4, WaiterMoves
  <2> QED
    BY <2>1, <2>2, <2>3
<1> QED
  BY <1>1, <1>2, <1>3 DEF Next

LEMMA Invariance == ASSUME InitCount = 0 PROVE Spec => []IInv
<1>1. Init => IInv
  BY InitInv
<1>2. IInv /\ [Next]_vars => IInv'
  BY StepInv
<1> QED
  BY <1>1, <1>2, PTL DEF Spec

\* The balance implies what the runs check.
LEMMA InvPermits == IInv => PermitsInv
<1> SUFFICES ASSUME IInv PROVE PermitsInv
  OBVIOUS
<1>1. /\ count \in Int /\ sema \in Nat /\ Cardinality(Owed) \in Nat
      /\ Cardinality(Sleepers) \in Nat
      /\ sema + Cardinality(Owed) + Short = Cardinality(Sleepers)
  BY FS_CardinalityType, SleepersFinite DEF IInv, TypeOK, Balance
<1>2. NoExtraSignal
  BY <1>1, SMT DEF NoExtraSignal, Short
<1>3. PermitsMatch
  <2> SUFFICES ASSUME \A t \in Threads : pc[t] # "post"
               PROVE  sema = Cardinality(Sleepers) - Short
    BY DEF PermitsMatch, Short
  <2>1. Owed = {}
    BY SMT DEF Owed
  <2> QED
    BY <1>1, <2>1, FS_EmptySet, SMT DEF Short
<1> QED
  BY <1>2, <1>3 DEF PermitsInv, IInv

\* thread_sema.c: no permit is lost or invented, whatever times out meanwhile: once the
\* posts are made, the semaphore underneath has a permit for every sleeper but those the
\* count says are short of one.
THEOREM PermitsKept == ASSUME InitCount = 0 PROVE Spec => []PermitsInv
<1>1. Spec => []IInv
  BY Invariance
<1> QED
  BY <1>1, InvPermits, PTL

\* A step of the code is a step of the counting semaphore, or changes nothing of it.
LEMMA StepRefines ==
  ASSUME IInv, IInv', [Next]_vars
  PROVE  [S!Next]_<<count + Cardinality(Sleepers), Sleepers, ret>>
<1> DEFINE avail == count + Cardinality(Sleepers)
<1> SUFFICES S!Next \/ (avail' = avail /\ Sleepers' = Sleepers /\ ret' = ret)
  OBVIOUS
<1>0. /\ count \in Int /\ sema \in Nat /\ ret \in [Threads -> BOOLEAN]
      /\ Cardinality(Sleepers) \in Nat /\ avail >= 0
      /\ count <= 0 => avail <= Cardinality(Sleepers)
      /\ count < 0 => avail < Cardinality(Sleepers)
  BY InvPermits, SleepersFinite, SMT DEF IInv, TypeOK, PermitsInv, NoExtraSignal
<1>1. CASE UNCHANGED vars
  BY <1>1 DEF vars, Sleepers
<1>2. ASSUME NEW t \in Threads, NEW o \in Ops, Start(t, o)
      PROVE  avail' = avail /\ Sleepers' = Sleepers /\ ret' = ret
  BY <1>2, SMTT(30) DEF Start, Goto, IInv, TypeOK, Sleepers
<1>3. ASSUME NEW t \in Threads, Step(t)
      PROVE  S!Next \/ (avail' = avail /\ Sleepers' = Sleepers /\ ret' = ret)
  <2> USE DEF Goto, Return, call
  <2>1. CASE TakeOne(t)
    <3>1. Sleepers' = Sleepers /\ t \notin Sleepers /\ count > 0 /\ count' = count - 1
          /\ ret' = [ret EXCEPT ![t] = TRUE]
      BY <2>1, SMT DEF TakeOne, IInv, TypeOK, Sleepers
    <3>2. S!Take(t)
      BY <1>0, <3>1, SMT DEF S!Take
    <3> QED
      BY <3>2 DEF S!Next
  <2>2. CASE TryFails(t)
    <3>1. /\ Sleepers' = Sleepers /\ t \notin Sleepers /\ count <= 0 /\ count' = count
          /\ ret' = ret \/ ret' = [ret EXCEPT ![t] = FALSE]
      BY <2>2, SMT DEF TryFails, IInv, TypeOK, Sleepers
    <3>2. CASE ret' = [ret EXCEPT ![t] = FALSE]
      <4>1. S!Fail(t)
        BY <1>0, <3>1, <3>2, SameCount, SMT DEF S!Fail
      <4> QED
        BY <4>1 DEF S!Next
    <3> QED
      BY <3>1, <3>2
  <2>3. CASE GiveUp(t) /\ count > 0
    <3>1. Sleepers' = Sleepers /\ t \notin Sleepers /\ count > 0 /\ count' = count - 1
          /\ ret' = [ret EXCEPT ![t] = TRUE]
      BY <2>3, SMT DEF GiveUp, IInv, TypeOK, Sleepers
    <3>2. S!Take(t)
      BY <1>0, <3>1, SMT DEF S!Take
    <3> QED
      BY <3>2 DEF S!Next
  <2>4. CASE GiveUp(t) /\ ~(count > 0)
    <3>1. /\ Sleepers' = Sleepers \cup {t} /\ t \notin Sleepers /\ count <= 0
          /\ count' = count - 1 /\ ret' = ret
      BY <1>0, <2>4, SMT DEF GiveUp, IInv, TypeOK, Sleepers
    <3>2. S!Join(t)
      BY <1>0, <3>1, SleepersFinite, SameCount, SMT DEF S!Join
    <3> QED
      BY <3>2 DEF S!Next
  <2>5. CASE Wake(t) \/ (LateWake(t) /\ sema > 0)
    <3>1. /\ t \in Sleepers /\ Sleepers' = Sleepers \ {t} /\ count' = count /\ sema > 0
          /\ ret' = [ret EXCEPT ![t] = TRUE]
      BY <2>5, SMT DEF Wake, LateWake, IInv, TypeOK, Sleepers
    <3>2. avail > 0
      <4>1. Cardinality(Owed) \in Nat /\ sema + Cardinality(Owed) + Short = Cardinality(Sleepers)
        BY FS_CardinalityType DEF IInv, Balance
      <4> QED
        BY <1>0, <3>1, <4>1, SMT DEF Short
    <3>3. S!Take(t)
      BY <1>0, <3>1, <3>2, SleepersFinite, SMT DEF S!Take
    <3> QED
      BY <3>3 DEF S!Next
  <2>6. CASE Undo(t) /\ count = old[t]
    <3>1. /\ t \in Sleepers /\ Sleepers' = Sleepers \ {t} /\ count' = count + 1 /\ count < 0
          /\ ret' = [ret EXCEPT ![t] = FALSE]
      BY <2>6, SMT DEF Undo, IInv, TypeOK, UndoesItsOwn, Sleepers
    <3>2. S!TimeOut(t)
      BY <1>0, <3>1, SleepersFinite, SameCount, SMT DEF S!TimeOut
    <3> QED
      BY <3>2 DEF S!Next
  <2>7. CASE Expire(t) \/ LoadCount(t) \/ (LateWake(t) /\ ~(sema > 0)) \/ (Undo(t) /\ count # old[t])
    BY <2>7, SMT DEF Expire, LoadCount, LateWake, Undo, IInv, TypeOK, Sleepers
  <2>8. CASE SignalAdd(t)
    <3>1. /\ Sleepers' = Sleepers /\ left[t] \in Nat /\ count' = count + left[t] /\ ret' = ret
      BY <2>8, SignalOwes DEF SignalAdd, IInv, TypeOK
    <3>2. CASE left[t] > 0
      <4>1. S!Post
        BY <1>0, <3>1, <3>2, SMT DEF S!Post
      <4> QED
        BY <4>1 DEF S!Next
    <3>3. CASE left[t] = 0
      BY <1>0, <3>1, <3>3, SMT
    <3> QED
      BY <3>1, <3>2, <3>3, SMT
  <2>9. CASE SignalPost(t)
    BY <2>9, SignalPays
  <2> QED
    BY <1>3, <2>1, <2>2, <2>3, <2>4, <2>5, <2>6, <2>7, <2>8, <2>9 DEF Step
<1> QED
  BY <1>1, <1>2, <1>3 DEF Next

\* thread_sema.c implements the counting semaphore: a wait succeeds by a permit of its
\* own, and fails or times out only when there is none for it.
THEOREM Refinement == ASSUME InitCount = 0 PROVE Spec => IsSemaphore
<1>1. Init => S!Init
  <2> SUFFICES ASSUME Init PROVE S!Init
    OBVIOUS
  <2>1. Sleepers = {} /\ count = InitCount /\ ret = [t \in Threads |-> FALSE]
    BY SMT DEF Init, Sleepers
  <2> QED
    BY <2>1, LSemaAssumption, FS_EmptySet, SMT DEF S!Init
<1>2. IInv /\ IInv' /\ [Next]_vars => [S!Next]_<<count + Cardinality(Sleepers), Sleepers, ret>>
  BY StepRefines
<1>3. Spec => []IInv
  BY Invariance
<1> QED
  BY <1>1, <1>2, <1>3, PTL DEF Spec, IsSemaphore, S!Spec
=============================================================================
