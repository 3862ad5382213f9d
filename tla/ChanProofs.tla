------------------------------ MODULE ChanProofs ------------------------------
(***************************************************************************)
(* Proofs about Chan, for any threads, channels, capacities, programs and  *)
(* number of calls.                                                        *)
(*                                                                         *)
(* The three invariants of Inv hold together, however ChanClose is used:   *)
(* that a receive reads a slot of the buffer needs RingInv, and RingInv    *)
(* that only a full channel has parked senders, since the slot a receiver  *)
(* empties for one of them must be the one sendx points at.                *)
(*                                                                         *)
(* That every sleep gets one signal is proved for channels that are used   *)
(* as chan_test.c uses them (Contract = "drained").  The links first and   *)
(* next of every wait queue are shown to spell a list without repetitions, *)
(* the lists to hold exactly the threads that sleep and those that were    *)
(* told of a close, and ChanClose to tell the receivers in the order of    *)
(* the list.  A thread leaves its list in the step that makes another its  *)
(* releaser, or is told and given its permit in one step.                  *)
(*                                                                         *)
(* From the same lists Chan is shown to implement ChanSpec.                *)
(***************************************************************************)
EXTENDS Chan, TLAPS, FiniteSetTheorems, FunctionTheorems

Inv == TypeOK /\ WaitersInv /\ RingInv

\* The state ChanOpen leaves satisfies the invariant.
LEMMA InitInv == Init => Inv
<1> SUFFICES ASSUME Init PROVE Inv
  OBVIOUS
<1> USE ChanAssumption DEF Init
<1>1. TypeOK
  <2>1. aborted \in BOOLEAN
    OBVIOUS
  <2> QED
    BY <2>1, SMT DEF TypeOK, Labels, Ops, Values
<1>2. WaitersInv
  BY SMT DEF WaitersInv, SendQ, RecvQ, Queues
<1>3. RingInv
  BY SMT DEF RingInv
<1> QED
  BY <1>1, <1>2, <1>3 DEF Inv

\* An index below the capacity is a slot of the channel's buffer.
LEMMA SlotOf ==
  ASSUME NEW c \in Chans, NEW i \in 0 .. Cap[c] - 1 PROVE <<c, i>> \in Slots
BY DEF Slots

\* The wait queues of a channel are wait queues.
LEMMA QueueOfChan ==
  ASSUME NEW c \in Chans PROVE SendQ(c) \in Queues /\ RecvQ(c) \in Queues
BY DEF SendQ, RecvQ, Queues

\* The queues of the channels are all different.
LEMMA QueuesDiffer ==
  ASSUME NEW c \in Chans, NEW d \in Chans
  PROVE  /\ SendQ(c) # RecvQ(d)
         /\ SendQ(c) = SendQ(d) => c = d
         /\ RecvQ(c) = RecvQ(d) => c = d
BY DEF SendQ, RecvQ

-----------------------------------------------------------------------------
(* Types.                                                                  *)

\* Return and ReturnClosed keep the types of what they assign.
LEMMA ReturnType ==
  ASSUME TypeOK, NEW t \in Threads, NEW r \in BOOLEAN, Return(t, r)
  PROVE  /\ pc' \in [Threads -> Labels] /\ ret' \in [Threads -> BOOLEAN]
         /\ \A u \in Threads : pc'[u] = IF u = t THEN "idle" ELSE pc[u]
<1>1. "idle" \in Labels
  BY DEF Labels
<1> QED
  BY <1>1 DEF TypeOK, Return, Goto

\* ReturnClosed keeps the types of what it assigns.
LEMMA ReturnClosedType ==
  ASSUME TypeOK, NEW t \in Threads, NEW f \in BOOLEAN, ReturnClosed(t, f)
  PROVE  /\ pc' \in [Threads -> Labels] /\ ret' \in [Threads -> BOOLEAN]
         /\ val' \in [Threads -> Values] /\ cflag' \in [Threads -> BOOLEAN]
         /\ \A u \in Threads : pc'[u] = IF u = t THEN "idle" ELSE pc[u]
<1>1. Zero \in Values
  BY DEF Values
<1>2. Return(t, FALSE)
  BY DEF ReturnClosed
<1>3. val' \in [Threads -> Values] /\ cflag' \in [Threads -> BOOLEAN]
  BY <1>1 DEF TypeOK, ReturnClosed
<1> QED
  BY <1>2, <1>3, ReturnType

\* The start of a call keeps the types.
LEMMA TypeStart ==
  ASSUME Inv, NEW t \in Threads, NEW o \in Ops, NEW c \in Chans, Start(t, o, c)
  PROVE  TypeOK'
<1> USE DEF Inv, TypeOK
<1>1. FirstStep(o) \in Labels /\ FirstStep(o) # "signal"
  BY DEF FirstStep, Labels, Ops
<1>2. <<t, ncall[t] + 1>> \in Values /\ Garbage \in Values
  BY SMT DEF Values, Msgs
<1>3. val' \in [Threads -> Values]
  BY <1>2, SMT DEF Start
<1> QED
  BY <1>1, <1>3, SMT DEF Start, Goto, chanVars, waitVars

\* The fast paths of chan_send and chan_recv keep the types.
LEMMA TypePeek ==
  ASSUME Inv, NEW t \in Threads,
         \/ PeekClosed(t) \/ PeekFull(t) \/ PeekEmpty(t) \/ PeekOpen(t) \/ PeekAgain(t)
  PROVE  TypeOK'
<1> USE DEF Inv, TypeOK, fastUnchanged, chanVars, waitVars, callVars, resVars, Goto, Return, Labels
<1>0. pc[t] # "idle" => on[t] \in Chans
  OBVIOUS
<1>1. CASE PeekClosed(t)
  BY <1>0, <1>1, SMT DEF PeekClosed
<1>2. CASE PeekFull(t)
  <2>1. ret' \in [Threads -> BOOLEAN]
    BY <1>2, ReturnType DEF PeekFull
  <2> QED
    BY <1>0, <1>2, <2>1, SMT DEF PeekFull
<1>3. CASE PeekEmpty(t)
  BY <1>0, <1>3, SMT DEF PeekEmpty
<1>4. CASE PeekOpen(t)
  <2>1. ret' \in [Threads -> BOOLEAN]
    BY <1>4, ReturnType DEF PeekOpen
  <2> QED
    BY <1>0, <1>4, <2>1, SMT DEF PeekOpen
<1>5. CASE PeekAgain(t)
  <2>1. CASE ReturnClosed(t, TRUE)
    BY <1>0, <1>5, <2>1, ReturnClosedType DEF PeekAgain
  <2>2. CASE UNCHANGED resVars
    BY <1>0, <1>5, <2>2, SMT DEF PeekAgain, ReturnClosed
  <2> QED
    BY <1>5, <2>1, <2>2 DEF PeekAgain
<1> QED
  BY <1>1, <1>2, <1>3, <1>4, <1>5

\* chan_park and wq_enqueue keep the types.
LEMMA ParkType ==
  ASSUME Inv, NEW t \in Threads, NEW q \in Queues, Park(t, q), on[t] \in Chans
  PROVE  TypeOK'
<1> USE DEF Inv, TypeOK, Park, Enqueue
<1>1. first' \in [Queues -> Threads \cup {NULL}] /\ last' \in [Queues -> Threads \cup {NULL}]
  BY SMT
<1>2. next' \in [Threads -> Threads \cup {NULL}]
  <2>1. CASE first[q] = NULL
    BY <2>1
  <2>2. CASE first[q] # NULL
    BY <2>2
  <2> QED
    BY <2>1, <2>2
<1>3. elemptr' \in [Threads -> Nat] /\ pc' \in [Threads -> Labels]
  BY SMT DEF Goto, Labels
<1>4. /\ \A u \in Threads : pc'[u] # "idle" => on'[u] \in Chans
      /\ \A u \in Threads : pc'[u] = "signal" => peer'[u] # NULL
  BY SMT DEF Goto, callVars
<1>5. UNCHANGED <<closed, qlen, sendx, recvx, buf, lock, thrclosed, sema, op, on, ncall, peer,
                  val, ret, cflag, aborted>>
  BY DEF chanVars, callVars, resVars
<1>6. /\ closed' \in [Chans -> BOOLEAN] /\ qlen' \in [Chans -> Nat]
      /\ sendx' \in [Chans -> Nat] /\ recvx' \in [Chans -> Nat]
      /\ buf' \in [Slots -> Values] /\ lock' \in [Chans -> Threads \cup {NULL}]
      /\ aborted' \in BOOLEAN
  BY <1>5
<1>7. /\ thrclosed' \in [Threads -> BOOLEAN] /\ sema' \in [Threads -> Nat]
      /\ op' \in [Threads -> Ops] /\ on' \in [Threads -> Chans \cup {NULL}]
      /\ ncall' \in [Threads -> Nat] /\ val' \in [Threads -> Values]
      /\ peer' \in [Threads -> Threads \cup {NULL}]
      /\ ret' \in [Threads -> BOOLEAN] /\ cflag' \in [Threads -> BOOLEAN]
  BY <1>5
<1> HIDE DEF Inv, Park, Enqueue
<1> QED
  BY <1>1, <1>2, <1>3, <1>4, <1>6, <1>7

\* The steps of chan_send under the lock keep the types.
LEMMA TypeSend ==
  ASSUME Inv, NEW t \in Threads,
         SendClosed(t) \/ SendDirect(t) \/ SendBuffer(t) \/ SendFull(t) \/ SendPark(t)
  PROVE  TypeOK'
<1> USE ChanAssumption, QueueOfChan DEF Inv, TypeOK, Locking, Goto, Return
<1>0. pc[t] # "idle" => on[t] \in Chans
  OBVIOUS
<1>1. CASE SendClosed(t)
  <2>1. (op[t] = "send") \in BOOLEAN /\ (op[t] = "trysend") \in BOOLEAN
    OBVIOUS
  <2>2. aborted' \in BOOLEAN /\ cflag' \in [Threads -> BOOLEAN]
    BY <1>1, <2>1 DEF SendClosed
  <2> QED
    BY <1>0, <1>1, <2>2, SMT DEF SendClosed, chanVars, waitVars, callVars, Labels
<1>2. CASE SendDirect(t)
  <2>1. aborted' \in BOOLEAN
    BY <1>2 DEF SendDirect
  <2> QED
    BY <1>0, <1>2, <2>1, SMT DEF SendDirect, Dequeue, chanVars, callVars, Labels
<1>3. CASE SendBuffer(t)
  <2>1. ret' \in [Threads -> BOOLEAN]
    BY <1>3, ReturnType DEF SendBuffer
  <2>2. buf' \in [Slots -> Values]
    BY <1>3 DEF SendBuffer
  <2>3. SlotAfter(on[t], sendx[on[t]]) \in Nat
    BY <1>0, <1>3, SMT DEF SendBuffer, SlotAfter
  <2>4. sendx' \in [Chans -> Nat] /\ qlen' \in [Chans -> Nat]
    BY <1>0, <1>3, <2>3, SMT DEF SendBuffer
  <2> QED
    BY <1>0, <1>3, <2>1, <2>2, <2>4, SMT DEF SendBuffer, waitVars, callVars, Labels
<1>4. CASE SendFull(t)
  BY <1>0, <1>4, SMT DEF SendFull, fastUnchanged, chanVars, waitVars, callVars, Labels
<1>5. CASE SendPark(t)
  <2>1. Park(t, SendQ(on[t])) /\ on[t] \in Chans
    BY <1>0, <1>5 DEF SendPark
  <2> QED
    BY <2>1, ParkType
<1> QED
  BY <1>1, <1>2, <1>3, <1>4, <1>5

\* The steps of chan_recv under the lock keep the types.
LEMMA TypeRecv ==
  ASSUME Inv, NEW t \in Threads,
         RecvClosed(t) \/ RecvDirect(t) \/ RecvBuffer(t) \/ RecvEmpty(t) \/ RecvPark(t)
  PROVE  TypeOK'
<1> USE ChanAssumption, QueueOfChan DEF Inv, TypeOK, Locking, Goto, Return
<1>0. pc[t] # "idle" => on[t] \in Chans
  OBVIOUS
<1>1. CASE RecvClosed(t)
  BY <1>0, <1>1, SMT DEF RecvClosed, ReturnClosed, fastUnchanged, chanVars, waitVars,
                         callVars, Labels, Values
<1>2. CASE RecvDirect(t)
  <2>1. \A s \in Threads : Elem(s) \in Values
    BY DEF Elem, Values
  <2>2. qlen[on[t]] # 0 => buf[<<on[t], recvx[on[t]]>>] \in Values
    BY <1>0, <1>2, SlotOf, SMT DEF RecvDirect, RingInv
  <2>3. val' \in [Threads -> Values] /\ buf' \in [Slots -> Values]
    <3>1. CASE qlen[on[t]] = 0
      BY <1>0, <1>2, <2>1, <3>1 DEF RecvDirect
    <3>2. CASE qlen[on[t]] # 0
      <4>1. val' \in [Threads -> Values]
        BY <1>2, <2>2, <3>2 DEF RecvDirect
      <4>2. Elem(first[SendQ(on[t])]) \in Values
        BY <1>0, <1>2, <2>1 DEF RecvDirect
      <4>3. buf' = [buf EXCEPT ![<<on[t], recvx[on[t]]>>] = Elem(first[SendQ(on[t])])]
        BY <1>2, <3>2 DEF RecvDirect
      <4>4. buf' \in [Slots -> Values]
        BY <4>2, <4>3
      <4> QED
        BY <4>1, <4>4
    <3> QED
      BY <3>1, <3>2
  <2>4. sendx' \in [Chans -> Nat] /\ recvx' \in [Chans -> Nat]
    <3>1. SlotAfter(on[t], recvx[on[t]]) \in Nat
      BY <1>0, <1>2, SMT DEF RecvDirect, SlotAfter
    <3>2. CASE qlen[on[t]] = 0
      BY <1>2, <3>2 DEF RecvDirect
    <3>3. CASE qlen[on[t]] # 0
      BY <1>2, <3>1, <3>3 DEF RecvDirect
    <3> QED
      BY <3>2, <3>3
  <2> QED
    BY <1>0, <1>2, <2>3, <2>4, SMT DEF RecvDirect, Dequeue, callVars, Labels
<1>3. CASE RecvBuffer(t)
  <2>1. buf[<<on[t], recvx[on[t]]>>] \in Values
    BY <1>0, <1>3, SlotOf, SMT DEF RecvBuffer, RingInv
  <2> QED
    BY <1>0, <1>3, <2>1, SMT DEF RecvBuffer, SlotAfter, waitVars, callVars, Labels
<1>4. CASE RecvEmpty(t)
  BY <1>0, <1>4, SMT DEF RecvEmpty, fastUnchanged, chanVars, waitVars, callVars, Labels
<1>5. CASE RecvPark(t)
  <2>1. Park(t, RecvQ(on[t])) /\ on[t] \in Chans
    BY <1>0, <1>5 DEF RecvPark
  <2> QED
    BY <2>1, ParkType
<1> QED
  BY <1>1, <1>2, <1>3, <1>4, <1>5

\* Signalling, sleeping and waking keep the types.
LEMMA TypeWake ==
  ASSUME Inv, NEW t \in Threads, Signal(t) \/ Wait(t) \/ Woken(t)
  PROVE  TypeOK'
<1> USE DEF Inv, TypeOK, chanVars, waitVars, callVars, Goto, Return, Labels
<1>1. CASE Signal(t)
  BY <1>1, SMT DEF Signal, thrUnchanged
<1>2. CASE Wait(t)
  BY <1>2, SMT DEF Wait, thrUnchanged
<1>3. CASE Woken(t)
  <2>1. CASE ReturnClosed(t, FALSE)
    BY <1>3, <2>1, ReturnClosedType DEF Woken, fastUnchanged
  <2>2. CASE Return(t, TRUE) /\ UNCHANGED <<val, cflag>>
    BY <1>3, <2>2, ReturnType, SMT DEF Woken, fastUnchanged
  <2> QED
    BY <1>3, <2>1, <2>2 DEF Woken
<1> QED
  BY <1>1, <1>2, <1>3

\* The steps of ChanClose keep the types.
LEMMA TypeClose ==
  ASSUME Inv, NEW t \in Threads,
         CloseMark(t) \/ CloseWake(t) \/ CloseSenders(t) \/ CloseUnlock(t)
  PROVE  TypeOK'
<1> USE QueueOfChan DEF Inv, TypeOK, Goto, closeUnchanged, waitVars, callVars, resVars, Labels
<1>0. pc[t] # "idle" => on[t] \in Chans
  OBVIOUS
<1>1. CASE CloseMark(t)
  BY <1>0, <1>1, SMT DEF CloseMark, Locking
<1>2. CASE CloseWake(t)
  BY <1>0, <1>2, SMT DEF CloseWake
<1>3. CASE CloseSenders(t)
  BY <1>0, <1>3, SMT DEF CloseSenders
<1>4. CASE CloseUnlock(t)
  BY <1>0, <1>4, SMT DEF CloseUnlock
<1> QED
  BY <1>1, <1>2, <1>3, <1>4

-----------------------------------------------------------------------------
(* Who waits, and the ring buffer.                                         *)

\* Most steps touch neither the queues' heads nor the buffer.
LEMMA OthersKeep ==
  ASSUME NEW t \in Threads,
         \/ \E o \in Ops, c \in Chans : Start(t, o, c)
         \/ PeekClosed(t) \/ PeekFull(t) \/ PeekEmpty(t) \/ PeekOpen(t) \/ PeekAgain(t)
         \/ SendClosed(t) \/ SendFull(t) \/ RecvClosed(t) \/ RecvEmpty(t)
         \/ Signal(t) \/ Wait(t) \/ Woken(t)
         \/ CloseMark(t) \/ CloseWake(t) \/ CloseSenders(t) \/ CloseUnlock(t)
  PROVE  UNCHANGED <<first, qlen, sendx, recvx>>
BY DEF Start, PeekClosed, PeekFull, PeekEmpty, PeekOpen, PeekAgain, SendClosed, SendFull,
       RecvClosed, RecvEmpty, Signal, Wait, Woken, CloseMark, CloseWake, CloseSenders,
       CloseUnlock, fastUnchanged, thrUnchanged, closeUnchanged, chanVars, waitVars

\* A sender hands its element over: the queue of receivers gets shorter.
LEMMA SendDirectKeeps ==
  ASSUME Inv, NEW t \in Threads, SendDirect(t)
  PROVE  WaitersInv' /\ RingInv'
<1>1. on[t] \in Chans /\ first[RecvQ(on[t])] # NULL
  BY DEF SendDirect, Locking, Inv, TypeOK
<1>2. UNCHANGED <<qlen, sendx, recvx>>
  BY DEF SendDirect, chanVars
<1>3. \A c \in Chans : /\ first'[SendQ(c)] = first[SendQ(c)]
                       /\ first[RecvQ(c)] = NULL => first'[RecvQ(c)] = NULL
  BY <1>1, QueueOfChan, QueuesDiffer, SMT DEF SendDirect, Dequeue, Inv, TypeOK
<1> QED
  BY <1>2, <1>3, SMT DEF Inv, WaitersInv, RingInv

\* A sender fills a slot: no receiver waits, and no sender either.
LEMMA SendBufferKeeps ==
  ASSUME Inv, NEW t \in Threads, SendBuffer(t)
  PROVE  WaitersInv' /\ RingInv'
<1> DEFINE c == on[t]
<1>1. c \in Chans /\ first[RecvQ(c)] = NULL /\ qlen[c] < Cap[c]
  BY DEF SendBuffer, Locking, Inv, TypeOK
<1>2. /\ first' = first /\ recvx' = recvx
      /\ qlen' = [qlen EXCEPT ![c] = qlen[c] + 1]
      /\ sendx' = [sendx EXCEPT ![c] = SlotAfter(c, sendx[c])]
  BY DEF SendBuffer, waitVars
<1>3. first[SendQ(c)] = NULL
  BY <1>1, ChanAssumption, SMT DEF Inv, WaitersInv, TypeOK
<1>4. WaitersInv'
  BY <1>1, <1>2, <1>3, SMT DEF Inv, WaitersInv, TypeOK
<1>5. RingInv'
  <2>1. /\ Cap[c] \in Nat /\ qlen[c] \in 0 .. Cap[c] - 1
        /\ sendx[c] \in 0 .. Cap[c] - 1 /\ recvx[c] \in 0 .. Cap[c] - 1
        /\ sendx[c] \in {recvx[c] + qlen[c], recvx[c] + qlen[c] - Cap[c]}
    BY <1>1, ChanAssumption, SMT DEF Inv, RingInv
  <2>2. /\ qlen'[c] = qlen[c] + 1 /\ recvx'[c] = recvx[c]
        /\ sendx'[c] = SlotAfter(c, sendx[c])
    BY <1>1, <1>2 DEF Inv, TypeOK
  <2>3. /\ qlen'[c] \in 0 .. Cap[c] /\ sendx'[c] \in 0 .. Cap[c] - 1
        /\ sendx'[c] \in {recvx'[c] + qlen'[c], recvx'[c] + qlen'[c] - Cap[c]}
    BY <2>1, <2>2, SMT DEF SlotAfter
  <2>4. \A d \in Chans \ {c} : qlen'[d] = qlen[d] /\ sendx'[d] = sendx[d] /\ recvx'[d] = recvx[d]
    BY <1>2 DEF Inv, TypeOK
  <2> QED
    BY <2>1, <2>2, <2>3, <2>4 DEF Inv, RingInv
<1> QED
  BY <1>4, <1>5

\* A receiver empties a slot: no sender waits, and no receiver either.
LEMMA RecvBufferKeeps ==
  ASSUME Inv, NEW t \in Threads, RecvBuffer(t)
  PROVE  WaitersInv' /\ RingInv'
<1> DEFINE c == on[t]
<1>1. c \in Chans /\ first[SendQ(c)] = NULL /\ qlen[c] > 0
  BY DEF RecvBuffer, Locking, Inv, TypeOK
<1>2. /\ first' = first /\ sendx' = sendx
      /\ qlen' = [qlen EXCEPT ![c] = qlen[c] - 1]
      /\ recvx' = [recvx EXCEPT ![c] = SlotAfter(c, recvx[c])]
  BY DEF RecvBuffer, waitVars
<1>3. first[RecvQ(c)] = NULL
  BY <1>1, SMT DEF Inv, WaitersInv, TypeOK
<1>4. WaitersInv'
  BY <1>1, <1>2, <1>3, SMT DEF Inv, WaitersInv, TypeOK
<1>5. RingInv'
  <2>1. /\ Cap[c] \in Nat /\ qlen[c] \in 1 .. Cap[c]
        /\ sendx[c] \in 0 .. Cap[c] - 1 /\ recvx[c] \in 0 .. Cap[c] - 1
        /\ sendx[c] \in {recvx[c] + qlen[c], recvx[c] + qlen[c] - Cap[c]}
    BY <1>1, ChanAssumption, SMT DEF Inv, RingInv
  <2>2. /\ qlen'[c] = qlen[c] - 1 /\ sendx'[c] = sendx[c]
        /\ recvx'[c] = SlotAfter(c, recvx[c])
    BY <1>1, <1>2 DEF Inv, TypeOK
  <2>3. /\ qlen'[c] \in 0 .. Cap[c] /\ recvx'[c] \in 0 .. Cap[c] - 1
        /\ sendx'[c] \in {recvx'[c] + qlen'[c], recvx'[c] + qlen'[c] - Cap[c]}
    BY <2>1, <2>2, SMT DEF SlotAfter
  <2>4. \A d \in Chans \ {c} : qlen'[d] = qlen[d] /\ sendx'[d] = sendx[d] /\ recvx'[d] = recvx[d]
    BY <1>2 DEF Inv, TypeOK
  <2> QED
    BY <2>1, <2>2, <2>3, <2>4 DEF Inv, RingInv
<1> QED
  BY <1>4, <1>5

\* A parked sender's element takes the slot the receiver empties: the buffer is
\* full before and after, and both indices move on.
LEMMA RecvDirectKeeps ==
  ASSUME Inv, NEW t \in Threads, RecvDirect(t)
  PROVE  WaitersInv' /\ RingInv'
<1> DEFINE c == on[t]
<1>1. c \in Chans /\ first[SendQ(c)] # NULL /\ qlen' = qlen
  BY DEF RecvDirect, Locking, Inv, TypeOK
<1>2. qlen[c] = Cap[c]
  BY <1>1 DEF Inv, WaitersInv
<1>3. \A d \in Chans : /\ first'[RecvQ(d)] = first[RecvQ(d)]
                       /\ first[SendQ(d)] = NULL => first'[SendQ(d)] = NULL
  BY <1>1, QueueOfChan, QueuesDiffer, SMT DEF RecvDirect, Dequeue, Inv, TypeOK
<1>4. WaitersInv'
  BY <1>1, <1>3, SMT DEF Inv, WaitersInv
<1>5. CASE qlen[c] = 0
  BY <1>1, <1>4, <1>5 DEF RecvDirect, Inv, RingInv
<1>6. CASE qlen[c] # 0
  <2>1. /\ sendx' = [sendx EXCEPT ![c] = SlotAfter(c, recvx[c])]
        /\ recvx' = [recvx EXCEPT ![c] = SlotAfter(c, recvx[c])]
    BY <1>6 DEF RecvDirect
  <2>2. RingInv'
    BY <1>1, <1>2, <1>6, <2>1, ChanAssumption, SMT DEF Inv, RingInv, TypeOK, SlotAfter
  <2> QED
    BY <1>4, <2>2
<1> QED
  BY <1>5, <1>6

\* A thread parks: the head of its queue alone may change, and the tests made
\* before under the lock say that it may wait.
LEMMA ParkKeeps ==
  ASSUME Inv, NEW t \in Threads, SendPark(t) \/ RecvPark(t)
  PROVE  WaitersInv' /\ RingInv'
<1> DEFINE c == on[t]
<1>1. c \in Chans /\ UNCHANGED <<qlen, sendx, recvx>>
  BY DEF SendPark, RecvPark, Park, Locking, Inv, TypeOK, chanVars
<1>2. RingInv'
  BY <1>1 DEF Inv, RingInv
<1>3. CASE SendPark(t)
  <2>1. first[RecvQ(c)] = NULL /\ qlen[c] = Cap[c]
    <3>1. first[RecvQ(c)] = NULL /\ qlen[c] >= Cap[c]
      BY <1>3 DEF SendPark, NoRoom
    <3>2. qlen[c] \in 0 .. Cap[c] /\ Cap[c] \in Nat
      BY <1>1, ChanAssumption DEF Inv, RingInv
    <3> QED
      BY <3>1, <3>2, SMT
  <2>2. \A d \in Chans : /\ first'[RecvQ(d)] = first[RecvQ(d)]
                         /\ d # c => first'[SendQ(d)] = first[SendQ(d)]
    BY <1>1, <1>3, QueueOfChan, QueuesDiffer, SMT DEF SendPark, Park, Enqueue, Inv, TypeOK
  <2> QED
    BY <1>1, <1>2, <2>1, <2>2, SMT DEF Inv, WaitersInv
<1>4. CASE RecvPark(t)
  <2>1. first[SendQ(c)] = NULL /\ qlen[c] = 0
    BY <1>1, <1>4 DEF RecvPark, NoMessage
  <2>2. \A d \in Chans : /\ first'[SendQ(d)] = first[SendQ(d)]
                         /\ d # c => first'[RecvQ(d)] = first[RecvQ(d)]
    BY <1>1, <1>4, QueueOfChan, QueuesDiffer, SMT DEF RecvPark, Park, Enqueue, Inv, TypeOK
  <2> QED
    BY <1>1, <1>2, <2>1, <2>2, SMT DEF Inv, WaitersInv
<1> QED
  BY <1>3, <1>4

-----------------------------------------------------------------------------
\* The invariant holds in every reachable state.
LEMMA Invariance == Spec => []Inv
<1>1. Inv /\ [Next]_vars => Inv'
  <2> SUFFICES ASSUME Inv, [Next]_vars PROVE Inv'
    OBVIOUS
  <2>1. CASE UNCHANGED vars
    BY <2>1 DEF vars, chanVars, waitVars, callVars, resVars, Inv, TypeOK, WaitersInv, RingInv
  <2>2. ASSUME NEW t \in Threads,
               (\E o \in Ops, c \in Chans : Start(t, o, c)) \/ Step(t)
        PROVE  Inv'
    <3>1. TypeOK'
      BY <2>2, TypeStart, TypePeek, TypeSend, TypeRecv, TypeWake, TypeClose DEF Step
    <3>2. ASSUME UNCHANGED <<first, qlen, sendx, recvx>> PROVE WaitersInv' /\ RingInv'
      BY <3>2 DEF Inv, WaitersInv, RingInv
    <3>3. WaitersInv' /\ RingInv'
      BY <2>2, <3>2, OthersKeep, SendDirectKeeps, SendBufferKeeps, RecvBufferKeeps,
         RecvDirectKeeps, ParkKeeps DEF Step
    <3> QED
      BY <3>1, <3>3 DEF Inv
  <2> QED
    BY <2>1, <2>2 DEF Next
<1> QED
  BY <1>1, InitInv, PTL DEF Spec

-----------------------------------------------------------------------------
(* Natural numbers.                                                        *)

\* A set of natural numbers has a least element.
LEMMA Least ==
  ASSUME NEW S, S \subseteq Nat, S # {}
  PROVE  \E n \in S : \A m \in S : n <= m
<1> DEFINE R == OpToRel(<, Nat)
<1>1. IsWellFoundedOn(R, Nat)
  BY NatLessThanWellFounded
<1>2. \E n \in S : \A m \in S : ~(<<m, n>> \in R)
  <2> HIDE DEF R
  <2> QED BY <1>1, WFMin
<1>3. ASSUME NEW n \in S, NEW m \in S, ~(<<m, n>> \in R) PROVE n <= m
  <2>1. <<m, n>> \in Nat \X Nat /\ n \in Nat /\ m \in Nat
    OBVIOUS
  <2>2. ~(m < n)
    BY <1>3, <2>1 DEF OpToRel
  <2> QED BY <2>1, <2>2
<1> QED BY <1>2, <1>3

-----------------------------------------------------------------------------
(* The wait queues as lists.                                               *)

Chained(L, p, nx) ==
  /\ L \in Seq(Threads)
  /\ p = IF Len(L) = 0 THEN NULL ELSE L[1]
  /\ \A i \in 1 .. Len(L) : nx[L[i]] = IF i = Len(L) THEN NULL ELSE L[i + 1]

Distinct(L) == \A i, j \in 1 .. Len(L) : L[i] = L[j] => i = j

In(L, t) == \E i \in 1 .. Len(L) : L[i] = t

\* The n-th thread of a list, NULL behind its end.
Linked(L) == [n \in 0 .. Cardinality(Threads) |-> IF n < Len(L) THEN L[n + 1] ELSE NULL]

Follows(f, p, nx) ==
  f = [n \in 0 .. Cardinality(Threads) |->
         IF n = 0 THEN p ELSE IF f[n - 1] = NULL THEN NULL ELSE nx[f[n - 1]]]

\* A list without repetitions is not longer than the number of threads.
LEMMA Short ==
  ASSUME NEW L \in Seq(Threads), Distinct(L)
  PROVE  Len(L) <= Cardinality(Threads) /\ Cardinality(Threads) \in Nat
<1>0. IsFiniteSet(Threads) /\ Cardinality(Threads) \in Nat
  BY ChanAssumption, FS_CardinalityType
<1>1. L \in [1 .. Len(L) -> Threads] /\ Len(L) \in Nat
  OBVIOUS
<1>2. L \in Injection(1 .. Len(L), Threads)
  BY <1>1, Fun_IsInj DEF Distinct
<1>3. Cardinality(1 .. Len(L)) <= Cardinality(Threads)
  BY <1>0, <1>2, FS_Injection
<1>4. Cardinality(1 .. Len(L)) = Len(L)
  <2>1. 1 \in Int /\ Len(L) \in Int /\ Len(L) - 1 + 1 = Len(L) /\ (1 > Len(L) => Len(L) = 0)
    BY <1>1
  <2>2. Cardinality(1 .. Len(L)) = IF 1 > Len(L) THEN 0 ELSE Len(L) - 1 + 1
    BY <2>1, FS_Interval
  <2> QED BY <2>1, <2>2
<1> QED BY <1>0, <1>3, <1>4

\* Following next from the first thread gives the list, and nothing else does.
LEMMA OneChain ==
  ASSUME NEW L, NEW p, NEW nx, Chained(L, p, nx), Distinct(L)
  PROVE  /\ Follows(Linked(L), p, nx)
         /\ \A f : Follows(f, p, nx) => f = Linked(L)
<1> DEFINE N == Cardinality(Threads)
<1>0. N \in Nat /\ Len(L) \in Nat /\ Len(L) <= N /\ NULL \notin Threads /\ L \in Seq(Threads)
  BY ChanAssumption, Short DEF Chained
<1>1. Follows(Linked(L), p, nx)
  <2> HIDE DEF N
  <2> SUFFICES Linked(L) = [n \in 0 .. N |->
         IF n = 0 THEN p ELSE IF Linked(L)[n - 1] = NULL THEN NULL ELSE nx[Linked(L)[n - 1]]]
    BY DEF Follows, N
  <2>1. Linked(L) = [n \in 0 .. N |-> IF n < Len(L) THEN L[n + 1] ELSE NULL]
    BY DEF Linked, N
  <2> QED BY <1>0, <2>1 DEF Chained
<1>2. ASSUME NEW f, Follows(f, p, nx) PROVE f = Linked(L)
  <2> DEFINE g == Linked(L)
             Bad == {n \in 0 .. N : f[n] # g[n]}
  <2>1. CASE Bad = {}
    BY <1>2, <2>1 DEF Follows, Linked
  <2>2. CASE Bad # {}
    <3>0. Bad \subseteq Nat
      BY <1>0
    <3>1. PICK n \in Bad : \A m \in Bad : n <= m
      <4> HIDE DEF Bad
      <4> QED BY <2>2, <3>0, Least
    <3>2. n \in 0 .. N /\ f[n] # g[n]
      BY <3>1
    <3>3. CASE n = 0
      <4>1. f[0] = p /\ g[0] = p
        BY <1>0, <1>1, <1>2 DEF Follows
      <4> QED BY <3>2, <3>3, <4>1
    <3>4. CASE n # 0
      <4>1. n - 1 \in 0 .. N /\ n - 1 < n
        BY <3>2, <3>4, <1>0
      <4>2. f[n - 1] = g[n - 1]
        BY <3>1, <4>1
      <4>3. f[n] = (IF f[n - 1] = NULL THEN NULL ELSE nx[f[n - 1]])
        BY <1>2, <3>2, <3>4, <4>1 DEF Follows
      <4>4. g[n] = (IF g[n - 1] = NULL THEN NULL ELSE nx[g[n - 1]])
        BY <1>1, <3>2, <3>4, <4>1 DEF Follows
      <4> QED BY <3>2, <4>2, <4>3, <4>4
    <3> QED BY <3>3, <3>4
  <2> QED BY <2>1, <2>2
<1> QED BY <1>1, <1>2

\* The places Queue counts are those of the list.
LEMMA Positions ==
  ASSUME NEW L \in Seq(Threads), Distinct(L)
  PROVE  LET n == Cardinality({i \in 0 .. Cardinality(Threads) - 1 : Linked(L)[i] # NULL})
         IN  n = Len(L) /\ [i \in 1 .. n |-> Linked(L)[i - 1]] = L
<1> DEFINE N == Cardinality(Threads)
           S == {i \in 0 .. N - 1 : Linked(L)[i] # NULL}
<1>0. N \in Nat /\ Len(L) \in Nat /\ Len(L) <= N /\ NULL \notin Threads
  BY ChanAssumption, Short
<1>1. Linked(L) = [n \in 0 .. N |-> IF n < Len(L) THEN L[n + 1] ELSE NULL]
  BY DEF Linked
<1> HIDE DEF N
<1>2. S = 0 .. Len(L) - 1
  BY <1>0, <1>1
<1>3. Cardinality(0 .. Len(L) - 1) = Len(L)
  <2> DEFINE m == Len(L) - 1
  <2>1. m \in Int /\ 0 \in Int /\ (0 > m <=> Len(L) = 0) /\ m - 0 + 1 = Len(L)
    BY <1>0
  <2> HIDE DEF m
  <2>2. Cardinality(0 .. m) = IF 0 > m THEN 0 ELSE m - 0 + 1
    BY <2>1, FS_Interval
  <2> QED BY <2>1, <2>2 DEF m
<1>4. Cardinality(S) = Len(L)
  BY <1>2, <1>3
<1>5. [i \in 1 .. Len(L) |-> Linked(L)[i - 1]] = L
  BY <1>0, <1>1
<1> QED BY <1>4, <1>5 DEF N

\* What the properties call the queue is the list.
LEMMA QueueIs ==
  ASSUME NEW q, NEW L, Chained(L, first[q], next), Distinct(L)
  PROVE  Queue(q) = L
<1> DEFINE f == CHOOSE f : Follows(f, first[q], next)
           n == Cardinality({i \in 0 .. Cardinality(Threads) - 1 : f[i] # NULL})
<1>1. Queue(q) = [i \in 1 .. n |-> f[i - 1]]
  BY DEF Queue, Chain, Follows
<1>2. f = Linked(L)
  BY OneChain
<1> HIDE DEF f
<1> QED BY <1>1, <1>2, Positions DEF Chained

\* M has the threads of L without p.
Without(M, L, p) == \A u \in Threads : In(M, u) <=> In(L, u) /\ u # p

\* wq_dequeue takes the first thread off the list.
LEMMA Unlink ==
  ASSUME NEW L, NEW p, NEW nx \in [Threads -> Threads \cup {NULL}], Chained(L, p, nx), Distinct(L),
         p # NULL
  PROVE  /\ Len(L) > 0 /\ L[1] = p /\ p \in Threads
         /\ Chained(Tail(L), nx[p], [nx EXCEPT ![p] = NULL]) /\ Distinct(Tail(L))
         /\ Without(Tail(L), L, p)
         /\ Len(Tail(L)) > 0 => Tail(L)[Len(Tail(L))] = L[Len(L)]
<1> DEFINE M == Tail(L)
           ny == [nx EXCEPT ![p] = NULL]
<1>0. L \in Seq(Threads) /\ Len(L) \in Nat \ {0} /\ p = L[1] /\ p \in Threads
  BY DEF Chained
<1>1. M \in Seq(Threads) /\ Len(M) = Len(L) - 1 /\ \A i \in 1 .. Len(M) : M[i] = L[i + 1]
  BY <1>0
<1>2. Len(M) \in Nat /\ 1 \in 1 .. Len(L) /\ \A i \in 1 .. Len(M) : i + 1 \in 1 .. Len(L)
  BY <1>0, <1>1
<1> HIDE DEF M
<1>3. \A i \in 1 .. Len(M) : M[i] # p /\ M[i] \in Threads
  <2> SUFFICES ASSUME NEW i \in 1 .. Len(M), M[i] = p PROVE FALSE
    BY <1>1
  <2>1. i + 1 \in 1 .. Len(L) /\ L[i + 1] = L[1] /\ i + 1 # 1
    BY <1>0, <1>1, <1>2
  <2> QED BY <1>2, <2>1 DEF Distinct
<1>4. Distinct(M)
  BY <1>0, <1>1, <1>2 DEF Distinct
<1>5. ASSUME NEW i \in 1 .. Len(M) PROVE ny[M[i]] = IF i = Len(M) THEN NULL ELSE M[i + 1]
  <2> DEFINE k == i + 1
  <2>1. k \in 1 .. Len(L) /\ M[i] = L[k]
    BY <1>1, <1>2
  <2>2. nx[L[k]] = IF k = Len(L) THEN NULL ELSE L[k + 1]
    BY <2>1 DEF Chained
  <2>3. k = Len(L) <=> i = Len(M)
    BY <1>0, <1>1, <1>2
  <2>4. i # Len(M) => i + 1 \in 1 .. Len(M)
    BY <1>2
  <2>5. i # Len(M) => M[i + 1] = L[k + 1]
    BY <1>1, <2>4
  <2>6. ny[M[i]] = nx[M[i]]
    BY <1>3
  <2> HIDE DEF ny
  <2> QED BY <2>1, <2>2, <2>3, <2>5, <2>6
<1>6. nx[p] = IF Len(M) = 0 THEN NULL ELSE M[1]
  <2>1. nx[L[1]] = IF 1 = Len(L) THEN NULL ELSE L[1 + 1]
    BY <1>2 DEF Chained
  <2>2. Len(M) = 0 <=> Len(L) = 1
    BY <1>0, <1>1
  <2>3. Len(M) # 0 => 1 \in 1 .. Len(M)
    BY <1>2
  <2>4. Len(M) # 0 => M[1] = L[2]
    BY <1>1, <2>3
  <2> QED BY <1>0, <2>1, <2>2, <2>4
<1>7. ASSUME NEW u \in Threads PROVE In(M, u) <=> In(L, u) /\ u # p
  <2>1. ASSUME NEW i \in 1 .. Len(M), M[i] = u PROVE In(L, u) /\ u # p
    BY <1>1, <1>2, <1>3, <2>1 DEF In
  <2>2. ASSUME NEW j \in 1 .. Len(L), L[j] = u, u # p PROVE In(M, u)
    <3>1. j # 1 /\ j - 1 \in 1 .. Len(M) /\ (j - 1) + 1 = j
      BY <1>0, <1>1, <2>2
    <3>2. M[j - 1] = L[j]
      BY <1>1, <3>1
    <3> QED BY <2>2, <3>1, <3>2 DEF In
  <2> QED BY <2>1, <2>2 DEF In
<1>8. Len(M) > 0 => M[Len(M)] = L[Len(L)]
  <2>1. Len(M) > 0 => Len(M) \in 1 .. Len(M) /\ Len(M) + 1 = Len(L)
    BY <1>0, <1>1, <1>2
  <2> QED BY <1>1, <2>1
<1>9. Chained(M, nx[p], ny)
  BY <1>1, <1>5, <1>6 DEF Chained
<1>10. Without(M, L, p)
  BY <1>7 DEF Without
<1> QED BY <1>0, <1>4, <1>8, <1>9, <1>10 DEF M

\* M has the threads of L and t.
With(M, L, t) == \A u \in Threads : In(M, u) <=> In(L, u) \/ u = t

\* wq_enqueue links t behind the last thread l, if there is one.
Linking(L, p, nx, l, t, np, ny) ==
  /\ Len(L) > 0 => l = L[Len(L)]
  /\ np = IF p = NULL THEN t ELSE p
  /\ ny = IF p = NULL THEN nx ELSE [nx EXCEPT ![l] = t]

\* No link changes but those of the threads of L.
OnlyIn(L, nx, ny) == \A u \in Threads : ny[u] = nx[u] \/ In(L, u)

\* wq_enqueue puts a thread behind the last one.
LEMMA Link ==
  ASSUME NEW L, NEW p, NEW nx \in [Threads -> Threads \cup {NULL}], Chained(L, p, nx), Distinct(L),
         NEW t \in Threads, ~In(L, t), nx[t] = NULL,
         NEW l, NEW np, NEW ny, Linking(L, p, nx, l, t, np, ny)
  PROVE  /\ Chained(Append(L, t), np, ny) /\ Distinct(Append(L, t))
         /\ With(Append(L, t), L, t)
         /\ Append(L, t)[Len(Append(L, t))] = t
         /\ ny \in [Threads -> Threads \cup {NULL}]
         /\ OnlyIn(L, nx, ny)
<1> USE DEF Linking
<1> DEFINE M == Append(L, t)
<1>0. L \in Seq(Threads) /\ Len(L) \in Nat /\ NULL \notin Threads /\ (p = NULL <=> Len(L) = 0)
      /\ \A i \in 1 .. Len(L) : L[i] \in Threads
  BY ChanAssumption DEF Chained
<1>1. M \in Seq(Threads) /\ Len(M) = Len(L) + 1 /\ M[Len(L) + 1] = t
      /\ \A i \in 1 .. Len(L) : M[i] = L[i]
  BY <1>0
<1>2. \A i \in 1 .. Len(M) : i \in 1 .. Len(L) \/ i = Len(M)
  BY <1>0, <1>1
<1> HIDE DEF M
<1>3. Distinct(M)
  BY <1>0, <1>1, <1>2 DEF Distinct, In
<1>4. With(M, L, t)
  <2> SUFFICES ASSUME NEW u \in Threads PROVE In(M, u) <=> In(L, u) \/ u = t
    BY DEF With
  <2>1. Len(M) \in 1 .. Len(M) /\ \A i \in 1 .. Len(L) : i \in 1 .. Len(M)
    BY <1>0, <1>1
  <2> QED BY <1>1, <1>2, <2>1 DEF In
<1>5. ny \in [Threads -> Threads \cup {NULL}] /\ \A u \in Threads : ny[u] = nx[u] \/ In(L, u)
  <2>1. CASE p = NULL
    BY <2>1
  <2>2. CASE p # NULL
    <3>1. Len(L) \in 1 .. Len(L) /\ l = L[Len(L)]
      BY <1>0, <2>2
    <3> QED BY <1>0, <2>2, <3>1 DEF In
  <2> QED BY <2>1, <2>2
<1>6. np = M[1]
  <2>1. CASE Len(L) = 0
    BY <1>0, <1>1, <2>1
  <2>2. CASE Len(L) # 0
    <3>1. 1 \in 1 .. Len(L)
      BY <1>0, <2>2
    <3> QED BY <1>0, <1>1, <2>2, <3>1 DEF Chained
  <2> QED BY <2>1, <2>2
<1>7. ASSUME NEW i \in 1 .. Len(M) PROVE ny[M[i]] = IF i = Len(M) THEN NULL ELSE M[i + 1]
  <2>1. CASE i = Len(M)
    <3>1. ny[t] = nx[t]
      BY <1>5
    <3> QED BY <1>1, <2>1, <3>1
  <2>2. CASE i # Len(M)
    <3>0. i \in 1 .. Len(L) /\ i + 1 \in 1 .. Len(M) /\ p # NULL /\ l = L[Len(L)] /\ M[i] = L[i]
      BY <1>0, <1>1, <1>2, <2>2
    <3>1. CASE i = Len(L)
      <4>1. M[i] = l /\ M[i + 1] = t /\ l \in Threads
        BY <1>0, <1>1, <3>0, <3>1
      <4> QED BY <2>2, <3>0, <4>1
    <3>2. CASE i # Len(L)
      <4>1. i + 1 \in 1 .. Len(L) /\ Len(L) \in 1 .. Len(L)
        BY <1>0, <3>0, <3>2
      <4>2. M[i + 1] = L[i + 1] /\ M[i] = L[i]
        BY <1>1, <3>0, <4>1
      <4>3. L[i] # l
        BY <3>0, <3>2, <4>1 DEF Distinct
      <4>4. ny[L[i]] = nx[L[i]]
        BY <1>0, <3>0, <4>3
      <4>5. nx[L[i]] = L[i + 1]
        BY <3>0, <3>2 DEF Chained
      <4> QED BY <2>2, <4>2, <4>4, <4>5
    <3> QED BY <3>1, <3>2
  <2> QED BY <2>1, <2>2
<1>8. Chained(M, np, ny)
  <2>1. Len(M) # 0
    BY <1>0, <1>1
  <2> QED BY <1>1, <1>6, <1>7, <2>1 DEF Chained
<1> QED BY <1>1, <1>3, <1>4, <1>5, <1>8 DEF M, OnlyIn

\* A list is the same when the links of its threads are.
LEMMA SameLinks ==
  ASSUME NEW L, NEW p, NEW nx, NEW ny, Chained(L, p, nx),
         \A i \in 1 .. Len(L) : ny[L[i]] = nx[L[i]]
  PROVE  Chained(L, p, ny)
BY DEF Chained

-----------------------------------------------------------------------------
(* The invariant, for the wait queues as lists Q.                          *)

Closing(c) == \E u \in Threads : Calling(u, "close", c)

\* The code a thread is in is that of its operation.
InCode ==
  \A t \in Threads :
    /\ pc[t] \in {"peekclosed", "peekfull"} => op[t] = "trysend"
    /\ pc[t] \in {"peekempty", "peekopen", "peekagain"} => op[t] = "tryrecv"
    /\ pc[t] = "signal" => op[t] # "close"
    /\ pc[t] \in {"wait", "woken"} => op[t] \in {"send", "recv"}
    /\ pc[t] \in {"closerecv", "closesend"} => op[t] = "close"

\* ChanClose is called once, by a thread that then has the lock, and nobody sends when it is.
OneCloser ==
  \A c \in Chans :
    /\ \A t, u \in Threads : Calling(t, "close", c) /\ Calling(u, "close", c) => t = u
    /\ \A u \in Threads : Calling(u, "close", c) =>
         (pc[u] = "lock" <=> ~closed[c]) /\ (pc[u] # "lock" <=> lock[c] = u)
    /\ lock[c] # NULL => Calling(lock[c], "close", c)
    /\ closed[c] \/ Closing(c) => \A t \in Threads : ~Calling(t, "send", c)

\* Threads that are in no queue have no link.
Lists(Q) ==
  /\ \A q \in Queues : /\ Chained(Q[q], first[q], next) /\ Distinct(Q[q])
                       /\ Len(Q[q]) > 0 => last[q] = Q[q][Len(Q[q])]
  /\ \A t \in Threads : next[t] # NULL => \E q \in Queues : In(Q[q], t)

\* A thread is in the queue of its call, asleep or told of a close, ...
Members(Q) ==
  \A t \in Threads, q \in Queues :
    In(Q[q], t) => q = QueueOf(t) /\ (pc[t] = "wait" \/ thrclosed[t])

\* ... and one that was told stays there.
Told(Q) ==
  \A t \in Threads : thrclosed[t] =>
    /\ pc[t] \in {"idle", "wait", "woken"} /\ on[t] \in Chans /\ closed[on[t]]
    /\ In(Q[QueueOf(t)], t)

\* The first n receivers were told, the others not.
Walked(Q, c, n) == \A i \in 1 .. Len(Q[RecvQ(c)]) : thrclosed[Q[RecvQ(c)][i]] <=> i <= n

\* ChanClose tells the receivers in order, and the next one is the one it looks at.  There are
\* no senders to tell.
Walks(Q) ==
  \A c \in Chans :
    /\ closed[c] => Len(Q[SendQ(c)]) = 0
    /\ closed[c] /\ lock[c] = NULL => Walked(Q, c, Len(Q[RecvQ(c)]))
    /\ lock[c] # NULL => \E n \in 0 .. Len(Q[RecvQ(c)]) :
         /\ Walked(Q, c, n)
         /\ peer[lock[c]] = IF n = Len(Q[RecvQ(c)]) THEN NULL ELSE Q[RecvQ(c)][n + 1]
         /\ pc[lock[c]] = "closesend" => n = Len(Q[RecvQ(c)])

Owed(Q, t) == pc[t] = "wait" /\ (thrclosed[t] \/ ~In(Q[QueueOf(t)], t))

Signals(Q) ==
  \A t \in Threads : sema[t] + Cardinality(Releasers(t)) = IF Owed(Q, t) THEN 1 ELSE 0

Waiting(Q) == Lists(Q) /\ Members(Q) /\ Told(Q) /\ Walks(Q) /\ Signals(Q)

Codes == InCode /\ OneCloser

\* There are such lists.
DrainedInv == Codes /\ \E Q \in [Queues -> Seq(Threads)] : Waiting(Q)

\* The peers about to signal a thread can be counted.
LEMMA SomeReleasers ==
  ASSUME NEW t \in Threads
  PROVE  IsFiniteSet(Releasers(t)) /\ Cardinality(Releasers(t)) \in Nat
<1>1. Releasers(t) \in SUBSET Threads
  BY DEF Releasers
<1> QED BY <1>1, ChanAssumption, FS_Subset, FS_CardinalityType

\* The state ChanOpen leaves satisfies the invariant.
LEMMA InitDrained == Init => Codes /\ \E Q \in [Queues -> Seq(Threads)] : Waiting(Q)
<1> SUFFICES ASSUME Init PROVE Codes /\ \E Q \in [Queues -> Seq(Threads)] : Waiting(Q)
  OBVIOUS
<1> DEFINE Q == [q \in Queues |-> <<>>]
<1>0. /\ Q \in [Queues -> Seq(Threads)]
      /\ \A q \in Queues : Len(Q[q]) = 0 /\ Q[q] \in Seq(Threads) /\ \A t : ~In(Q[q], t)
  BY DEF In
<1>1. \A t \in Threads : Releasers(t) = {}
  BY DEF Init, Releasers
<1> HIDE DEF Q
<1>2. Signals(Q)
  <2>1. \A t \in Threads : sema[t] = 0 /\ Cardinality(Releasers(t)) = 0 /\ ~Owed(Q, t)
    BY <1>1, FS_EmptySet DEF Init, Owed
  <2> QED BY <2>1 DEF Signals
<1>3. Lists(Q)
  BY <1>0 DEF Init, Lists, Chained, Distinct
<1>4. Members(Q) /\ Told(Q)
  BY <1>0 DEF Init, Members, Told
<1>5. Walks(Q)
  BY DEF Init, Walks
<1>6. Codes
  BY DEF Init, Codes, InCode, OneCloser, Calling, Closing
<1> QED BY <1>0, <1>2, <1>3, <1>4, <1>5, <1>6 DEF Waiting

-----------------------------------------------------------------------------
(* The steps that leave the queues alone.                                  *)

\* A call starts.
LEMMA StartKeeps ==
  ASSUME Inv, Codes, Contract = "drained", NEW Q \in [Queues -> Seq(Threads)], Waiting(Q),
         NEW t \in Threads, NEW o \in Ops, NEW c \in Chans, Start(t, o, c)
  PROVE  Codes' /\ Waiting(Q)'
<1>0. /\ pc[t] = "idle" /\ ~thrclosed[t]
      /\ pc' = [pc EXCEPT ![t] = FirstStep(o)] /\ op' = [op EXCEPT ![t] = o] /\ on' = [on EXCEPT ![t] = c]
      /\ UNCHANGED <<closed, lock, first, last, next, thrclosed, sema, peer>>
      /\ o = "close" => ~closed[c] /\ \A u \in Threads : ~Calling(u, "close", c) /\ ~Calling(u, "send", c)
      /\ o = "send" => ~closed[c] /\ \A u \in Threads : ~Calling(u, "close", c)
  BY DEF Start, MayCall, Goto, chanVars, waitVars
<1>1. FirstStep(o) \in {"peekclosed", "peekempty", "lock"} /\ (o \in {"send", "recv", "close"} => FirstStep(o) = "lock")
      /\ (FirstStep(o) = "peekclosed" => o = "trysend") /\ (FirstStep(o) = "peekempty" => o = "tryrecv")
  BY DEF FirstStep, Ops
<1>2. /\ pc \in [Threads -> Labels] /\ op \in [Threads -> Ops] /\ on \in [Threads -> Chans \cup {NULL}]
      /\ NULL \notin Chans /\ NULL \notin Threads /\ lock \in [Chans -> Threads \cup {NULL}]
  BY ChanAssumption DEF Inv, TypeOK
<1>3. /\ pc'[t] = FirstStep(o) /\ op'[t] = o /\ on'[t] = c
      /\ \A u \in Threads : u # t => pc'[u] = pc[u] /\ op'[u] = op[u] /\ on'[u] = on[u]
  BY <1>0, <1>2
<1>4. InCode'
  BY <1>0, <1>1, <1>3 DEF Codes, InCode
<1>5. \A u \in Threads, d \in Chans, x \in Ops :
        Calling(u, x, d)' <=> (u # t /\ Calling(u, x, d)) \/ (u = t /\ x = o /\ d = c)
  BY <1>0, <1>1, <1>3 DEF Calling
<1>6. \A d \in Chans : lock[d] # t
  BY <1>0, <1>2 DEF Codes, OneCloser, Calling
<1>7. OneCloser'
  <2> SUFFICES ASSUME NEW d \in Chans
               PROVE  /\ \A v, u \in Threads : Calling(v, "close", d)' /\ Calling(u, "close", d)' => v = u
                      /\ \A u \in Threads : Calling(u, "close", d)' =>
                           (pc'[u] = "lock" <=> ~closed[d]) /\ (pc'[u] # "lock" <=> lock[d] = u)
                      /\ lock[d] # NULL => Calling(lock[d], "close", d)'
                      /\ closed[d] \/ (\E u \in Threads : Calling(u, "close", d)')
                           => \A u \in Threads : ~Calling(u, "send", d)'
    BY <1>0 DEF OneCloser, Closing, Calling
  <2>0. "close" \in Ops /\ "send" \in Ops
    BY DEF Ops
  <2>1. \A v, u \in Threads : Calling(v, "close", d)' /\ Calling(u, "close", d)' => v = u
    BY <1>0, <1>5, <2>0 DEF Codes, OneCloser
  <2>2. \A u \in Threads : Calling(u, "close", d)' =>
          (pc'[u] = "lock" <=> ~closed[d]) /\ (pc'[u] # "lock" <=> lock[d] = u)
    BY <1>0, <1>1, <1>3, <1>5, <1>6, <2>0 DEF Codes, OneCloser
  <2>3. lock[d] # NULL => Calling(lock[d], "close", d)'
    <3> SUFFICES ASSUME NEW u \in Threads, u = lock[d] PROVE Calling(u, "close", d)'
      BY <1>0, <1>2 DEF Calling
    <3>1. Calling(u, "close", d)
      BY <1>2 DEF Codes, OneCloser
    <3> QED BY <1>5, <1>6, <2>0, <3>1
  <2>4. closed[d] \/ (\E u \in Threads : Calling(u, "close", d)')
          => \A u \in Threads : ~Calling(u, "send", d)'
    BY <1>0, <1>5, <2>0 DEF Codes, OneCloser, Closing
  <2> QED BY <2>1, <2>2, <2>3, <2>4
<1>8. \A q \in Queues : ~In(Q[q], t)
  BY <1>0 DEF Waiting, Members
<1>9. Lists(Q)'
  BY <1>0 DEF Waiting, Lists
<1>10. Members(Q)' /\ Told(Q)'
  <2>1. \A u \in Threads, q \in Queues : In(Q[q], u) => u # t
    BY <1>8
  <2>2. \A u \in Threads : u # t => QueueOf(u)' = QueueOf(u)
    BY <1>3 DEF QueueOf
  <2>3. Members(Q)'
    BY <1>0, <1>3, <2>1, <2>2 DEF Waiting, Members
  <2>4. Told(Q)'
    BY <1>0, <1>3, <2>2 DEF Waiting, Told
  <2> QED BY <2>3, <2>4
<1>11. Walks(Q)'
  BY <1>0, <1>2, <1>3, <1>6 DEF Waiting, Walks, Walked
<1>12. \A u \in Threads : Releasers(u)' = Releasers(u)
  BY <1>0, <1>1, <1>3 DEF Releasers
<1>13. \A u \in Threads : Owed(Q, u)' <=> Owed(Q, u)
  BY <1>0, <1>1, <1>3 DEF Owed, QueueOf
<1>14. Signals(Q)'
  BY <1>0, <1>12, <1>13 DEF Waiting, Signals
<1> QED BY <1>4, <1>7, <1>9, <1>10, <1>11, <1>14 DEF Codes, Waiting

\* The steps of the other calls do not matter to a ChanClose.
LEMMA SameClosers ==
  ASSUME Inv, Codes, NEW t \in Threads, pc[t] # "idle", op[t] # "close",
         \A u \in Threads : u # t => pc'[u] = pc[u],
         UNCHANGED <<closed, lock, op, on>>
  PROVE  OneCloser' /\ \A d \in Chans : lock[d] # t
<1>0. NULL \notin Threads /\ lock \in [Chans -> Threads \cup {NULL}]
  BY ChanAssumption DEF Inv, TypeOK
<1>1. /\ \A u \in Threads, d \in Chans : Calling(u, "close", d)' <=> Calling(u, "close", d)
      /\ \A u \in Threads, d \in Chans : Calling(u, "send", d)' => Calling(u, "send", d)
      /\ \A u \in Threads, d \in Chans : Calling(u, "close", d) => u # t
  BY DEF Calling
<1>2. OneCloser'
  <2> SUFFICES ASSUME NEW d \in Chans
               PROVE  /\ \A v, u \in Threads : Calling(v, "close", d)' /\ Calling(u, "close", d)' => v = u
                      /\ \A u \in Threads : Calling(u, "close", d)' =>
                           (pc'[u] = "lock" <=> ~closed[d]) /\ (pc'[u] # "lock" <=> lock[d] = u)
                      /\ lock[d] # NULL => Calling(lock[d], "close", d)'
                      /\ closed[d] \/ (\E u \in Threads : Calling(u, "close", d)')
                           => \A u \in Threads : ~Calling(u, "send", d)'
    BY DEF OneCloser, Closing, Calling
  <2>1. \A v, u \in Threads : Calling(v, "close", d)' /\ Calling(u, "close", d)' => v = u
    BY <1>1 DEF Codes, OneCloser
  <2>2. \A u \in Threads : Calling(u, "close", d)' =>
          (pc'[u] = "lock" <=> ~closed[d]) /\ (pc'[u] # "lock" <=> lock[d] = u)
    BY <1>1 DEF Codes, OneCloser
  <2>3. lock[d] # NULL => Calling(lock[d], "close", d)'
    <3> SUFFICES ASSUME NEW u \in Threads, u = lock[d] PROVE Calling(u, "close", d)'
      BY <1>0 DEF Calling
    <3>1. Calling(u, "close", d)
      BY <1>0 DEF Codes, OneCloser
    <3> QED BY <1>1, <3>1
  <2>4. closed[d] \/ (\E u \in Threads : Calling(u, "close", d)')
          => \A u \in Threads : ~Calling(u, "send", d)'
    BY <1>1 DEF Codes, OneCloser, Closing
  <2> QED BY <2>1, <2>2, <2>3, <2>4
<1>3. \A d \in Chans : lock[d] # t
  BY <1>0, <1>1 DEF Codes, OneCloser
<1> QED BY <1>2, <1>3

\* The steps of a send or a receive that neither park nor hand over, and a wake-up.
Quiet(t) ==
  /\ pc[t] \in {"peekclosed", "peekfull", "peekempty", "peekopen", "peekagain", "lock", "woken"}
  /\ op[t] # "close"
  /\ \E l \in {"peekfull", "peekopen", "peekagain", "lock", "idle"} : Goto(t, l)
  /\ pc'[t] = "peekfull" => op[t] = "trysend"
  /\ pc'[t] \in {"peekopen", "peekagain"} => op[t] = "tryrecv"
  /\ pc'[t] # "idle" => pc[t] # "woken"
  /\ UNCHANGED <<closed, lock, first, last, next, thrclosed, sema, peer, op, on>>

\* They keep the invariant.
LEMMA QuietKeeps ==
  ASSUME Inv, Codes, NEW Q \in [Queues -> Seq(Threads)], Waiting(Q), NEW t \in Threads, Quiet(t)
  PROVE  Codes' /\ Waiting(Q)'
<1>0. /\ pc \in [Threads -> Labels] /\ NULL \notin Chans /\ NULL \notin Threads
      /\ lock \in [Chans -> Threads \cup {NULL}]
  BY ChanAssumption DEF Inv, TypeOK
<1>1. /\ pc'[t] \in {"peekfull", "peekopen", "peekagain", "lock", "idle"}
      /\ \A u \in Threads : u # t => pc'[u] = pc[u]
  BY <1>0 DEF Quiet, Goto
<1>2. InCode'
  BY <1>1 DEF Codes, InCode, Quiet
<1>3. OneCloser' /\ \A d \in Chans : lock[d] # t
  BY <1>1, SameClosers DEF Quiet
<1>5. Lists(Q)'
  BY DEF Waiting, Lists, Quiet
<1>6. Members(Q)' /\ Told(Q)'
  BY <1>1 DEF Waiting, Members, Told, QueueOf, Quiet
<1>8. Walks(Q)'
  BY <1>0, <1>1, <1>3 DEF Waiting, Walks, Walked, Quiet
<1>9. \A u \in Threads : Releasers(u)' = Releasers(u)
  BY <1>1 DEF Releasers, Quiet
<1>10. \A u \in Threads : Owed(Q, u)' <=> Owed(Q, u)
  BY <1>1 DEF Owed, QueueOf, Quiet
<1>11. Signals(Q)'
  BY <1>9, <1>10 DEF Waiting, Signals, Quiet
<1> QED BY <1>2, <1>3, <1>5, <1>6, <1>8, <1>11 DEF Codes, Waiting

\* Which steps they are.
LEMMA QuietSteps ==
  ASSUME Inv, Codes, NEW t \in Threads,
         \/ PeekClosed(t) \/ PeekFull(t) \/ PeekEmpty(t) \/ PeekOpen(t) \/ PeekAgain(t)
         \/ SendClosed(t) \/ SendBuffer(t) \/ SendFull(t)
         \/ RecvClosed(t) \/ RecvBuffer(t) \/ RecvEmpty(t) \/ Woken(t)
  PROVE  Quiet(t)
<1> USE DEF Codes, InCode, Quiet, fastUnchanged, chanVars, waitVars, callVars, Goto, Return,
            ReturnClosed, Locking, Inv, TypeOK
<1>1. CASE PeekClosed(t)
  BY <1>1 DEF PeekClosed
<1>2. CASE PeekFull(t)
  BY <1>2 DEF PeekFull
<1>3. CASE PeekEmpty(t)
  BY <1>3 DEF PeekEmpty
<1>4. CASE PeekOpen(t)
  BY <1>4 DEF PeekOpen
<1>5. CASE PeekAgain(t)
  BY <1>5 DEF PeekAgain
<1>6. CASE SendClosed(t)
  BY <1>6 DEF SendClosed, Sends
<1>7. CASE SendBuffer(t)
  BY <1>7 DEF SendBuffer, Sends
<1>8. CASE SendFull(t)
  BY <1>8 DEF SendFull
<1>9. CASE RecvClosed(t)
  BY <1>9 DEF RecvClosed, Recvs
<1>10. CASE RecvBuffer(t)
  BY <1>10 DEF RecvBuffer, Recvs
<1>11. CASE RecvEmpty(t)
  BY <1>11 DEF RecvEmpty
<1>12. CASE Woken(t)
  BY <1>12 DEF Woken
<1> QED BY <1>1, <1>2, <1>3, <1>4, <1>5, <1>6, <1>7, <1>8, <1>9, <1>10, <1>11, <1>12

-----------------------------------------------------------------------------
(* A thread is dequeued, and later signalled.                              *)

\* chan_send_direct and chan_recv_direct on an open channel.
LEMMA HandKeeps ==
  ASSUME Inv, Codes, NEW Q \in [Queues -> Seq(Threads)], Waiting(Q), NEW t \in Threads,
         NEW c \in Chans, c = on[t], NEW q \in {SendQ(c), RecvQ(c)},
         pc[t] = "lock", op[t] # "close", lock[c] = NULL, ~closed[c],
         NEW r, r = first[q], r # NULL,
         Dequeue(q), Goto(t, "signal"), peer' = [peer EXCEPT ![t] = r],
         UNCHANGED <<closed, lock, thrclosed, sema, op, on>>
  PROVE  Codes' /\ Waiting([Q EXCEPT ![q] = Tail(@)])'
<1> DEFINE R == [Q EXCEPT ![q] = Tail(@)]
<1>0. /\ pc \in [Threads -> Labels] /\ NULL \notin Threads /\ peer \in [Threads -> Threads \cup {NULL}]
      /\ first \in [Queues -> Threads \cup {NULL}] /\ next \in [Threads -> Threads \cup {NULL}]
      /\ lock \in [Chans -> Threads \cup {NULL}] /\ sema \in [Threads -> Nat]
  BY ChanAssumption DEF Inv, TypeOK
<1>1. pc'[t] = "signal" /\ \A u \in Threads : u # t => pc'[u] = pc[u]
  BY <1>0 DEF Goto
<1>2. OneCloser' /\ \A d \in Chans : lock[d] # t
  BY <1>1, SameClosers
<1>3. InCode'
  BY <1>1 DEF Codes, InCode
<1>4. q \in Queues
  BY QueueOfChan
<1>5. Chained(Q[q], r, next) /\ Distinct(Q[q])
  BY <1>4 DEF Waiting, Lists
<1>6. /\ Len(Q[q]) > 0 /\ Q[q][1] = r /\ r \in Threads
      /\ Chained(Tail(Q[q]), next[r], [next EXCEPT ![r] = NULL]) /\ Distinct(Tail(Q[q]))
      /\ Without(Tail(Q[q]), Q[q], r)
      /\ Len(Tail(Q[q])) > 0 => Tail(Q[q])[Len(Tail(Q[q]))] = Q[q][Len(Q[q])]
  <2>1. PICK L, nx : L = Q[q] /\ nx = next
    OBVIOUS
  <2>2. Chained(L, r, nx) /\ Distinct(L) /\ r # NULL /\ nx \in [Threads -> Threads \cup {NULL}]
    BY <1>0, <1>5, <2>1
  <2>3. Len(L) > 0 /\ L[1] = r /\ r \in Threads
    BY <2>2, Unlink
  <2>4. Chained(Tail(L), nx[r], [nx EXCEPT ![r] = NULL]) /\ Distinct(Tail(L))
    BY <2>2, Unlink
  <2>5. Without(Tail(L), L, r)
    BY <2>2, Unlink
  <2>6. Len(Tail(L)) > 0 => Tail(L)[Len(Tail(L))] = L[Len(L)]
    BY <2>2, Unlink
  <2> QED BY <2>1, <2>3, <2>4, <2>5, <2>6
<1>7. In(Q[q], r)
  <2>1. 1 \in 1 .. Len(Q[q])
    BY <1>5, <1>6 DEF Chained
  <2> QED BY <1>6, <2>1 DEF In
<1>8. /\ first' = [first EXCEPT ![q] = next[r]] /\ next' = [next EXCEPT ![r] = NULL] /\ last' = last
      /\ peer' = [peer EXCEPT ![t] = r]
  BY DEF Dequeue
<1>9. R[q] = Tail(Q[q]) /\ \A p \in Queues : p # q => R[p] = Q[p]
  BY <1>4
<1> HIDE DEF R
<1>10. \A p \in Queues : In(Q[p], r) => p = q
  BY <1>4, <1>6, <1>7 DEF Waiting, Members
<1>11. pc[r] = "wait" /\ ~thrclosed[r] /\ r # t /\ QueueOf(r) = q
  <2>1. QueueOf(r) = q /\ (pc[r] = "wait" \/ thrclosed[r])
    BY <1>4, <1>6, <1>7 DEF Waiting, Members
  <2>2. on[r] = c
    BY <2>1 DEF QueueOf, SendQ, RecvQ
  <2> QED BY <1>6, <2>1, <2>2 DEF Waiting, Told
<1>12. \A p \in Queues, u \in Threads : In(R[p], u) <=> In(Q[p], u) /\ u # r
  BY <1>6, <1>9, <1>10 DEF Without
<1>13. Lists(R)'
  <2>1. ASSUME NEW p \in Queues
        PROVE  /\ Chained(R[p], first'[p], next') /\ Distinct(R[p])
               /\ Len(R[p]) > 0 => last'[p] = R[p][Len(R[p])]
    <3>1. CASE p = q
      BY <1>0, <1>4, <1>6, <1>8, <1>9, <3>1 DEF Waiting, Lists
    <3>2. CASE p # q
      <4>1. Chained(Q[p], first[p], next) /\ \A i \in 1 .. Len(Q[p]) : Q[p][i] # r
        BY <1>10, <3>2 DEF Waiting, Lists, In
      <4>2. \A i \in 1 .. Len(Q[p]) : next'[Q[p][i]] = next[Q[p][i]]
        BY <1>0, <1>8, <4>1 DEF Chained
      <4>3. Chained(Q[p], first[p], next')
        BY <4>1, <4>2, SameLinks
      <4> QED BY <1>0, <1>8, <1>9, <3>2, <4>3 DEF Waiting, Lists
    <3> QED BY <3>1, <3>2
  <2>2. ASSUME NEW u \in Threads, next'[u] # NULL PROVE \E p \in Queues : In(R[p], u)
    <3>1. u # r /\ next[u] # NULL
      BY <1>0, <1>6, <1>8, <2>2
    <3>2. PICK p \in Queues : In(Q[p], u)
      BY <3>1 DEF Waiting, Lists
    <3> QED BY <1>12, <3>1, <3>2
  <2> QED BY <2>1, <2>2 DEF Lists
<1>14. Members(R)'
  BY <1>1, <1>11, <1>12 DEF Waiting, Members, QueueOf
<1>15. Told(R)'
  <2> SUFFICES ASSUME NEW u \in Threads, thrclosed[u]
               PROVE  /\ pc'[u] \in {"idle", "wait", "woken"} /\ on[u] \in Chans /\ closed[on[u]]
                      /\ In(R[QueueOf(u)], u)
    BY DEF Told, QueueOf
  <2>1. pc[u] \in {"idle", "wait", "woken"} /\ on[u] \in Chans /\ closed[on[u]] /\ In(Q[QueueOf(u)], u)
    BY DEF Waiting, Told
  <2>2. u # t /\ u # r /\ QueueOf(u) \in Queues
    BY <1>11, <2>1 DEF QueueOf, Queues
  <2> QED BY <1>1, <1>12, <2>1, <2>2
<1>16. Walks(R)'
  <2> SUFFICES ASSUME NEW d \in Chans
               PROVE  /\ closed[d] => Len(R[SendQ(d)]) = 0
                      /\ closed[d] /\ lock[d] = NULL => Walked(R, d, Len(R[RecvQ(d)]))'
                      /\ lock[d] # NULL => \E n \in 0 .. Len(R[RecvQ(d)]) :
                           /\ Walked(R, d, n)'
                           /\ peer'[lock[d]] = IF n = Len(R[RecvQ(d)]) THEN NULL ELSE R[RecvQ(d)][n + 1]
                           /\ pc'[lock[d]] = "closesend" => n = Len(R[RecvQ(d)])
    BY DEF Walks, Walked
  <2>1. CASE d = c
    BY <2>1
  <2>2. CASE d # c
    <3>1. R[SendQ(d)] = Q[SendQ(d)] /\ R[RecvQ(d)] = Q[RecvQ(d)]
      BY <1>9, <2>2, QueueOfChan, QueuesDiffer
    <3>2. lock[d] # NULL => peer'[lock[d]] = peer[lock[d]] /\ pc'[lock[d]] = pc[lock[d]]
      BY <1>0, <1>1, <1>2, <1>8
    <3> QED BY <3>1, <3>2 DEF Waiting, Walks, Walked
  <2> QED BY <2>1, <2>2
<1>17. Signals(R)'
  <2> SUFFICES ASSUME NEW u \in Threads
               PROVE  sema[u] + Cardinality(Releasers(u)') = IF Owed(R, u)' THEN 1 ELSE 0
    BY DEF Signals, Releasers
  <2>1. sema[u] + Cardinality(Releasers(u)) = IF Owed(Q, u) THEN 1 ELSE 0
    BY DEF Waiting, Signals
  <2>2. CASE u = r
    <3>1. Releasers(r)' = Releasers(r) \cup {t} /\ t \notin Releasers(r)
      BY <1>0, <1>1, <1>8 DEF Releasers
    <3>2. IsFiniteSet(Releasers(r)) /\ Cardinality(Releasers(r)) \in Nat /\ sema[r] \in Nat
      BY <1>0, <1>6, SomeReleasers
    <3>3. ~Owed(Q, r) /\ Owed(R, r)'
      <4>1. ~Owed(Q, r)
        BY <1>7, <1>11 DEF Owed
      <4>2. ~In(R[q], r) /\ QueueOf(r)' = q
        BY <1>4, <1>6, <1>11, <1>12 DEF QueueOf
      <4>3. pc'[r] = "wait"
        BY <1>1, <1>6, <1>11
      <4> QED BY <4>1, <4>2, <4>3 DEF Owed
    <3>4. sema[r] + Cardinality(Releasers(r)) = 0
      BY <2>1, <2>2, <3>3
    <3>5. Cardinality(Releasers(r) \cup {t}) = Cardinality(Releasers(r)) + 1
      BY <3>1, <3>2, FS_AddElement
    <3>6. sema[r] + Cardinality(Releasers(r) \cup {t}) = 1
      <4> DEFINE k == Cardinality(Releasers(r))
      <4>1. k \in Nat /\ sema[r] \in Nat /\ sema[r] + k = 0
        BY <3>2, <3>4
      <4>2. Cardinality(Releasers(r) \cup {t}) = k + 1
        BY <3>5
      <4> HIDE DEF k
      <4> QED BY <4>1, <4>2
    <3> QED BY <2>2, <3>1, <3>3, <3>6
  <2>3. CASE u # r
    <3>1. Releasers(u)' = Releasers(u)
      BY <1>0, <1>1, <1>8, <2>3 DEF Releasers
    <3>2. Owed(R, u)' <=> Owed(Q, u)
      <4>1. QueueOf(u)' = QueueOf(u)
        BY DEF QueueOf
      <4>2. pc'[u] = "wait" <=> pc[u] = "wait"
        BY <1>1
      <4>3. pc[u] = "wait" => QueueOf(u) \in Queues
        BY DEF Inv, TypeOK, QueueOf, Queues
      <4>4. pc[u] = "wait" => (In(R[QueueOf(u)], u) <=> In(Q[QueueOf(u)], u))
        BY <1>12, <2>3, <4>3
      <4> QED BY <4>1, <4>2, <4>4 DEF Owed
    <3> QED BY <2>1, <3>1, <3>2
  <2> QED BY <2>2, <2>3
<1>18. Waiting(R)'
  BY <1>13, <1>14, <1>15, <1>16, <1>17 DEF Waiting
<1> QED BY <1>2, <1>3, <1>18 DEF Codes, R

\* chan_park on an open channel.
LEMMA SleepKeeps ==
  ASSUME Inv, Codes, NEW Q \in [Queues -> Seq(Threads)], Waiting(Q), NEW t \in Threads,
         NEW c \in Chans, c = on[t], NEW q \in {SendQ(c), RecvQ(c)}, q = QueueOf(t),
         pc[t] = "lock", op[t] \in {"send", "recv"}, lock[c] = NULL, ~closed[c],
         Enqueue(q, t), Goto(t, "wait"), UNCHANGED <<closed, lock, thrclosed, sema, op, on, peer>>
  PROVE  Codes' /\ Waiting([Q EXCEPT ![q] = Append(@, t)])'
<1> DEFINE R == [Q EXCEPT ![q] = Append(@, t)]
<1>0. /\ pc \in [Threads -> Labels] /\ NULL \notin Threads /\ peer \in [Threads -> Threads \cup {NULL}]
      /\ first \in [Queues -> Threads \cup {NULL}] /\ next \in [Threads -> Threads \cup {NULL}]
      /\ last \in [Queues -> Threads \cup {NULL}]
      /\ lock \in [Chans -> Threads \cup {NULL}] /\ sema \in [Threads -> Nat]
  BY ChanAssumption DEF Inv, TypeOK
<1>1. pc'[t] = "wait" /\ \A u \in Threads : u # t => pc'[u] = pc[u]
  BY <1>0 DEF Goto
<1>2. OneCloser' /\ \A d \in Chans : lock[d] # t
  BY <1>1, SameClosers
<1>3. InCode'
  BY <1>1 DEF Codes, InCode
<1>4. q \in Queues
  BY QueueOfChan
<1>5. ~thrclosed[t] /\ next[t] = NULL /\ \A p \in Queues : ~In(Q[p], t)
  <2>1. ~thrclosed[t]
    BY DEF Waiting, Told
  <2>2. \A p \in Queues : ~In(Q[p], t)
    BY <2>1 DEF Waiting, Members
  <2> QED BY <2>1, <2>2 DEF Waiting, Lists
<1>6. PICK L, p, nx, np, ny, l :
        L = Q[q] /\ p = first[q] /\ nx = next /\ np = first'[q] /\ ny = next' /\ l = last[q]
  OBVIOUS
<1>7. /\ Chained(L, p, nx) /\ Distinct(L) /\ ~In(L, t) /\ nx[t] = NULL
      /\ nx \in [Threads -> Threads \cup {NULL}]
  BY <1>0, <1>4, <1>5, <1>6 DEF Waiting, Lists
<1>8. Linking(L, p, nx, l, t, np, ny)
  BY <1>0, <1>4, <1>6 DEF Enqueue, Linking, Waiting, Lists
<1>9. /\ Chained(Append(L, t), np, ny) /\ Distinct(Append(L, t))
      /\ With(Append(L, t), L, t)
      /\ Append(L, t)[Len(Append(L, t))] = t
      /\ ny \in [Threads -> Threads \cup {NULL}]
      /\ OnlyIn(L, nx, ny)
  <2>1. Chained(Append(L, t), np, ny) /\ Distinct(Append(L, t))
    BY <1>7, <1>8, Link
  <2>2. With(Append(L, t), L, t)
    BY <1>7, <1>8, Link
  <2>3. Append(L, t)[Len(Append(L, t))] = t
    BY <1>7, <1>8, Link
  <2>4. ny \in [Threads -> Threads \cup {NULL}]
    BY <1>7, <1>8, Link
  <2>5. OnlyIn(L, nx, ny)
    BY <1>7, <1>8, Link
  <2> QED BY <2>1, <2>2, <2>3, <2>4, <2>5
<1>10. R[q] = Append(L, t) /\ \A k \in Queues : k # q => R[k] = Q[k]
  BY <1>4, <1>6
<1> HIDE DEF R
<1>11. \A k \in Queues, u \in Threads : In(R[k], u) <=> In(Q[k], u) \/ (k = q /\ u = t)
  BY <1>6, <1>9, <1>10 DEF With
<1>12. last'[q] = t /\ \A k \in Queues : k # q => last'[k] = last[k] /\ first'[k] = first[k]
  BY <1>0, <1>4 DEF Enqueue
<1>13. Lists(R)'
  <2>1. ASSUME NEW k \in Queues
        PROVE  /\ Chained(R[k], first'[k], next') /\ Distinct(R[k])
               /\ Len(R[k]) > 0 => last'[k] = R[k][Len(R[k])]
    <3>1. CASE k = q
      BY <1>6, <1>9, <1>10, <1>12, <3>1
    <3>2. CASE k # q
      <4>1. Chained(Q[k], first[k], next)
        BY DEF Waiting, Lists
      <4>2. ASSUME NEW i \in 1 .. Len(Q[k]) PROVE next'[Q[k][i]] = next[Q[k][i]]
        <5>1. Q[k][i] \in Threads /\ In(Q[k], Q[k][i])
          BY <4>1 DEF Chained, In
        <5>2. ~In(Q[q], Q[k][i])
          BY <1>4, <3>2, <5>1 DEF Waiting, Members
        <5> QED BY <1>6, <1>9, <5>1, <5>2 DEF OnlyIn
      <4>3. Chained(Q[k], first[k], next')
        BY <4>1, <4>2, SameLinks
      <4> QED BY <1>10, <1>12, <3>2, <4>3 DEF Waiting, Lists
    <3> QED BY <3>1, <3>2
  <2>2. ASSUME NEW u \in Threads, next'[u] # NULL PROVE \E k \in Queues : In(R[k], u)
    <3>1. CASE In(Q[q], u)
      BY <1>4, <1>11, <3>1
    <3>2. CASE ~In(Q[q], u)
      <4>1. next[u] # NULL
        BY <1>6, <1>9, <2>2, <3>2 DEF OnlyIn
      <4>2. PICK k \in Queues : In(Q[k], u)
        BY <4>1 DEF Waiting, Lists
      <4> QED BY <1>11, <4>2
    <3> QED BY <3>1, <3>2
  <2> QED BY <2>1, <2>2 DEF Lists
<1>14. Members(R)'
  <2>1. \A u \in Threads : QueueOf(u)' = QueueOf(u)
    BY DEF QueueOf
  <2>2. ASSUME NEW u \in Threads, NEW k \in Queues, In(R[k], u)
        PROVE  k = QueueOf(u) /\ (pc'[u] = "wait" \/ thrclosed[u])
    <3>1. CASE u = t /\ k = q
      BY <1>1, <3>1
    <3>2. CASE In(Q[k], u)
      <4>1. u # t
        BY <1>5, <3>2
      <4> QED BY <1>1, <3>2, <4>1 DEF Waiting, Members
    <3> QED BY <1>11, <2>2, <3>1, <3>2
  <2> QED BY <2>1, <2>2 DEF Members
<1>15. Told(R)'
  <2> SUFFICES ASSUME NEW u \in Threads, thrclosed[u]
               PROVE  /\ pc'[u] \in {"idle", "wait", "woken"} /\ on[u] \in Chans /\ closed[on[u]]
                      /\ In(R[QueueOf(u)], u)
    BY DEF Told, QueueOf
  <2>1. pc[u] \in {"idle", "wait", "woken"} /\ on[u] \in Chans /\ closed[on[u]] /\ In(Q[QueueOf(u)], u)
    BY DEF Waiting, Told
  <2>2. u # t /\ QueueOf(u) \in Queues
    BY <1>5, <2>1 DEF QueueOf, Queues
  <2> QED BY <1>1, <1>11, <2>1, <2>2
<1>16. Walks(R)'
  <2> SUFFICES ASSUME NEW d \in Chans
               PROVE  /\ closed[d] => Len(R[SendQ(d)]) = 0
                      /\ closed[d] /\ lock[d] = NULL => Walked(R, d, Len(R[RecvQ(d)]))'
                      /\ lock[d] # NULL => \E n \in 0 .. Len(R[RecvQ(d)]) :
                           /\ Walked(R, d, n)'
                           /\ peer'[lock[d]] = IF n = Len(R[RecvQ(d)]) THEN NULL ELSE R[RecvQ(d)][n + 1]
                           /\ pc'[lock[d]] = "closesend" => n = Len(R[RecvQ(d)])
    BY DEF Walks, Walked
  <2>1. CASE d = c
    BY <2>1
  <2>2. CASE d # c
    <3>1. R[SendQ(d)] = Q[SendQ(d)] /\ R[RecvQ(d)] = Q[RecvQ(d)]
      BY <1>10, <2>2, QueueOfChan, QueuesDiffer
    <3>2. lock[d] # NULL => peer'[lock[d]] = peer[lock[d]] /\ pc'[lock[d]] = pc[lock[d]]
      BY <1>0, <1>1, <1>2
    <3> QED BY <3>1, <3>2 DEF Waiting, Walks, Walked
  <2> QED BY <2>1, <2>2
<1>17. Signals(R)'
  <2>1. \A u \in Threads : Releasers(u)' = Releasers(u)
    BY <1>1 DEF Releasers
  <2>2. ASSUME NEW u \in Threads PROVE Owed(R, u)' <=> Owed(Q, u)
    <3>1. QueueOf(u)' = QueueOf(u)
      BY DEF QueueOf
    <3>2. CASE u = t
      <4>1. ~Owed(Q, u)
        BY <3>2 DEF Owed
      <4>2. In(R[QueueOf(u)], u) /\ ~thrclosed[u]
        BY <1>4, <1>5, <1>11, <3>2
      <4> QED BY <3>1, <4>1, <4>2 DEF Owed
    <3>3. CASE u # t
      <4>1. pc'[u] = pc[u]
        BY <1>1, <3>3
      <4>2. pc[u] = "wait" => QueueOf(u) \in Queues
        BY DEF Inv, TypeOK, QueueOf, Queues
      <4>3. pc[u] = "wait" => (In(R[QueueOf(u)], u) <=> In(Q[QueueOf(u)], u))
        BY <1>11, <3>3, <4>2
      <4> QED BY <3>1, <4>1, <4>3 DEF Owed
    <3> QED BY <3>2, <3>3
  <2> QED BY <2>1, <2>2 DEF Waiting, Signals
<1>18. Waiting(R)'
  BY <1>13, <1>14, <1>15, <1>16, <1>17 DEF Waiting
<1> QED BY <1>2, <1>3, <1>18 DEF Codes, R

\* A permit is given, and taken.
LEMMA SignalKeeps ==
  ASSUME Inv, Codes, NEW Q \in [Queues -> Seq(Threads)], Waiting(Q), NEW t \in Threads,
         Signal(t) \/ Wait(t)
  PROVE  Codes' /\ Waiting(Q)'
<1>0. /\ pc \in [Threads -> Labels] /\ NULL \notin Threads /\ peer \in [Threads -> Threads \cup {NULL}]
      /\ lock \in [Chans -> Threads \cup {NULL}] /\ sema \in [Threads -> Nat]
  BY ChanAssumption DEF Inv, TypeOK
<1>1. /\ UNCHANGED <<closed, lock, first, last, next, thrclosed, op, on>>
      /\ pc[t] \in {"signal", "wait"} /\ pc'[t] \in {"idle", "woken"}
      /\ (pc'[t] = "woken" => pc[t] = "wait") /\ \A u \in Threads : u # t => pc'[u] = pc[u]
      /\ \A u \in Threads : u # t => peer'[u] = peer[u]
  BY <1>0 DEF Signal, Wait, Return, Goto, thrUnchanged, chanVars, waitVars, callVars
<1>2. op[t] # "close"
  BY <1>1 DEF Codes, InCode
<1>3. OneCloser' /\ \A d \in Chans : lock[d] # t
  BY <1>1, <1>2, SameClosers
<1>4. InCode'
  BY <1>1, <1>2 DEF Codes, InCode
<1>5. Lists(Q)'
  BY <1>1 DEF Waiting, Lists
<1>6. \A u \in Threads : QueueOf(u)' = QueueOf(u)
  BY <1>1 DEF QueueOf
<1>7. Walks(Q)'
  <2>1. Walks(Q)
    BY DEF Waiting
  <2>2. \A d \in Chans, n \in Nat : Walked(Q, d, n)' <=> Walked(Q, d, n)
    BY <1>1 DEF Walked
  <2>3. ASSUME NEW d \in Chans, lock[d] # NULL
        PROVE  peer'[lock[d]] = peer[lock[d]] /\ pc'[lock[d]] = pc[lock[d]]
    BY <1>0, <1>1, <1>3, <2>3
  <2>4. \A d \in Chans : Len(Q[RecvQ(d)]) \in Nat
    BY QueueOfChan
  <2> QED BY ONLY <1>1, <2>1, <2>2, <2>3, <2>4 DEF Walks
<1>8. CASE Signal(t)
  <2> DEFINE p == peer[t]
  <2>0. PICK r \in Threads : r = peer[t]
    BY <1>0, <1>8 DEF Signal, Inv, TypeOK
  <2>1. /\ pc[t] = "signal" /\ pc'[t] = "idle" /\ sema'[r] = sema[r] + 1
        /\ \A u \in Threads : u # r => sema'[u] = sema[u]
    BY <1>0, <1>8, <2>0 DEF Signal, Return, Goto
  <2>2. Members(Q)' /\ Told(Q)'
    BY <1>1, <1>6, <2>1 DEF Waiting, Members, Told
  <2>3. \A u \in Threads : Owed(Q, u)' <=> Owed(Q, u)
    BY <1>1, <1>6, <2>1 DEF Owed
  <2>4. ASSUME NEW u \in Threads
        PROVE  sema'[u] + Cardinality(Releasers(u)') = sema[u] + Cardinality(Releasers(u))
    <3>1. CASE u = r
      <4>1. Releasers(r)' = Releasers(r) \ {t} /\ t \in Releasers(r)
        BY <1>1, <2>0, <2>1 DEF Releasers
      <4>2. IsFiniteSet(Releasers(r)) /\ Cardinality(Releasers(r)) \in Nat /\ sema[r] \in Nat
        BY <1>0, SomeReleasers
      <4> DEFINE k == Cardinality(Releasers(r))
      <4>3. Cardinality(Releasers(r) \ {t}) = k - 1
        BY <4>1, <4>2, FS_RemoveElement
      <4>4. k \in Nat /\ sema[r] \in Nat
        BY <4>2
      <4> HIDE DEF k
      <4>5. (sema[r] + 1) + (k - 1) = sema[r] + k
        BY <4>4
      <4> QED BY <2>1, <3>1, <4>1, <4>3, <4>5 DEF k
    <3>2. CASE u # r
      <4>1. Releasers(u)' = Releasers(u)
        BY <1>1, <2>0, <2>1, <3>2 DEF Releasers
      <4> QED BY <2>1, <3>2, <4>1
    <3> QED BY <3>1, <3>2
  <2>5. Signals(Q)'
    BY <2>3, <2>4 DEF Waiting, Signals, Releasers
  <2> QED BY <1>3, <1>4, <1>5, <1>7, <2>2, <2>5 DEF Codes, Waiting
<1>9. CASE Wait(t)
  <2>1. /\ pc[t] = "wait" /\ pc'[t] = "woken" /\ sema[t] > 0 /\ sema'[t] = sema[t] - 1
        /\ \A u \in Threads : u # t => sema'[u] = sema[u]
    BY <1>0, <1>9 DEF Wait, Goto
  <2>2. sema[t] + Cardinality(Releasers(t)) = IF Owed(Q, t) THEN 1 ELSE 0
    BY DEF Waiting, Signals
  <2>3. Cardinality(Releasers(t)) \in Nat /\ sema[t] \in Nat
    BY <1>0, SomeReleasers
  <2>4. Owed(Q, t) /\ sema[t] = 1 /\ Cardinality(Releasers(t)) = 0
    BY <2>1, <2>2, <2>3
  <2>5. Members(Q)' /\ Told(Q)'
    <3>1. ASSUME NEW q \in Queues, In(Q[q], t) PROVE thrclosed[t]
      BY <2>4, <3>1 DEF Waiting, Members, Owed
    <3>2. Members(Q)'
      BY <1>1, <1>6, <3>1 DEF Waiting, Members
    <3>3. Told(Q)'
      BY <1>1, <1>6, <2>1 DEF Waiting, Told
    <3> QED BY <3>2, <3>3
  <2>6. \A u \in Threads : Releasers(u)' = Releasers(u)
    BY <1>1, <2>1 DEF Releasers
  <2>7. \A u \in Threads : u # t => (Owed(Q, u)' <=> Owed(Q, u))
    BY <1>1, <1>6 DEF Owed
  <2>8. ~Owed(Q, t)'
    BY <2>1 DEF Owed
  <2>9. Signals(Q)'
    <3> SUFFICES ASSUME NEW u \in Threads
                 PROVE  sema'[u] + Cardinality(Releasers(u)) = IF Owed(Q, u)' THEN 1 ELSE 0
      BY <2>6 DEF Signals
    <3>1. CASE u = t
      BY <2>1, <2>4, <2>8, <3>1
    <3>2. CASE u # t
      BY <2>1, <2>7, <3>2 DEF Waiting, Signals
    <3> QED BY <3>1, <3>2
  <2> QED BY <1>3, <1>4, <1>5, <1>7, <2>5, <2>9 DEF Codes, Waiting
<1> QED BY <1>8, <1>9

-----------------------------------------------------------------------------
(* ChanClose.                                                              *)

\* The thread at a place of a queue is in a call on the channel of the queue.
LEMMA AtPlace ==
  ASSUME NEW Q \in [Queues -> Seq(Threads)], Waiting(Q), NEW c \in Chans, NEW q \in {SendQ(c), RecvQ(c)},
         NEW i \in 1 .. Len(Q[q])
  PROVE  /\ Q[q][i] \in Threads /\ In(Q[q], Q[q][i]) /\ QueueOf(Q[q][i]) = q /\ on[Q[q][i]] = c
         /\ pc[Q[q][i]] = "wait" \/ thrclosed[Q[q][i]]
<1>0. q \in Queues
  BY QueueOfChan
<1>1. Q[q][i] \in Threads /\ In(Q[q], Q[q][i])
  BY <1>0 DEF In
<1>2. QueueOf(Q[q][i]) = q /\ (pc[Q[q][i]] = "wait" \/ thrclosed[Q[q][i]])
  BY <1>0, <1>1 DEF Waiting, Members
<1>3. on[Q[q][i]] = c
  BY <1>2 DEF QueueOf, SendQ, RecvQ
<1> QED BY <1>1, <1>2, <1>3

\* A thread in the loops of ChanClose has the lock of its channel, and of no other.
LEMMA Closer ==
  ASSUME Inv, Codes, NEW t \in Threads, pc[t] \in {"closerecv", "closesend"}
  PROVE  /\ on[t] \in Chans /\ op[t] = "close" /\ closed[on[t]] /\ lock[on[t]] = t
         /\ \A d \in Chans : lock[d] = t <=> d = on[t]
<1>1. on[t] \in Chans /\ op[t] = "close" /\ Calling(t, "close", on[t])
  BY DEF Inv, TypeOK, Codes, InCode, Calling
<1>2. closed[on[t]] /\ lock[on[t]] = t
  BY <1>1 DEF Codes, OneCloser
<1>3. ASSUME NEW d \in Chans, lock[d] = t PROVE d = on[t]
  <2>1. lock[d] # NULL
    BY <1>3, ChanAssumption
  <2> QED BY <1>3, <2>1 DEF Codes, OneCloser, Calling
<1> QED BY <1>1, <1>2, <1>3

\* The channel is marked closed, and nobody was told.
LEMMA CloseMarkKeeps ==
  ASSUME Inv, Codes, NEW Q \in [Queues -> Seq(Threads)], Waiting(Q), NEW t \in Threads, CloseMark(t)
  PROVE  Codes' /\ Waiting(Q)'
<1>0. /\ pc \in [Threads -> Labels] /\ NULL \notin Threads /\ peer \in [Threads -> Threads \cup {NULL}]
      /\ lock \in [Chans -> Threads \cup {NULL}] /\ closed \in [Chans -> BOOLEAN]
  BY ChanAssumption DEF Inv, TypeOK
<1>1. PICK c \in Chans : c = on[t]
  BY DEF CloseMark, Locking, Inv, TypeOK
<1>2. /\ pc[t] = "lock" /\ op[t] = "close" /\ lock[c] = NULL
      /\ closed' = [closed EXCEPT ![c] = TRUE] /\ lock' = [lock EXCEPT ![c] = t]
      /\ peer' = [peer EXCEPT ![t] = first[RecvQ(c)]] /\ pc' = [pc EXCEPT ![t] = "closerecv"]
      /\ UNCHANGED <<first, last, next, thrclosed, sema, op, on>>
  BY <1>1 DEF CloseMark, Locking, Goto, closeUnchanged, waitVars, callVars
<1>3. /\ pc'[t] = "closerecv" /\ \A u \in Threads : u # t => pc'[u] = pc[u] /\ peer'[u] = peer[u]
      /\ closed'[c] /\ lock'[c] = t /\ \A d \in Chans : d # c => closed'[d] = closed[d] /\ lock'[d] = lock[d]
      /\ peer'[t] = first[RecvQ(c)]
  BY <1>0, <1>2
<1>4. Calling(t, "close", c) /\ ~closed[c]
  BY <1>1, <1>2 DEF Calling, Codes, OneCloser
<1>5. \A d \in Chans : lock[d] # t
  BY <1>0, <1>2, <1>4 DEF Codes, OneCloser, Calling
<1>6. InCode'
  BY <1>2, <1>3 DEF Codes, InCode
<1>7. OneCloser'
  <2>0. \A u \in Threads, x \in Ops, d \in Chans : Calling(u, x, d)' <=> Calling(u, x, d)
    BY <1>2, <1>3 DEF Calling
  <2>1. "close" \in Ops /\ "send" \in Ops
    BY DEF Ops
  <2> SUFFICES ASSUME NEW d \in Chans
               PROVE  /\ \A v, u \in Threads : Calling(v, "close", d)' /\ Calling(u, "close", d)' => v = u
                      /\ \A u \in Threads : Calling(u, "close", d)' =>
                           (pc'[u] = "lock" <=> ~closed'[d]) /\ (pc'[u] # "lock" <=> lock'[d] = u)
                      /\ lock'[d] # NULL => Calling(lock[d], "close", d)'
                      /\ closed'[d] \/ (\E u \in Threads : Calling(u, "close", d)')
                           => \A u \in Threads : ~Calling(u, "send", d)'
    BY DEF OneCloser, Closing, Calling
  <2>2. \A v, u \in Threads : Calling(v, "close", d)' /\ Calling(u, "close", d)' => v = u
    BY <2>0, <2>1 DEF Codes, OneCloser
  <2>3. ASSUME NEW u \in Threads, Calling(u, "close", d)'
        PROVE  (pc'[u] = "lock" <=> ~closed'[d]) /\ (pc'[u] # "lock" <=> lock'[d] = u)
    <3>1. Calling(u, "close", d)
      BY <2>0, <2>1, <2>3
    <3>2. CASE d = c
      <4>1. u = t
        BY <1>4, <3>1, <3>2 DEF Codes, OneCloser
      <4> QED BY <1>3, <3>2, <4>1
    <3>3. CASE d # c
      <4>1. u # t
        BY <1>4, <3>1, <3>3 DEF Calling
      <4> QED BY <1>3, <3>1, <3>3, <4>1 DEF Codes, OneCloser
    <3> QED BY <3>2, <3>3
  <2>4. lock'[d] # NULL => Calling(lock[d], "close", d)'
    <3>1. CASE d = c
      BY <1>1, <1>2, <1>3, <3>1 DEF Calling
    <3>2. CASE d # c
      <4> SUFFICES ASSUME NEW u \in Threads, u = lock[d] PROVE Calling(u, "close", d)'
        BY <1>0, <1>3, <3>2 DEF Calling
      <4>1. Calling(u, "close", d)
        BY <1>0 DEF Codes, OneCloser
      <4> QED BY <2>0, <2>1, <4>1
    <3> QED BY <3>1, <3>2
  <2>5. closed'[d] \/ (\E u \in Threads : Calling(u, "close", d)')
          => \A u \in Threads : ~Calling(u, "send", d)'
    BY <1>3, <1>4, <2>0, <2>1 DEF Codes, OneCloser, Closing
  <2> QED BY <2>2, <2>3, <2>4, <2>5
<1>8. \A u \in Threads : QueueOf(u)' = QueueOf(u)
  BY <1>2 DEF QueueOf
<1>9. Lists(Q)' /\ Members(Q)'
  BY <1>2, <1>3, <1>8 DEF Waiting, Lists, Members
<1>10. Told(Q)'
  <2> SUFFICES ASSUME NEW u \in Threads, thrclosed[u]
               PROVE  /\ pc'[u] \in {"idle", "wait", "woken"} /\ on[u] \in Chans /\ closed'[on[u]]
                      /\ In(Q[QueueOf(u)], u)
    BY <1>2, <1>8 DEF Told
  <2>1. pc[u] \in {"idle", "wait", "woken"} /\ on[u] \in Chans /\ closed[on[u]] /\ In(Q[QueueOf(u)], u)
    BY DEF Waiting, Told
  <2>2. u # t
    BY <1>2, <2>1
  <2> QED BY <1>3, <2>1, <2>2
<1>11. Walks(Q)'
  <2> SUFFICES ASSUME NEW d \in Chans
               PROVE  /\ closed'[d] => Len(Q[SendQ(d)]) = 0
                      /\ closed'[d] /\ lock'[d] = NULL => Walked(Q, d, Len(Q[RecvQ(d)]))'
                      /\ lock'[d] # NULL => \E n \in 0 .. Len(Q[RecvQ(d)]) :
                           /\ Walked(Q, d, n)'
                           /\ peer'[lock'[d]] = IF n = Len(Q[RecvQ(d)]) THEN NULL ELSE Q[RecvQ(d)][n + 1]
                           /\ pc'[lock'[d]] = "closesend" => n = Len(Q[RecvQ(d)])
    BY DEF Walks, Walked
  <2>1. CASE d = c
    <3>0. Len(Q[SendQ(c)]) \in Nat /\ Len(Q[RecvQ(c)]) \in Nat
      BY QueueOfChan
    <3>1. Len(Q[SendQ(c)]) = 0
      <4> SUFFICES ASSUME Len(Q[SendQ(c)]) # 0 PROVE FALSE
        OBVIOUS
      <4>1. 1 \in 1 .. Len(Q[SendQ(c)])
        BY <3>0
      <4>2. PICK s \in Threads : QueueOf(s) = SendQ(c) /\ on[s] = c /\ (pc[s] = "wait" \/ thrclosed[s])
        BY <4>1, AtPlace
      <4>3. pc[s] = "wait" /\ op[s] = "send"
        BY <1>4, <4>2 DEF Waiting, Told, QueueOf, SendQ
      <4>4. Calling(s, "send", c)
        BY <4>2, <4>3 DEF Calling
      <4> QED BY <1>4, <4>4 DEF Codes, OneCloser, Closing
    <3>2. \A i \in 1 .. Len(Q[RecvQ(c)]) : ~thrclosed[Q[RecvQ(c)][i]]
      BY <1>4, AtPlace DEF Waiting, Told
    <3>3. Walked(Q, c, 0)'
      BY <1>2, <3>2 DEF Walked
    <3>4. peer'[t] = IF 0 = Len(Q[RecvQ(c)]) THEN NULL ELSE Q[RecvQ(c)][0 + 1]
      BY <1>3, QueueOfChan DEF Waiting, Lists, Chained
    <3> QED BY <1>0, <1>3, <2>1, <3>0, <3>1, <3>3, <3>4
  <2>2. CASE d # c
    <3>1. lock[d] # NULL => peer'[lock[d]] = peer[lock[d]] /\ pc'[lock[d]] = pc[lock[d]]
      BY <1>0, <1>3, <1>5
    <3>2. \A k : Walked(Q, d, k)' <=> Walked(Q, d, k)
      BY <1>2 DEF Walked
    <3> QED BY <1>3, <2>2, <3>1, <3>2 DEF Waiting, Walks
  <2> QED BY <2>1, <2>2
<1>12. \A u \in Threads : Releasers(u)' = Releasers(u)
  BY <1>2, <1>3 DEF Releasers
<1>13. \A u \in Threads : Owed(Q, u)' <=> Owed(Q, u)
  BY <1>2, <1>3, <1>8 DEF Owed
<1>14. Signals(Q)'
  BY <1>2, <1>12, <1>13 DEF Waiting, Signals
<1> QED BY <1>6, <1>7, <1>9, <1>10, <1>11, <1>14 DEF Codes, Waiting

\* The next receiver is told.
LEMMA CloseWakeKeeps ==
  ASSUME Inv, Codes, NEW Q \in [Queues -> Seq(Threads)], Waiting(Q), NEW t \in Threads, CloseWake(t)
  PROVE  Codes' /\ Waiting(Q)'
<1>0. /\ NULL \notin Threads /\ peer \in [Threads -> Threads \cup {NULL}]
      /\ thrclosed \in [Threads -> BOOLEAN] /\ sema \in [Threads -> Nat]
      /\ lock \in [Chans -> Threads \cup {NULL}]
  BY ChanAssumption DEF Inv, TypeOK
<1>1. pc[t] \in {"closerecv", "closesend"} /\ peer[t] # NULL
  BY DEF CloseWake
<1>2. PICK c \in Chans, w \in Threads : c = on[t] /\ w = peer[t]
  BY <1>0, <1>1, Closer
<1>3. /\ closed[c] /\ lock[c] = t /\ \A d \in Chans : d # c => lock[d] # t
      /\ UNCHANGED <<closed, lock, first, last, next, pc, op, on>>
      /\ peer' = [peer EXCEPT ![t] = next[w]] /\ thrclosed' = [thrclosed EXCEPT ![w] = TRUE]
      /\ sema' = [sema EXCEPT ![w] = @ + 1]
  BY <1>1, <1>2, Closer DEF CloseWake, closeUnchanged, waitVars, callVars
<1>4. /\ peer'[t] = next[w] /\ thrclosed'[w] /\ sema'[w] = sema[w] + 1
      /\ \A u \in Threads : u # t => peer'[u] = peer[u]
      /\ \A u \in Threads : u # w => thrclosed'[u] = thrclosed[u] /\ sema'[u] = sema[u]
  BY <1>0, <1>3
<1>5. PICK L : L = Q[RecvQ(c)]
  OBVIOUS
<1>6. PICK n \in 0 .. Len(L) :
        /\ Walked(Q, c, n) /\ w = IF n = Len(L) THEN NULL ELSE L[n + 1]
        /\ pc[t] = "closesend" => n = Len(L)
  <2>1. lock[c] # NULL => \E n \in 0 .. Len(Q[RecvQ(c)]) :
           /\ Walked(Q, c, n)
           /\ peer[lock[c]] = IF n = Len(Q[RecvQ(c)]) THEN NULL ELSE Q[RecvQ(c)][n + 1]
           /\ pc[lock[c]] = "closesend" => n = Len(Q[RecvQ(c)])
    BY DEF Waiting, Walks
  <2>2. lock[c] = t /\ t # NULL
    BY <1>0, <1>3
  <2> QED BY ONLY <1>2, <1>5, <2>1, <2>2
<1>7. /\ L \in Seq(Threads) /\ Len(L) \in Nat /\ Distinct(L)
      /\ \A i \in 1 .. Len(L) : next[L[i]] = IF i = Len(L) THEN NULL ELSE L[i + 1]
  BY <1>5, QueueOfChan DEF Waiting, Lists, Chained
<1>8. n \in Nat /\ n + 1 \in 1 .. Len(L) /\ w = L[n + 1] /\ pc[t] = "closerecv"
  BY <1>0, <1>1, <1>6, <1>7
<1>9. QueueOf(w) = RecvQ(c) /\ on[w] = c /\ In(L, w) /\ (pc[w] = "wait" \/ thrclosed[w])
  BY <1>5, <1>8, AtPlace
<1>10. ~thrclosed[w] /\ pc[w] = "wait"
  <2>1. thrclosed[L[n + 1]] <=> n + 1 <= n
    BY <1>5, <1>6, <1>8 DEF Walked
  <2> QED BY <1>8, <1>9, <2>1
<1>11. Codes'
  <2>1. closed' = closed /\ lock' = lock /\ pc' = pc /\ op' = op /\ on' = on
    BY <1>3
  <2>2. InCode'
    BY <2>1 DEF Codes, InCode
  <2>3. OneCloser' = OneCloser
    BY <2>1 DEF OneCloser, Closing, Calling
  <2> QED BY <2>2, <2>3 DEF Codes
<1>12. \A u \in Threads : QueueOf(u)' = QueueOf(u)
  BY <1>3 DEF QueueOf
<1>13. Lists(Q)' /\ Members(Q)'
  <2>1. Lists(Q)'
    BY <1>3 DEF Waiting, Lists
  <2>2. Members(Q)'
    BY <1>3, <1>4, <1>12 DEF Waiting, Members
  <2> QED BY <2>1, <2>2
<1>14. Told(Q)'
  <2> SUFFICES ASSUME NEW u \in Threads, thrclosed'[u]
               PROVE  /\ pc[u] \in {"idle", "wait", "woken"} /\ on[u] \in Chans /\ closed[on[u]]
                      /\ In(Q[QueueOf(u)], u)
    BY <1>3, <1>12 DEF Told
  <2>1. CASE u = w
    BY <1>3, <1>5, <1>9, <1>10, <2>1
  <2>2. CASE u # w
    BY <1>4, <2>2 DEF Waiting, Told
  <2> QED BY <2>1, <2>2
<1>15. Walks(Q)'
  <2> SUFFICES ASSUME NEW d \in Chans
               PROVE  /\ closed[d] => Len(Q[SendQ(d)]) = 0
                      /\ closed[d] /\ lock[d] = NULL => Walked(Q, d, Len(Q[RecvQ(d)]))'
                      /\ lock[d] # NULL => \E k \in 0 .. Len(Q[RecvQ(d)]) :
                           /\ Walked(Q, d, k)'
                           /\ peer'[lock[d]] = IF k = Len(Q[RecvQ(d)]) THEN NULL ELSE Q[RecvQ(d)][k + 1]
                           /\ pc[lock[d]] = "closesend" => k = Len(Q[RecvQ(d)])
    BY <1>3 DEF Walks, Walked
  <2>0. closed[d] => Len(Q[SendQ(d)]) = 0
    BY DEF Waiting, Walks
  <2>1. CASE d = c
    <3>1. \A i \in 1 .. Len(L) : thrclosed'[L[i]] <=> i <= n + 1
      <4> SUFFICES ASSUME NEW i \in 1 .. Len(L) PROVE thrclosed'[L[i]] <=> i <= n + 1
        OBVIOUS
      <4>1. CASE i = n + 1
        BY <1>4, <1>8, <4>1
      <4>2. CASE i # n + 1
        <5>1. L[i] # w /\ L[i] \in Threads
          BY <1>7, <1>8, <4>2 DEF Distinct
        <5>2. thrclosed[L[i]] <=> i <= n
          BY <1>5, <1>6 DEF Walked
        <5> QED BY <1>4, <1>8, <4>2, <5>1, <5>2
      <4> QED BY <4>1, <4>2
    <3>2. Walked(Q, d, n + 1)'
      BY <1>5, <2>1, <3>1 DEF Walked
    <3>3. peer'[t] = IF n + 1 = Len(L) THEN NULL ELSE L[n + 1 + 1]
      BY <1>4, <1>7, <1>8
    <3>4. n + 1 \in 0 .. Len(L)
      BY <1>8
    <3> QED BY <1>0, <1>3, <1>5, <1>8, <2>0, <2>1, <3>2, <3>3, <3>4
  <2>2. CASE d # c
    <3>1. ASSUME NEW i \in 1 .. Len(Q[RecvQ(d)])
          PROVE  Q[RecvQ(d)][i] # w /\ Q[RecvQ(d)][i] \in Threads
      <4>1. Q[RecvQ(d)][i] \in Threads /\ on[Q[RecvQ(d)][i]] = d
        BY AtPlace
      <4> QED BY <1>9, <2>2, <4>1
    <3>2. \A k : Walked(Q, d, k)' <=> Walked(Q, d, k)
      BY <1>4, <3>1 DEF Walked
    <3>3. lock[d] # NULL => peer'[lock[d]] = peer[lock[d]]
      BY <1>0, <1>3, <1>4, <2>2
    <3> QED BY <3>2, <3>3 DEF Waiting, Walks
  <2> QED BY <2>1, <2>2
<1>16. \A u \in Threads : Releasers(u)' = Releasers(u)
  BY <1>3, <1>4, <1>8 DEF Releasers
<1>17. Signals(Q)'
  <2> SUFFICES ASSUME NEW u \in Threads
               PROVE  sema'[u] + Cardinality(Releasers(u)) = IF Owed(Q, u)' THEN 1 ELSE 0
    BY <1>16 DEF Signals
  <2>1. sema[u] + Cardinality(Releasers(u)) = IF Owed(Q, u) THEN 1 ELSE 0
    BY DEF Waiting, Signals
  <2>2. CASE u = w
    <3>1. ~Owed(Q, w) /\ Owed(Q, w)'
      BY <1>3, <1>4, <1>5, <1>9, <1>10 DEF Owed
    <3>2. Cardinality(Releasers(w)) \in Nat /\ sema[w] \in Nat
      BY <1>0, SomeReleasers
    <3> DEFINE k == Cardinality(Releasers(w))
    <3>3. sema[w] + k = 0 /\ k \in Nat
      BY <2>1, <2>2, <3>1, <3>2
    <3> HIDE DEF k
    <3>4. sema[w] + 1 + k = 1
      BY <3>2, <3>3
    <3> QED BY <1>4, <2>2, <3>1, <3>4 DEF k
  <2>3. CASE u # w
    <3>1. Owed(Q, u)' <=> Owed(Q, u)
      BY <1>3, <1>4, <1>12, <2>3 DEF Owed
    <3> QED BY <1>4, <2>1, <2>3, <3>1
  <2> QED BY <2>2, <2>3
<1> QED BY <1>11, <1>13, <1>14, <1>15, <1>17 DEF Waiting

\* Behind the last receiver there is nobody left to tell.
LEMMA CloseSendersKeeps ==
  ASSUME Inv, Codes, NEW Q \in [Queues -> Seq(Threads)], Waiting(Q), NEW t \in Threads, CloseSenders(t)
  PROVE  Codes' /\ Waiting(Q)'
<1>0. /\ pc \in [Threads -> Labels] /\ NULL \notin Threads /\ peer \in [Threads -> Threads \cup {NULL}]
      /\ lock \in [Chans -> Threads \cup {NULL}]
  BY ChanAssumption DEF Inv, TypeOK
<1>1. pc[t] = "closerecv" /\ peer[t] = NULL
  BY DEF CloseSenders
<1>2. PICK c \in Chans : c = on[t]
  BY <1>1, Closer
<1>3. /\ op[t] = "close" /\ closed[c] /\ lock[c] = t /\ \A d \in Chans : d # c => lock[d] # t
      /\ UNCHANGED <<closed, lock, first, last, next, thrclosed, sema, op, on>>
      /\ peer' = [peer EXCEPT ![t] = first[SendQ(c)]] /\ pc' = [pc EXCEPT ![t] = "closesend"]
  BY <1>1, <1>2, Closer DEF CloseSenders, Goto, closeUnchanged, waitVars, callVars
<1>4. /\ pc'[t] = "closesend" /\ \A u \in Threads : u # t => pc'[u] = pc[u] /\ peer'[u] = peer[u]
      /\ peer'[t] = NULL
  BY <1>0, <1>3, QueueOfChan DEF Waiting, Walks, Lists, Chained
<1>5. Codes'
  <2>1. InCode'
    BY <1>3, <1>4 DEF Codes, InCode
  <2>2. \A u \in Threads, x \in Ops, d \in Chans : Calling(u, x, d)' <=> Calling(u, x, d)
    BY <1>1, <1>3, <1>4 DEF Calling
  <2>3. \A u \in Threads : pc'[u] = "lock" <=> pc[u] = "lock"
    BY <1>1, <1>4
  <2>4. OneCloser'
    BY <1>1, <1>3, <1>4, <2>3 DEF Codes, OneCloser, Closing, Calling
  <2> QED BY <2>1, <2>4 DEF Codes
<1>6. \A u \in Threads : QueueOf(u)' = QueueOf(u)
  BY <1>3 DEF QueueOf
<1>7. Lists(Q)' /\ Members(Q)' /\ Told(Q)'
  BY <1>1, <1>3, <1>4, <1>6 DEF Waiting, Lists, Members, Told
<1>8. Walks(Q)'
  <2> SUFFICES ASSUME NEW d \in Chans
               PROVE  /\ closed[d] => Len(Q[SendQ(d)]) = 0
                      /\ closed[d] /\ lock[d] = NULL => Walked(Q, d, Len(Q[RecvQ(d)]))
                      /\ lock[d] # NULL => \E n \in 0 .. Len(Q[RecvQ(d)]) :
                           /\ Walked(Q, d, n)
                           /\ peer'[lock[d]] = IF n = Len(Q[RecvQ(d)]) THEN NULL ELSE Q[RecvQ(d)][n + 1]
                           /\ pc'[lock[d]] = "closesend" => n = Len(Q[RecvQ(d)])
    BY <1>3 DEF Walks, Walked
  <2>1. CASE d = c
    <3>1. PICK n \in 0 .. Len(Q[RecvQ(c)]) :
            Walked(Q, c, n) /\ NULL = IF n = Len(Q[RecvQ(c)]) THEN NULL ELSE Q[RecvQ(c)][n + 1]
      BY <1>0, <1>1, <1>3 DEF Waiting, Walks
    <3>2. n = Len(Q[RecvQ(c)])
      <4> SUFFICES ASSUME n # Len(Q[RecvQ(c)]) PROVE FALSE
        OBVIOUS
      <4>1. n + 1 \in 1 .. Len(Q[RecvQ(c)])
        BY QueueOfChan
      <4> QED BY <1>0, <3>1, <4>1, AtPlace
    <3> QED BY <1>0, <1>3, <1>4, <2>1, <3>1, <3>2 DEF Waiting, Walks
  <2>2. CASE d # c
    <3>1. lock[d] # NULL => peer'[lock[d]] = peer[lock[d]] /\ pc'[lock[d]] = pc[lock[d]]
      BY <1>0, <1>3, <1>4, <2>2
    <3> QED BY <2>2, <3>1 DEF Waiting, Walks
  <2> QED BY <2>1, <2>2
<1>9. \A u \in Threads : Releasers(u)' = Releasers(u)
  BY <1>1, <1>4 DEF Releasers
<1>10. \A u \in Threads : Owed(Q, u)' <=> Owed(Q, u)
  BY <1>1, <1>3, <1>4, <1>6 DEF Owed
<1>11. Signals(Q)'
  BY <1>3, <1>9, <1>10 DEF Waiting, Signals
<1> QED BY <1>5, <1>7, <1>8, <1>11 DEF Waiting

\* ChanClose returns when everybody was told.
LEMMA CloseUnlockKeeps ==
  ASSUME Inv, Codes, NEW Q \in [Queues -> Seq(Threads)], Waiting(Q), NEW t \in Threads, CloseUnlock(t)
  PROVE  Codes' /\ Waiting(Q)'
<1>0. /\ pc \in [Threads -> Labels] /\ NULL \notin Threads /\ NULL \notin Chans
      /\ lock \in [Chans -> Threads \cup {NULL}]
  BY ChanAssumption DEF Inv, TypeOK
<1>1. pc[t] = "closesend"
  BY DEF CloseUnlock
<1>2. PICK c \in Chans : c = on[t]
  BY <1>1, Closer
<1>3. /\ op[t] = "close" /\ closed[c] /\ lock[c] = t /\ \A d \in Chans : d # c => lock[d] # t
      /\ UNCHANGED <<closed, first, last, next, thrclosed, sema, op, on, peer>>
      /\ lock' = [lock EXCEPT ![c] = NULL] /\ pc' = [pc EXCEPT ![t] = "idle"]
  BY <1>1, <1>2, Closer DEF CloseUnlock, Goto, closeUnchanged, waitVars, callVars
<1>4. /\ pc'[t] = "idle" /\ \A u \in Threads : u # t => pc'[u] = pc[u]
      /\ lock'[c] = NULL /\ \A d \in Chans : d # c => lock'[d] = lock[d]
  BY <1>0, <1>3
<1>5. InCode'
  BY <1>3, <1>4 DEF Codes, InCode
<1>6. OneCloser'
  <2>0. /\ \A u \in Threads, x \in Ops, d \in Chans : Calling(u, x, d)' <=> Calling(u, x, d) /\ u # t
        /\ "close" \in Ops /\ "send" \in Ops
    BY <1>3, <1>4 DEF Calling, Ops
  <2>1. Calling(t, "close", c)
    BY <1>1, <1>2, <1>3 DEF Calling
  <2> SUFFICES ASSUME NEW d \in Chans
               PROVE  /\ \A v, u \in Threads : Calling(v, "close", d)' /\ Calling(u, "close", d)' => v = u
                      /\ \A u \in Threads : Calling(u, "close", d)' =>
                           (pc'[u] = "lock" <=> ~closed[d]) /\ (pc'[u] # "lock" <=> lock'[d] = u)
                      /\ lock'[d] # NULL => Calling(lock[d], "close", d)'
                      /\ closed[d] \/ (\E u \in Threads : Calling(u, "close", d)')
                           => \A u \in Threads : ~Calling(u, "send", d)'
    BY <1>3 DEF OneCloser, Closing, Calling
  <2>2. \A v, u \in Threads : Calling(v, "close", d)' /\ Calling(u, "close", d)' => v = u
    BY <2>0 DEF Codes, OneCloser
  <2>3. ASSUME NEW u \in Threads, Calling(u, "close", d)'
        PROVE  (pc'[u] = "lock" <=> ~closed[d]) /\ (pc'[u] # "lock" <=> lock'[d] = u)
    <3>1. Calling(u, "close", d) /\ u # t
      BY <2>0, <2>3
    <3>2. d # c
      BY <2>1, <3>1 DEF Codes, OneCloser
    <3> QED BY <1>4, <3>1, <3>2 DEF Codes, OneCloser
  <2>4. lock'[d] # NULL => Calling(lock[d], "close", d)'
    <3>1. CASE d = c
      BY <1>4, <3>1
    <3>2. CASE d # c
      <4> SUFFICES ASSUME NEW u \in Threads, u = lock[d] PROVE Calling(u, "close", d)'
        BY <1>0, <1>4, <3>2 DEF Calling
      <4>1. Calling(u, "close", d) /\ u # t
        BY <1>0, <1>3, <3>2 DEF Codes, OneCloser
      <4> QED BY <2>0, <4>1
    <3> QED BY <3>1, <3>2
  <2>5. closed[d] \/ (\E u \in Threads : Calling(u, "close", d)')
          => \A u \in Threads : ~Calling(u, "send", d)'
    BY <2>0 DEF Codes, OneCloser, Closing
  <2> QED BY <2>2, <2>3, <2>4, <2>5
<1>7. \A u \in Threads : QueueOf(u)' = QueueOf(u)
  BY <1>3 DEF QueueOf
<1>8. Lists(Q)' /\ Members(Q)' /\ Told(Q)'
  BY <1>1, <1>3, <1>4, <1>7 DEF Waiting, Lists, Members, Told
<1>9. Walks(Q)'
  <2> SUFFICES ASSUME NEW d \in Chans
               PROVE  /\ closed[d] => Len(Q[SendQ(d)]) = 0
                      /\ closed[d] /\ lock'[d] = NULL => Walked(Q, d, Len(Q[RecvQ(d)]))
                      /\ lock'[d] # NULL => \E n \in 0 .. Len(Q[RecvQ(d)]) :
                           /\ Walked(Q, d, n)
                           /\ peer[lock'[d]] = IF n = Len(Q[RecvQ(d)]) THEN NULL ELSE Q[RecvQ(d)][n + 1]
                           /\ pc'[lock'[d]] = "closesend" => n = Len(Q[RecvQ(d)])
    BY <1>3 DEF Walks, Walked
  <2>1. CASE d = c
    <3>1. Walked(Q, c, Len(Q[RecvQ(c)]))
      BY <1>0, <1>1, <1>3 DEF Waiting, Walks
    <3> QED BY <1>4, <2>1, <3>1 DEF Waiting, Walks
  <2>2. CASE d # c
    <3>1. lock[d] # NULL => pc'[lock[d]] = pc[lock[d]]
      BY <1>0, <1>3, <1>4, <2>2
    <3> QED BY <1>4, <2>2, <3>1 DEF Waiting, Walks
  <2> QED BY <2>1, <2>2
<1>10. \A u \in Threads : Releasers(u)' = Releasers(u)
  BY <1>1, <1>3, <1>4 DEF Releasers
<1>11. \A u \in Threads : Owed(Q, u)' <=> Owed(Q, u)
  BY <1>1, <1>3, <1>4, <1>7 DEF Owed
<1>12. Signals(Q)'
  BY <1>3, <1>10, <1>11 DEF Waiting, Signals
<1> QED BY <1>5, <1>6, <1>8, <1>9, <1>12 DEF Codes, Waiting

-----------------------------------------------------------------------------
(* All steps.                                                              *)

\* A list for every queue.
LEMMA AllLists ==
  ASSUME NEW Q \in [Queues -> Seq(Threads)], NEW q \in Queues, NEW L \in Seq(Threads)
  PROVE  [Q EXCEPT ![q] = L] \in [Queues -> Seq(Threads)]
OBVIOUS

\* A send hands its element to a receiver.
LEMMA SendDirectWaiting ==
  ASSUME Inv, Codes, NEW Q \in [Queues -> Seq(Threads)], Waiting(Q), NEW t \in Threads, SendDirect(t)
  PROVE  DrainedInv'
<1>0. PICK c \in Chans : c = on[t]
  BY DEF SendDirect, Locking, Inv, TypeOK
<1>1. PICK r : c = on[t] /\ r = first[RecvQ(c)]
  BY <1>0
<1>2. PICK q \in {SendQ(c), RecvQ(c)} : q = RecvQ(c)
  OBVIOUS
<1>3. /\ pc[t] = "lock" /\ op[t] # "close" /\ lock[c] = NULL /\ ~closed[c] /\ r = first[q] /\ r # NULL
      /\ Dequeue(q) /\ Goto(t, "signal") /\ peer' = [peer EXCEPT ![t] = r]
      /\ UNCHANGED <<closed, lock, thrclosed, sema, op, on>>
  BY <1>1, <1>2 DEF SendDirect, Locking, Sends, chanVars, callVars
<1>4. Codes' /\ Waiting([Q EXCEPT ![q] = Tail(@)])'
  BY <1>1, <1>3, HandKeeps
<1>5. q \in Queues /\ Tail(Q[q]) \in Seq(Threads)
  BY <1>2, <1>3, QueueOfChan DEF Waiting, Lists, Chained
<1>6. [Q EXCEPT ![q] = Tail(@)] \in [Queues -> Seq(Threads)]
  BY <1>5, AllLists
<1> QED BY <1>4, <1>6 DEF DrainedInv

\* A receive takes the element of a sender, and the channel is open.
LEMMA RecvDirectWaiting ==
  ASSUME Inv, Codes, NEW Q \in [Queues -> Seq(Threads)], Waiting(Q), NEW t \in Threads, RecvDirect(t)
  PROVE  DrainedInv'
<1>0. PICK c \in Chans : c = on[t]
  BY DEF RecvDirect, Locking, Inv, TypeOK
<1>1. PICK r : c = on[t] /\ r = first[SendQ(c)]
  BY <1>0
<1>2. PICK q \in {SendQ(c), RecvQ(c)} : q = SendQ(c)
  OBVIOUS
<1>3. /\ pc[t] = "lock" /\ op[t] # "close" /\ lock[c] = NULL /\ r = first[q] /\ r # NULL
      /\ Dequeue(q) /\ Goto(t, "signal") /\ peer' = [peer EXCEPT ![t] = r]
      /\ UNCHANGED <<closed, lock, thrclosed, sema, op, on>>
  BY <1>1, <1>2 DEF RecvDirect, Locking, Recvs, callVars
<1>4. q \in Queues /\ Len(Q[q]) # 0 /\ Tail(Q[q]) \in Seq(Threads)
  BY <1>2, <1>3, QueueOfChan DEF Waiting, Lists, Chained
<1>5. ~closed[c]
  BY <1>2, <1>4 DEF Waiting, Walks
<1>6. Codes' /\ Waiting([Q EXCEPT ![q] = Tail(@)])'
  BY <1>1, <1>3, <1>5, HandKeeps
<1>7. [Q EXCEPT ![q] = Tail(@)] \in [Queues -> Seq(Threads)]
  BY <1>4, AllLists
<1> QED BY <1>6, <1>7 DEF DrainedInv

\* A send or a receive parks.
LEMMA ParkWaiting ==
  ASSUME Inv, Codes, NEW Q \in [Queues -> Seq(Threads)], Waiting(Q), NEW t \in Threads,
         SendPark(t) \/ RecvPark(t)
  PROVE  DrainedInv'
<1>1. PICK c \in Chans : c = on[t]
  BY DEF SendPark, RecvPark, Locking, Inv, TypeOK
<1>2. PICK q \in {SendQ(c), RecvQ(c)} : q = QueueOf(t)
  BY <1>1 DEF QueueOf, SendQ, RecvQ
<1>3. /\ pc[t] = "lock" /\ op[t] \in {"send", "recv"} /\ lock[c] = NULL /\ ~closed[c]
      /\ Enqueue(q, t) /\ Goto(t, "wait")
      /\ UNCHANGED <<closed, lock, thrclosed, sema, op, on, peer>>
  BY <1>1, <1>2 DEF SendPark, RecvPark, Park, Locking, NoRoom, NoMessage, QueueOf, SendQ, RecvQ,
                    chanVars, callVars
<1>4. Codes' /\ Waiting([Q EXCEPT ![q] = Append(@, t)])'
  BY <1>1, <1>2, <1>3, SleepKeeps
<1>5. q \in Queues /\ Append(Q[q], t) \in Seq(Threads)
  BY QueueOfChan
<1>6. [Q EXCEPT ![q] = Append(@, t)] \in [Queues -> Seq(Threads)]
  BY <1>5, AllLists
<1> QED BY <1>4, <1>6 DEF DrainedInv

\* Every step of a system that uses ChanClose as chan_test.c does keeps the invariant.
LEMMA StepKeeps ==
  ASSUME Contract = "drained", Inv, DrainedInv, [Next]_vars
  PROVE  DrainedInv'
<1> PICK Q \in [Queues -> Seq(Threads)] : Waiting(Q)
  BY DEF DrainedInv
<1> Codes
  BY DEF DrainedInv
<1>1. CASE UNCHANGED vars
  <2>1. /\ closed' = closed /\ lock' = lock /\ first' = first /\ last' = last /\ next' = next
        /\ thrclosed' = thrclosed /\ sema' = sema /\ pc' = pc /\ op' = op /\ on' = on /\ peer' = peer
    BY <1>1 DEF vars, chanVars, waitVars, callVars
  <2>2. InCode' /\ OneCloser' = OneCloser
    BY <2>1 DEF Codes, InCode, OneCloser, Closing, Calling
  <2>3. Lists(Q)' /\ Members(Q)' /\ Told(Q)'
    BY <2>1 DEF Waiting, Lists, Members, Told, QueueOf
  <2>4. Walks(Q)' = Walks(Q)
    BY <2>1 DEF Walks, Walked
  <2>5. Signals(Q)'
    BY <2>1 DEF Waiting, Signals, Owed, Releasers, QueueOf
  <2> QED BY <2>2, <2>3, <2>4, <2>5 DEF DrainedInv, Codes, Waiting
<1>2. ASSUME NEW t \in Threads, NEW o \in Ops, NEW c \in Chans, Start(t, o, c) PROVE DrainedInv'
  BY <1>2, StartKeeps DEF DrainedInv
<1>3. ASSUME NEW t \in Threads, Step(t) PROVE DrainedInv'
  <2>1. CASE \/ PeekClosed(t) \/ PeekFull(t) \/ PeekEmpty(t) \/ PeekOpen(t) \/ PeekAgain(t)
             \/ SendClosed(t) \/ SendBuffer(t) \/ SendFull(t)
             \/ RecvClosed(t) \/ RecvBuffer(t) \/ RecvEmpty(t) \/ Woken(t)
    <3>1. Quiet(t)
      BY <2>1, QuietSteps
    <3> QED BY <3>1, QuietKeeps DEF DrainedInv
  <2>2. CASE SendDirect(t)
    BY <2>2, SendDirectWaiting
  <2>3. CASE RecvDirect(t)
    BY <2>3, RecvDirectWaiting
  <2>4. CASE SendPark(t) \/ RecvPark(t)
    BY <2>4, ParkWaiting
  <2>5. CASE Signal(t) \/ Wait(t)
    BY <2>5, SignalKeeps DEF DrainedInv
  <2>6. CASE CloseMark(t)
    BY <2>6, CloseMarkKeeps DEF DrainedInv
  <2>7. CASE CloseWake(t)
    BY <2>7, CloseWakeKeeps DEF DrainedInv
  <2>8. CASE CloseSenders(t)
    BY <2>8, CloseSendersKeeps DEF DrainedInv
  <2>9. CASE CloseUnlock(t)
    BY <2>9, CloseUnlockKeeps DEF DrainedInv
  <2> QED BY <1>3, <2>1, <2>2, <2>3, <2>4, <2>5, <2>6, <2>7, <2>8, <2>9 DEF Step
<1> QED BY <1>1, <1>2, <1>3 DEF Next

\* A thread is queued when it is in the list.
LEMMA QueuedIn ==
  ASSUME NEW Q \in [Queues -> Seq(Threads)], Waiting(Q), NEW q \in Queues, NEW t \in Threads
  PROVE  t \in Queued(q) <=> In(Q[q], t)
<1>1. Queue(q) = Q[q]
  BY QueueIs DEF Waiting, Lists
<1>2. DOMAIN Q[q] = 1 .. Len(Q[q])
  OBVIOUS
<1> QED BY <1>1, <1>2 DEF Queued, In

\* A thread is owed a signal when the properties say it was released.
LEMMA ReleasedOwed ==
  ASSUME Inv, NEW Q \in [Queues -> Seq(Threads)], Waiting(Q), NEW t \in Threads
  PROVE  Released(t) <=> Owed(Q, t)
<1>1. pc[t] = "wait" => QueueOf(t) \in Queues
  BY DEF Inv, TypeOK, QueueOf, Queues
<1> QED BY <1>1, QueuedIn DEF Released, Owed

\* The two properties follow.
LEMMA DrainedIsEnough == Inv /\ DrainedInv => OneSignal /\ NoneForgotten
<1> SUFFICES ASSUME Inv, DrainedInv PROVE OneSignal /\ NoneForgotten
  OBVIOUS
<1>1. PICK Q \in [Queues -> Seq(Threads)] : Waiting(Q)
  BY DEF DrainedInv
<1>2. OneSignal
  BY <1>1, ReleasedOwed DEF OneSignal, Waiting, Signals
<1>3. NoneForgotten
  <2> SUFFICES ASSUME NEW t \in Threads, pc[t] = "wait", ~Released(t), closed[on[t]]
               PROVE  \E u \in Threads : Calling(u, "close", on[t])
    BY DEF NoneForgotten
  <2>1. PICK c \in Chans : c = on[t]
    BY DEF Inv, TypeOK
  <2>2. In(Q[QueueOf(t)], t) /\ ~thrclosed[t]
    BY <1>1, ReleasedOwed DEF Owed
  <2>3. QueueOf(t) = RecvQ(c)
    <3>1. Len(Q[SendQ(c)]) = 0
      BY <1>1, <2>1 DEF Waiting, Walks
    <3>2. QueueOf(t) # SendQ(c)
      BY <2>2, <3>1 DEF In
    <3> QED BY <2>1, <3>2 DEF QueueOf, SendQ, RecvQ
  <2>4. PICK i \in 1 .. Len(Q[RecvQ(c)]) : Q[RecvQ(c)][i] = t
    BY <2>2, <2>3 DEF In
  <2>5. ~Walked(Q, c, Len(Q[RecvQ(c)]))
    BY <2>2, <2>4, QueueOfChan DEF Walked
  <2>6. lock[c] # NULL
    BY <1>1, <2>1, <2>5 DEF Waiting, Walks
  <2> QED BY <2>1, <2>6 DEF DrainedInv, Codes, OneCloser, Inv, TypeOK
<1> QED BY <1>2, <1>3

\* The invariant holds in every reachable state.
LEMMA DrainedInvariance ==
  ASSUME Contract = "drained"
  PROVE  Spec => [](Inv /\ DrainedInv)
<1>1. Init => DrainedInv
  BY InitDrained DEF DrainedInv
<1>2. Inv /\ DrainedInv /\ [Next]_vars => DrainedInv'
  BY StepKeeps
<1> QED
  BY <1>1, <1>2, Invariance, PTL DEF Spec

-----------------------------------------------------------------------------
\* Every variable of the channels, their queues and the calls keeps its type.
THEOREM TypeCorrect == Spec => []TypeOK
BY Invariance, PTL DEF Inv

\* Receivers wait only on empty channels and senders only on full ones, never
\* both on one channel, whatever calls are made in whatever order.
THEOREM WaitersCorrect == Spec => []WaitersInv
BY Invariance, PTL DEF Inv

\* The ring buffer's indices stay in the buffer and qlen slots apart.
THEOREM RingCorrect == Spec => []RingInv
BY Invariance, PTL DEF Inv

\* A thread that sleeps and was handed a message or told of the close is owed one
\* signal, every other thread none: no wakeup of chan_park is lost and none is
\* kept for a later sleep, when ChanClose is used as in chan_test.c.
THEOREM SignalsCorrect ==
  ASSUME Contract = "drained"
  PROVE  Spec => []OneSignal
BY DrainedInvariance, DrainedIsEnough, PTL

\* A thread that still sleeps on a closed channel and was not told of the close
\* has a ChanClose that is still walking the queues.
THEOREM NobodyForgotten ==
  ASSUME Contract = "drained"
  PROVE  Spec => []NoneForgotten
BY DrainedInvariance, DrainedIsEnough, PTL

-----------------------------------------------------------------------------
(* Chan implements ChanSpec where channels are used as chan_test.c uses    *)
(* them (Contract = "drained").  The abstract channel is read off the      *)
(* lists Q of the wait queues: lineBar is the list of the receivers, and   *)
(* pendBar the ring buffer followed by what the listed senders lent.  So   *)
(* every step of the code that changes a list or the buffer is one step of *)
(* ChanSpec, and the others are none.                                      *)

\* What a thread lent to its call stays there while the call lasts, and elemptr tells a
\* receiver that was handed a message from one that was not.
Holds(Q) ==
  \A t \in Threads :
    /\ pc[t] # "idle" => ~cflag[t] /\ ncall[t] > 0
    /\ pc[t] # "idle" /\ op[t] \in Sends => val[t] = <<t, ncall[t]>>
    /\ pc[t] \in {"wait", "woken"} =>
         /\ In(Q[QueueOf(t)], t) => elemptr[t] = ncall[t]
         /\ op[t] = "recv" /\ ~In(Q[QueueOf(t)], t) => elemptr[t] = 0
    /\ pc[t] = "peekagain" => closed[on[t]]

\* The lists there are, with what the threads lent.
RefInv == Codes /\ \E Q \in [Queues -> Seq(Threads)] : Waiting(Q) /\ Holds(Q)

\* What the threads of a list send.
Sent(L) == [i \in 1 .. Len(L) |-> <<L[i], ncall[L[i]]>>]

-----------------------------------------------------------------------------
(* The abstract state, in terms of the lists.                              *)

\* The queues a walk finds are the lists.
LEMMA QueuesAre ==
  \A Q \in [Queues -> Seq(Threads)] : Lists(Q) => \A q \in Queues : Queue(q) = Q[q]
BY QueueIs DEF Lists

Asleep(Q) == {t \in Threads : pc[t] = "wait" /\ In(Q[QueueOf(t)], t) /\ ~closed[on[t]]}
ToldOf(Q) == {t \in Threads : pc[t] \in {"wait", "woken"} /\ op[t] = "recv"
                               /\ In(Q[QueueOf(t)], t) /\ closed[on[t]]}

\* A thread is pending in the abstract as long as it sleeps in a list of an open channel.
LEMMA WaitersAre ==
  ASSUME NEW Q \in [Queues -> Seq(Threads)], Waiting(Q), Inv, NEW t \in Threads
  PROVE  Pending(t) <=> pc[t] = "wait" /\ In(Q[QueueOf(t)], t) /\ ~closed[on[t]]
<1>1. pc[t] \in {"wait", "woken"} => QueueOf(t) \in Queues
  BY DEF Inv, TypeOK, QueueOf, Queues
<1>2. pc[t] \in {"wait", "woken"} => (t \in Queued(QueueOf(t)) <=> In(Q[QueueOf(t)], t))
  BY <1>1, QueuedIn
<1>3. pc[t] = "woken" /\ In(Q[QueueOf(t)], t) => closed[on[t]]
  BY <1>1 DEF Waiting, Members, Told
<1> QED BY <1>2, <1>3 DEF Pending, Parked

\* A parked receiver is cancelled by ChanClose if it is in a list of a closed channel.
LEMMA CancelsAre ==
  ASSUME NEW Q \in [Queues -> Seq(Threads)], Waiting(Q), Holds(Q), Inv, NEW t \in Threads
  PROVE  Cancelled(t) <=> /\ pc[t] \in {"wait", "woken"} /\ op[t] = "recv"
                          /\ In(Q[QueueOf(t)], t) /\ closed[on[t]]
<1>1. pc[t] \in {"wait", "woken"} => QueueOf(t) \in Queues /\ ncall[t] > 0 /\ ncall[t] \in Nat
  BY DEF Inv, TypeOK, QueueOf, Queues, Holds
<1>2. pc[t] \in {"wait", "woken"} => (t \in Queued(QueueOf(t)) <=> In(Q[QueueOf(t)], t))
  BY <1>1, QueuedIn
<1>3. pc[t] \in {"wait", "woken"} /\ op[t] = "recv" => (elemptr[t] = 0 <=> ~In(Q[QueueOf(t)], t))
  BY <1>1 DEF Holds
<1> QED BY <1>2, <1>3 DEF Cancelled, Pending, Parked

\* What listed senders lent is what they send.
LEMMA OfferedIs ==
  ASSUME NEW Q \in [Queues -> Seq(Threads)], Waiting(Q), Holds(Q), Inv, NEW c \in Chans, ~closed[c]
  PROVE  Offered(c) = Sent(Q[SendQ(c)])
<1> DEFINE L == Q[SendQ(c)]
<1>1. SendQ(c) \in Queues /\ L \in Seq(Threads)
  BY QueueOfChan
<1>2. Queue(SendQ(c)) = L
  BY <1>1, QueuesAre DEF Waiting
<1>3. ASSUME NEW i \in 1 .. Len(L) PROVE Elem(L[i]) = <<L[i], ncall[L[i]]>>
  <2>1. PICK u \in Threads : u = L[i]
    BY <1>1
  <2>2. In(L, u) /\ QueueOf(u) = SendQ(c) /\ on[u] = c /\ (pc[u] = "wait" \/ thrclosed[u])
    <3>1. PICK q \in {SendQ(c), RecvQ(c)} : q = SendQ(c)
      OBVIOUS
    <3> QED BY <2>1, <3>1, AtPlace
  <2>3. pc[u] = "wait"
    BY <2>2 DEF Waiting, Told
  <2>4. op[u] = "send"
    BY <2>2 DEF QueueOf, SendQ
  <2> QED BY <2>1, <2>2, <2>3, <2>4 DEF Holds, Elem, Live, Sends
<1>4. DOMAIN L = 1 .. Len(L)
  BY <1>1
<1> QED BY <1>2, <1>3, <1>4 DEF Offered, Sent

ViewOf(Q) ==
  /\ phaseBar = [t \in Threads |->
       IF t \in Asleep(Q) THEN IF op[t] = "send" THEN "offered" ELSE "waiting"
       ELSE IF pc[t] \in {"idle", "signal", "closerecv", "closesend", "wait", "woken"} THEN "idle"
       ELSE "called"]
  /\ retBar = [t \in Threads |->
       IF pc[t] = "signal" \/ (pc[t] \in {"wait", "woken"} /\ t \notin Asleep(Q))
       THEN IF t \in ToldOf(Q) THEN FALSE ELSE TRUE ELSE ret[t]]
  /\ valBar = [t \in Threads |-> IF t \in ToldOf(Q) THEN Zero ELSE val[t]]
  /\ lineBar = [c \in Chans |-> IF closed[c] THEN <<>> ELSE Q[RecvQ(c)]]
  /\ pendBar = [c \in Chans |-> IF closed[c] THEN Buffered(c) ELSE Buffered(c) \o Sent(Q[SendQ(c)])]

Facts(Q) == Inv /\ Waiting(Q) /\ Holds(Q)

\* What the abstract variables of the channels are.
LEMMA View == \A Q \in [Queues -> Seq(Threads)] : Facts(Q) => ViewOf(Q)
<1> SUFFICES ASSUME NEW Q \in [Queues -> Seq(Threads)], Facts(Q) PROVE ViewOf(Q)
  OBVIOUS
<1> USE DEF Facts
<1>1. \A t \in Threads : Pending(t) <=> t \in Asleep(Q)
  BY WaitersAre DEF Asleep
<1>2. \A t \in Threads : Cancelled(t) <=> t \in ToldOf(Q)
  BY CancelsAre DEF ToldOf
<1>5. ASSUME NEW t \in Threads
      PROVE  /\ phaseBar[t] = IF t \in Asleep(Q) THEN IF op[t] = "send" THEN "offered" ELSE "waiting"
                ELSE IF pc[t] \in {"idle", "signal", "closerecv", "closesend", "wait", "woken"} THEN "idle"
                ELSE "called"
             /\ retBar[t] = IF pc[t] = "signal" \/ (pc[t] \in {"wait", "woken"} /\ t \notin Asleep(Q))
                            THEN IF t \in ToldOf(Q) THEN FALSE ELSE TRUE ELSE ret[t]
             /\ valBar[t] = IF t \in ToldOf(Q) THEN Zero ELSE val[t]
  <2>1. (Pending(t) <=> t \in Asleep(Q)) /\ (Cancelled(t) <=> t \in ToldOf(Q))
    BY <1>1, <1>2
  <2>2. Pending(t) => pc[t] \in {"wait", "woken"}
    BY DEF Pending, Parked
  <2>3. phaseBar[t] = CASE Pending(t) -> IF op[t] = "send" THEN "offered" ELSE "waiting"
                        [] pc[t] \in {"idle", "signal", "closerecv", "closesend"} -> "idle"
                        [] Parked(t) /\ ~Pending(t) -> "idle"
                        [] OTHER -> "called"
    BY DEF phaseBar
  <2>4. retBar[t] = IF pc[t] = "signal" \/ (Parked(t) /\ ~Pending(t)) THEN ~Cancelled(t) ELSE ret[t]
    BY DEF retBar
  <2>5. valBar[t] = IF Cancelled(t) THEN Zero ELSE val[t]
    BY DEF valBar
  <2>6. CASE Pending(t)
    BY <2>1, <2>2, <2>3, <2>4, <2>5, <2>6 DEF Parked
  <2>7. CASE ~Pending(t)
    BY <2>1, <2>3, <2>4, <2>5, <2>7 DEF Parked
  <2> QED BY <2>6, <2>7
<1>3. \A c \in Chans : Queue(RecvQ(c)) = Q[RecvQ(c)]
  BY QueueOfChan, QueuesAre DEF Waiting
<1>4. \A c \in Chans : ~closed[c] => Offered(c) = Sent(Q[SendQ(c)])
  BY OfferedIs
<1>6. /\ DOMAIN phaseBar = Threads /\ phaseBar = [t \in Threads |-> phaseBar[t]]
      /\ DOMAIN retBar = Threads /\ retBar = [t \in Threads |-> retBar[t]]
      /\ DOMAIN valBar = Threads /\ valBar = [t \in Threads |-> valBar[t]]
  BY DEF phaseBar, retBar, valBar
<1> QED BY <1>3, <1>4, <1>5, <1>6 DEF ViewOf, lineBar, pendBar

-----------------------------------------------------------------------------
(* The ring buffer as a sequence.                                          *)

\* The remainder of a number that went around at most once.
LEMMA Wrapped ==
  ASSUME NEW b \in Nat \ {0}, NEW x \in 0 .. 2 * b - 1
  PROVE  x % b = IF x < b THEN x ELSE x - b
<1>1. \A n \in Nat, q \in Nat, r \in 0 .. b - 1 : n = b * q + r => n % b = r
  OBVIOUS
<1>2. CASE x < b
  <2>1. x = b * 0 + x /\ x \in Nat /\ x \in 0 .. b - 1
    BY <1>2
  <2> QED BY <1>1, <1>2, <2>1
<1>3. CASE x >= b
  <2>1. x = b * 1 + (x - b) /\ x \in Nat /\ x - b \in 0 .. b - 1
    BY <1>3
  <2> QED BY <1>1, <1>3, <2>1
<1> QED BY <1>2, <1>3

\* The i-th place of a ring of b slots, counted from slot x.
Place(b, x, i) == IF x + i - 1 < b THEN x + i - 1 ELSE x + i - 1 - b

\* The messages in the ring, and the slots they are in.
LEMMA BufferedIs ==
  ASSUME TypeOK, RingInv, NEW c \in Chans
  PROVE  /\ Buffered(c) \in Seq(Values) /\ Len(Buffered(c)) = qlen[c]
         /\ \A i \in 1 .. qlen[c] : /\ Buffered(c)[i] = buf[<<c, Place(Cap[c], recvx[c], i)>>]
                                    /\ Place(Cap[c], recvx[c], i) \in 0 .. Cap[c] - 1
<1>1. Cap[c] \in Nat /\ qlen[c] \in Nat /\ qlen[c] <= Cap[c] /\ recvx[c] \in Nat
      /\ (Cap[c] > 0 => recvx[c] < Cap[c])
  BY ChanAssumption DEF TypeOK, RingInv
<1>2. ASSUME NEW i \in 1 .. qlen[c]
      PROVE  /\ (recvx[c] + i - 1) % Cap[c] = Place(Cap[c], recvx[c], i)
             /\ Place(Cap[c], recvx[c], i) \in 0 .. Cap[c] - 1
             /\ buf[<<c, Place(Cap[c], recvx[c], i)>>] \in Values
  <2> DEFINE x == recvx[c] + i - 1
             b == Cap[c]
  <2>1. b \in Nat \ {0} /\ x \in 0 .. 2 * b - 1
    BY <1>1
  <2>2. Place(b, recvx[c], i) = IF x < b THEN x ELSE x - b
    <3> HIDE DEF b
    <3> QED BY <1>1, <2>1 DEF Place
  <2>3. Place(b, recvx[c], i) \in 0 .. b - 1
    BY <2>1, <2>2
  <2> HIDE DEF x, b
  <2>4. x % b = IF x < b THEN x ELSE x - b
    BY <2>1, Wrapped
  <2>5. <<c, Place(b, recvx[c], i)>> \in Slots
    BY <2>3, SlotOf DEF b
  <2> QED BY <2>2, <2>3, <2>4, <2>5 DEF x, b, TypeOK
<1>3. Buffered(c) = [i \in 1 .. qlen[c] |-> buf[<<c, Place(Cap[c], recvx[c], i)>>]]
  <2> DEFINE at(i) == buf[<<c, (recvx[c] + i - 1) % Cap[c]>>]
             to(i) == buf[<<c, Place(Cap[c], recvx[c], i)>>]
  <2>1. \A i \in 1 .. qlen[c] : at(i) = to(i)
    BY <1>2
  <2>2. Buffered(c) = [i \in 1 .. qlen[c] |-> at(i)]
    BY DEF Buffered
  <2> HIDE DEF at, to
  <2>3. Buffered(c) = [i \in 1 .. qlen[c] |-> to(i)]
    BY <2>1, <2>2
  <2> QED BY <2>3 DEF to
<1> DEFINE f(i) == buf[<<c, Place(Cap[c], recvx[c], i)>>]
<1>4. \A i \in 1 .. qlen[c] : f(i) \in Values
  BY <1>2
<1>5. Buffered(c) = [i \in 1 .. qlen[c] |-> f(i)]
  BY <1>3
<1> HIDE DEF f
<1>6. Buffered(c) \in Seq(Values) /\ Len(Buffered(c)) = qlen[c]
  BY <1>1, <1>4, <1>5
<1>7. \A i \in 1 .. qlen[c] : Buffered(c)[i] = f(i)
  BY <1>5
<1> QED BY <1>2, <1>6, <1>7 DEF f

\* What a list of senders sends.
LEMMA SentIs ==
  ASSUME NEW L \in Seq(Threads)
  PROVE  /\ Len(Sent(L)) = Len(L) /\ DOMAIN Sent(L) = 1 .. Len(L)
         /\ \A i \in 1 .. Len(L) : Sent(L)[i] = <<L[i], ncall[L[i]]>>
         /\ TypeOK => Sent(L) \in Seq(Values)
<1>1. \A i \in 1 .. Len(L) : L[i] \in Threads
  OBVIOUS
<1>2. TypeOK => \A i \in 1 .. Len(L) : <<L[i], ncall[L[i]]>> \in Values
  BY <1>1 DEF TypeOK, Values, Msgs
<1>3. TypeOK => [i \in 1 .. Len(L) |-> <<L[i], ncall[L[i]]>>] \in Seq(Values)
  BY <1>2
<1> QED BY <1>3 DEF Sent

-----------------------------------------------------------------------------
(* Calls that may fail.                                                    *)

CanFails == {t \in Threads : Abs!CanFail(t)}

\* What the last of the two unlocked reads finds.
Unready(t) == \/ pc[t] = "peekfull" /\ chan_full(on[t])
              \/ pc[t] = "peekopen" /\ chan_empty(on[t])
              \/ pc[t] = "lock" /\ op[t] = "trysend" /\ NoRoom(on[t])
              \/ pc[t] = "lock" /\ op[t] = "tryrecv" /\ NoMessage(on[t])

Unreadies == {t \in Threads : ~closed[on[t]] /\ Unready(t)}

\* How much is pending, in terms of the buffer and the lists.
LEMMA LenOfPend ==
  ASSUME NEW Q \in [Queues -> Seq(Threads)], Facts(Q), NEW c \in Chans
  PROVE  /\ Buffered(c) \in Seq(Values) /\ Len(Buffered(c)) = qlen[c]
         /\ Sent(Q[SendQ(c)]) \in Seq(Values) /\ Len(Sent(Q[SendQ(c)])) = Len(Q[SendQ(c)])
         /\ Q[SendQ(c)] \in Seq(Threads) /\ Q[RecvQ(c)] \in Seq(Threads)
         /\ pendBar[c] \in Seq(Values)
         /\ Len(pendBar[c]) = qlen[c] + (IF closed[c] THEN 0 ELSE Len(Q[SendQ(c)]))
         /\ (first[SendQ(c)] = NULL <=> Len(Q[SendQ(c)]) = 0)
         /\ (first[RecvQ(c)] = NULL <=> Len(Q[RecvQ(c)]) = 0)
         /\ qlen[c] \in 0 .. Cap[c] /\ Cap[c] \in Nat
<1> USE DEF Facts, Inv
<1>1. Buffered(c) \in Seq(Values) /\ Len(Buffered(c)) = qlen[c]
  BY BufferedIs
<1>2. SendQ(c) \in Queues /\ RecvQ(c) \in Queues
  BY QueueOfChan
<1>3. Sent(Q[SendQ(c)]) \in Seq(Values) /\ Len(Sent(Q[SendQ(c)])) = Len(Q[SendQ(c)])
  BY <1>2, SentIs
<1>4. pendBar[c] = IF closed[c] THEN Buffered(c) ELSE Buffered(c) \o Sent(Q[SendQ(c)])
  <2>1. ViewOf(Q)
    BY View
  <2> QED BY <2>1 DEF ViewOf
<1>5. ASSUME NEW q \in Queues PROVE first[q] = NULL <=> Len(Q[q]) = 0
  <2>1. Q[q] \in Seq(Threads) /\ first[q] = IF Len(Q[q]) = 0 THEN NULL ELSE Q[q][1]
    BY DEF Waiting, Lists, Chained
  <2>2. Len(Q[q]) # 0 => Q[q][1] \in Threads
    BY <2>1
  <2> QED BY <2>1, <2>2, ChanAssumption
<1>6. qlen[c] \in 0 .. Cap[c] /\ Cap[c] \in Nat
  BY ChanAssumption DEF RingInv
<1>7. (first[SendQ(c)] = NULL <=> Len(Q[SendQ(c)]) = 0) /\ (first[RecvQ(c)] = NULL <=> Len(Q[RecvQ(c)]) = 0)
  BY <1>2, <1>5
<1>8. Q[SendQ(c)] \in Seq(Threads) /\ Q[RecvQ(c)] \in Seq(Threads)
  BY <1>2
<1>9. pendBar[c] \in Seq(Values)
         /\ Len(pendBar[c]) = qlen[c] + (IF closed[c] THEN 0 ELSE Len(Q[SendQ(c)]))
  <2>1. Len(Q[SendQ(c)]) \in Nat
    BY <1>8
  <2>2. \A s, u \in Seq(Values) : s \o u \in Seq(Values) /\ Len(s \o u) = Len(s) + Len(u)
    OBVIOUS
  <2>3. CASE closed[c]
    BY <1>1, <1>4, <1>6, <2>3
  <2>4. CASE ~closed[c]
    BY <1>1, <1>3, <1>4, <2>2, <2>4
  <2> QED BY <2>3, <2>4
<1> QED BY <1>1, <1>3, <1>6, <1>7, <1>8, <1>9

\* A call whose last unlocked read, or whose look under the lock, finds the channel not ready can
\* fail in the abstract, as long as the channel is open.
LEMMA MayFail ==
  \A Q \in [Queues -> Seq(Threads)] : Facts(Q) /\ InCode => Unreadies \subseteq CanFails
<1> SUFFICES ASSUME NEW Q \in [Queues -> Seq(Threads)], Facts(Q), InCode,
                    NEW t \in Threads, ~closed[on[t]], Unready(t)
             PROVE  Abs!CanFail(t)
  BY DEF Unreadies, CanFails
<1>1. PICK c \in Chans : c = on[t]
  BY DEF Unready, Facts, Inv, TypeOK
<1>2. phaseBar[t] = "called"
  BY DEF phaseBar, Pending, Parked, Unready
<1>3. lineBar[c] = Q[RecvQ(c)] /\ Q[RecvQ(c)] \in Seq(Threads) /\ pendBar[c] \in Seq(Values)
      /\ Len(pendBar[c]) = qlen[c] + Len(Q[SendQ(c)])
  <2>1. ViewOf(Q)
    BY View
  <2> QED BY <1>1, <2>1, LenOfPend DEF ViewOf
<1>4. ASSUME op[t] = "trysend", chan_full(c) \/ NoRoom(c) PROVE Abs!NotReady(op[t], c)
  <2>1. Len(Q[RecvQ(c)]) = 0 /\ qlen[c] >= Cap[c]
    BY <1>4, LenOfPend DEF chan_full, NoRoom, Facts, Inv, WaitersInv
  <2>2. Len(pendBar[c]) >= Cap[c] /\ lineBar[c] = <<>>
    BY <1>3, <2>1, LenOfPend
  <2> QED BY <1>4, <2>2 DEF Abs!NotReady
<1>5. ASSUME op[t] = "tryrecv", chan_empty(c) \/ NoMessage(c) PROVE Abs!NotReady(op[t], c)
  <2>1. Len(Q[SendQ(c)]) = 0 /\ qlen[c] = 0
    BY <1>5, LenOfPend DEF chan_empty, NoMessage, Facts, Inv, WaitersInv
  <2>2. pendBar[c] = <<>>
    BY <1>3, <2>1
  <2> QED BY <1>5, <2>2 DEF Abs!NotReady
<1> QED BY <1>1, <1>2, <1>4, <1>5 DEF Unready, Abs!CanFail, Abs!Tries, InCode

-----------------------------------------------------------------------------
(* The same after a step.                                                  *)

\* The view after a step.
LEMMA ViewNext == (\A Q \in [Queues -> Seq(Threads)] : Facts(Q) => ViewOf(Q))'
BY View, PTL

\* The calls that can fail after a step.
LEMMA MayFailNext ==
  (\A Q \in [Queues -> Seq(Threads)] : Facts(Q) /\ InCode => Unreadies \subseteq CanFails)'
BY MayFail, PTL

\* No closed channel becomes full.
StillFull == \A c \in Chans : closed'[c] => /\ chan_full(c)' => chan_full(c)

\* Whoever has still to read saw the channel not ready, or may have seen it so before.
LEMMA Noted ==
  ASSUME NEW R \in [Queues -> Seq(Threads)], Facts(R)', InCode',
         \A u \in Threads :
           /\ pc'[u] = "peekfull" /\ closed'[on'[u]] =>
                pc[u] = "peekfull" /\ on'[u] = on[u] /\ (chan_full(on[u])' => chan_full(on[u]))
           /\ pc'[u] = "peekopen" /\ ~closed'[on'[u]] =>
                \/ pc[u] = "peekopen" /\ ~closed[on[u]]
                \/ chan_empty(on[u])'
  PROVE  Abs!Note
<1>1. Unreadies' \subseteq CanFails'
  BY MayFailNext
<1>2. ASSUME NEW u \in Threads, u \in mayfailBar' PROVE u \in mayfailBar \/ Abs!CanFail(u)'
  <2>1. u \in Unreadies' => Abs!CanFail(u)'
    BY <1>1 DEF CanFails
  <2>2. CASE pc'[u] = "peekfull" /\ chan_full(on[u])'
    <3>1. CASE closed'[on'[u]]
      <4>1. pc[u] = "peekfull" /\ on'[u] = on[u] /\ (chan_full(on[u])' => chan_full(on[u]))
        BY <2>2, <3>1
      <4> QED BY <2>2, <4>1 DEF mayfailBar
    <3>2. CASE ~closed'[on'[u]]
      BY <2>1, <2>2, <3>2 DEF Unreadies, Unready
    <3> QED BY <3>1, <3>2
  <2>3. CASE pc'[u] = "peekopen" /\ ~closed'[on'[u]]
    BY <2>1, <2>3 DEF Unreadies, Unready, mayfailBar
  <2> QED BY <1>2, <2>2, <2>3 DEF mayfailBar
<1>3. mayfailBar' \subseteq Threads
  BY DEF mayfailBar
<1> QED BY <1>2, <1>3 DEF Abs!Note

-----------------------------------------------------------------------------
(* The steps that leave the lists alone.                                   *)

\* Nothing changes but what one thread has, and what it was lent only when it returns.
Calm(t) ==
  /\ Quiet(t)
  /\ UNCHANGED <<ncall, elemptr>>
  /\ pc'[t] # "idle" => UNCHANGED <<val, cflag>>
  /\ \A u \in Threads : u # t => val'[u] = val[u] /\ cflag'[u] = cflag[u] /\ ret'[u] = ret[u]
  /\ pc'[t] = "peekagain" => closed[on[t]]

Before(Q) == Inv /\ Codes /\ Waiting(Q) /\ Holds(Q)

\* A calm step keeps the lists, and what the threads lent.
LEMMA CalmKeeps ==
  ASSUME NEW Q \in [Queues -> Seq(Threads)], Before(Q), NEW t \in Threads, Calm(t)
  PROVE  Codes' /\ Waiting(Q)' /\ Holds(Q)'
<1> USE DEF Before
<1>1. Codes' /\ Waiting(Q)'
  BY QuietKeeps DEF Calm
<1>2. /\ pc'[t] \in {"peekfull", "peekopen", "peekagain", "lock", "idle"}
      /\ \A u \in Threads : u # t => pc'[u] = pc[u]
      /\ pc[t] \notin {"idle", "wait"}
  BY DEF Calm, Quiet, Goto, Inv, TypeOK
<1>3. ASSUME NEW u \in Threads
      PROVE  /\ pc'[u] # "idle" => ~cflag'[u] /\ ncall'[u] > 0
             /\ pc'[u] # "idle" /\ op'[u] \in Sends => val'[u] = <<u, ncall'[u]>>
             /\ pc'[u] \in {"wait", "woken"} =>
                  /\ In(Q[QueueOf(u)'], u) => elemptr'[u] = ncall'[u]
                  /\ op'[u] = "recv" /\ ~In(Q[QueueOf(u)'], u) => elemptr'[u] = 0
             /\ pc'[u] = "peekagain" => closed'[on'[u]]
  <2>1. closed' = closed /\ op' = op /\ on' = on /\ ncall' = ncall /\ elemptr' = elemptr
        /\ QueueOf(u)' = QueueOf(u)
    BY DEF Calm, Quiet, QueueOf
  <2>2. CASE u # t
    BY <1>2, <2>1, <2>2 DEF Holds, Calm
  <2>3. CASE u = t
    BY <1>2, <2>1, <2>3 DEF Holds, Calm
  <2> QED BY <2>2, <2>3
<1> QED BY <1>1, <1>3 DEF Holds

\* In the abstract nothing changes but what the thread has.
LEMMA CalmView ==
  ASSUME NEW Q \in [Queues -> Seq(Threads)], Before(Q), NEW t \in Threads, Calm(t), Inv'
  PROVE  /\ Facts(Q)' /\ Codes' /\ lineBar' = lineBar
         /\ phaseBar' = [phaseBar EXCEPT ![t] = IF pc'[t] = "idle" THEN "idle" ELSE "called"]
         /\ retBar' = [retBar EXCEPT ![t] = ret'[t]]
         /\ valBar' = [valBar EXCEPT ![t] = val'[t]]
         /\ pc[t] # "woken" => phaseBar[t] = "called" /\ retBar[t] = ret[t] /\ valBar[t] = val[t]
         /\ pc[t] = "woken" => /\ phaseBar[t] = "idle" /\ retBar[t] = (IF t \in ToldOf(Q) THEN FALSE ELSE TRUE)
                               /\ valBar[t] = (IF t \in ToldOf(Q) THEN Zero ELSE val[t])
<1> USE DEF Before
<1>1. Facts(Q) /\ Facts(Q)' /\ Codes'
  BY CalmKeeps DEF Facts
<1>2. ViewOf(Q) /\ ViewOf(Q)'
  BY <1>1, View, ViewNext
<1>3. /\ pc'[t] \in {"peekfull", "peekopen", "peekagain", "lock", "idle"}
      /\ \A u \in Threads : u # t => pc'[u] = pc[u]
      /\ pc[t] \in {"peekclosed", "peekfull", "peekempty", "peekopen", "peekagain", "lock", "woken"}
      /\ closed' = closed /\ op' = op /\ on' = on
  BY DEF Calm, Quiet, Goto, Inv, TypeOK
<1>4. Asleep(Q)' = Asleep(Q) /\ ToldOf(Q)' = ToldOf(Q) \ {t} /\ t \notin Asleep(Q)
      /\ (pc[t] # "woken" => t \notin ToldOf(Q))
  <2>1. \A u \in Threads : QueueOf(u)' = QueueOf(u)
    BY <1>3 DEF QueueOf
  <2>2. ASSUME NEW u \in Threads
        PROVE  /\ u \in Asleep(Q)' <=> u \in Asleep(Q)
               /\ u \in ToldOf(Q)' <=> u \in ToldOf(Q) /\ u # t
    BY <1>3, <2>1 DEF Asleep, ToldOf
  <2>3. t \notin Asleep(Q) /\ (pc[t] # "woken" => t \notin ToldOf(Q))
    BY <1>3 DEF Asleep, ToldOf
  <2>4. Asleep(Q) \subseteq Threads /\ ToldOf(Q) \subseteq Threads
        /\ Asleep(Q)' \subseteq Threads /\ ToldOf(Q)' \subseteq Threads
    BY DEF Asleep, ToldOf
  <2> QED BY <2>2, <2>3, <2>4
<1>5. lineBar' = lineBar
  BY <1>2, <1>3 DEF ViewOf
<1>6. phaseBar' = [phaseBar EXCEPT ![t] = IF pc'[t] = "idle" THEN "idle" ELSE "called"]
      /\ phaseBar[t] = IF pc[t] = "woken" THEN "idle" ELSE "called"
  BY <1>2, <1>3, <1>4 DEF ViewOf
<1>7. retBar' = [retBar EXCEPT ![t] = ret'[t]]
      /\ retBar[t] = IF pc[t] = "woken" THEN IF t \in ToldOf(Q) THEN FALSE ELSE TRUE ELSE ret[t]
  <2>1. retBar' = [u \in Threads |->
           IF pc'[u] = "signal" \/ (pc'[u] \in {"wait", "woken"} /\ u \notin Asleep(Q)')
           THEN IF u \in ToldOf(Q)' THEN FALSE ELSE TRUE ELSE ret'[u]]
    BY <1>2 DEF ViewOf
  <2>2. retBar = [u \in Threads |->
           IF pc[u] = "signal" \/ (pc[u] \in {"wait", "woken"} /\ u \notin Asleep(Q))
           THEN IF u \in ToldOf(Q) THEN FALSE ELSE TRUE ELSE ret[u]]
    BY <1>2 DEF ViewOf
  <2>3. retBar'[t] = ret'[t] /\ \A u \in Threads : u # t => retBar'[u] = retBar[u]
    BY <1>3, <1>4, <2>1, <2>2 DEF Calm
  <2> QED BY <1>3, <1>4, <2>1, <2>2, <2>3
<1>8. valBar' = [valBar EXCEPT ![t] = val'[t]]
      /\ valBar[t] = IF t \in ToldOf(Q) THEN Zero ELSE val[t]
  BY <1>2, <1>3, <1>4 DEF ViewOf, Calm
<1> QED BY <1>1, <1>4, <1>5, <1>6, <1>7, <1>8

\* A call that returns is finished.
LEMMA CalmEnds ==
  ASSUME NEW Q \in [Queues -> Seq(Threads)], Before(Q), NEW t \in Threads, Calm(t), Inv',
         pc'[t] = "idle", pc[t] # "woken", NEW r, ret'[t] = r
  PROVE  Abs!Finish(t, r)
BY CalmView DEF Abs!Finish

\* One that goes on, or a sleeper that returns, has changed nothing.
LEMMA CalmGoesOn ==
  ASSUME NEW Q \in [Queues -> Seq(Threads)], Before(Q), NEW t \in Threads, Calm(t), Inv',
         pc'[t] # "idle", ret' = ret
  PROVE  phaseBar' = phaseBar /\ retBar' = retBar /\ valBar' = valBar /\ lineBar' = lineBar
<1>1. pc[t] # "woken" /\ val' = val
  BY DEF Calm, Quiet
<1>2. /\ phaseBar' = [phaseBar EXCEPT ![t] = "called"] /\ phaseBar[t] = "called"
      /\ retBar' = [retBar EXCEPT ![t] = ret[t]] /\ retBar[t] = ret[t]
      /\ valBar' = [valBar EXCEPT ![t] = val[t]] /\ valBar[t] = val[t]
      /\ lineBar' = lineBar
  BY <1>1, CalmView
<1>3. /\ phaseBar = [u \in Threads |-> phaseBar[u]] /\ retBar = [u \in Threads |-> retBar[u]]
      /\ valBar = [u \in Threads |-> valBar[u]]
  BY DEF phaseBar, retBar, valBar
<1> QED BY <1>2, <1>3

\* The buffers are the same when nothing is put in or taken out.
LEMMA SamePend ==
  ASSUME NEW Q \in [Queues -> Seq(Threads)], Facts(Q), Facts(Q)',
         UNCHANGED <<closed, qlen, recvx, buf, ncall>>
  PROVE  pendBar' = pendBar
<1>1. ViewOf(Q) /\ ViewOf(Q)'
  BY View, ViewNext
<1>2. \A c \in Chans : Buffered(c)' = Buffered(c) /\ Sent(Q[SendQ(c)])' = Sent(Q[SendQ(c)])
  BY DEF Buffered, Sent
<1> QED BY <1>1, <1>2 DEF ViewOf

\* Whoever has still to read may still fail.
LEMMA CalmNoted ==
  ASSUME NEW Q \in [Queues -> Seq(Threads)], Before(Q), NEW t \in Threads, Calm(t), Inv',
         pc'[t] \notin {"peekfull", "peekopen"}, StillFull
  PROVE  Abs!Note
<1>1. Facts(Q)' /\ InCode'
  BY CalmView DEF Codes
<1>2. /\ \A u \in Threads : u # t => pc'[u] = pc[u]
      /\ closed' = closed /\ on' = on
  BY DEF Calm, Quiet, Goto, Before, Inv, TypeOK
<1>3. ASSUME NEW u \in Threads
      PROVE  /\ pc'[u] = "peekfull" /\ closed'[on'[u]] =>
                  pc[u] = "peekfull" /\ on'[u] = on[u] /\ (chan_full(on[u])' => chan_full(on[u]))
             /\ pc'[u] = "peekopen" /\ ~closed'[on'[u]] =>
                  \/ pc[u] = "peekopen" /\ ~closed[on[u]]
                  \/ chan_empty(on[u])'
  <2>1. pc'[u] = "peekfull" => u # t /\ on[u] \in Chans
    BY <1>2 DEF Before, Inv, TypeOK
  <2>2. ASSUME NEW c \in Chans, c = on[u], closed'[c] PROVE chan_full(on[u])' => chan_full(on[u])
    BY <1>2, <2>2 DEF StillFull, chan_full
  <2> QED BY <1>2, <2>1, <2>2
<1> QED BY <1>1, <1>3, Noted

-----------------------------------------------------------------------------
(* Which steps are calm, and what they are in the abstract.                *)

\* The fast paths, and the calls that end under the lock without a peer, are calm.
LEMMA CalmSteps ==
  ASSUME Inv, Codes, NEW Q \in [Queues -> Seq(Threads)], Holds(Q), NEW t \in Threads,
         \/ PeekClosed(t) \/ PeekFull(t) \/ PeekEmpty(t) \/ PeekOpen(t) \/ PeekAgain(t)
         \/ SendClosed(t) \/ SendBuffer(t) \/ SendFull(t)
         \/ RecvClosed(t) \/ RecvBuffer(t) \/ RecvEmpty(t) \/ Woken(t)
  PROVE  Calm(t)
<1>0. Quiet(t)
  BY QuietSteps
<1> USE <1>0 DEF Calm, fastUnchanged, chanVars, waitVars, callVars, resVars, Goto, Return,
            ReturnClosed, Inv, TypeOK
<1>1. CASE PeekClosed(t)
  BY <1>1 DEF PeekClosed
<1>2. CASE PeekFull(t)
  BY <1>2 DEF PeekFull
<1>3. CASE PeekEmpty(t)
  BY <1>3 DEF PeekEmpty
<1>4. CASE PeekOpen(t)
  BY <1>4 DEF PeekOpen
<1>5. CASE PeekAgain(t)
  BY <1>5 DEF PeekAgain
<1>6. CASE SendClosed(t)
  BY <1>6 DEF SendClosed
<1>7. CASE SendBuffer(t)
  BY <1>7 DEF SendBuffer
<1>8. CASE SendFull(t)
  BY <1>8 DEF SendFull
<1>9. CASE RecvClosed(t)
  BY <1>9 DEF RecvClosed
<1>10. CASE RecvBuffer(t)
  BY <1>10 DEF RecvBuffer
<1>11. CASE RecvEmpty(t)
  BY <1>11 DEF RecvEmpty
<1>12. CASE Woken(t)
  BY <1>12 DEF Woken
<1> QED BY <1>1, <1>2, <1>3, <1>4, <1>5, <1>6, <1>7, <1>8, <1>9, <1>10, <1>11, <1>12

\* The unlocked reads that go on.
LEMMA PeekIsMoment ==
  ASSUME NEW Q \in [Queues -> Seq(Threads)], Before(Q), Inv', NEW t \in Threads,
         PeekClosed(t) \/ PeekEmpty(t) \/ (pc'[t] # "idle" /\ (PeekFull(t) \/ PeekOpen(t) \/ PeekAgain(t)))
  PROVE  Abs!Next
<1> USE DEF Before
<1>1. Calm(t)
  BY CalmSteps
<1>2. /\ UNCHANGED <<closed, qlen, recvx, buf, first, op, on, ncall, ret, cflag>> /\ pc'[t] # "idle"
      /\ \A u \in Threads : u # t => pc'[u] = pc[u]
  BY DEF PeekClosed, PeekEmpty, PeekFull, PeekOpen, PeekAgain, fastUnchanged, chanVars, waitVars,
         callVars, resVars, Goto, Return, ReturnClosed, Inv, TypeOK
<1>3. Facts(Q) /\ Facts(Q)' /\ InCode'
  BY <1>1, CalmView DEF Facts, Codes
<1>4. Abs!Moment
  BY <1>1, <1>2, <1>3, CalmGoesOn, SamePend DEF Abs!Moment, Abs!callVars
<1>5. ASSUME NEW u \in Threads
      PROVE  /\ pc'[u] = "peekfull" /\ closed'[on'[u]] =>
                  pc[u] = "peekfull" /\ on'[u] = on[u] /\ (chan_full(on[u])' => chan_full(on[u]))
             /\ pc'[u] = "peekopen" /\ ~closed'[on'[u]] =>
                  \/ pc[u] = "peekopen" /\ ~closed[on[u]]
                  \/ chan_empty(on[u])'
  <2>1. pc'[t] = "peekfull" => ~closed[on[t]]
    BY DEF PeekClosed, PeekEmpty, PeekFull, PeekOpen, PeekAgain, Goto, Return, ReturnClosed, Inv, TypeOK
  <2>2. pc'[t] = "peekopen" => chan_empty(on[t])
    BY DEF PeekClosed, PeekEmpty, PeekFull, PeekOpen, PeekAgain, Goto, Return, ReturnClosed, Inv, TypeOK
  <2>3. (chan_full(on[u])' <=> chan_full(on[u])) /\ (chan_empty(on[u])' <=> chan_empty(on[u]))
    BY <1>2 DEF chan_full, chan_empty
  <2> QED BY <1>2, <2>1, <2>2, <2>3
<1>6. Abs!Note
  BY <1>3, <1>5, Noted
<1> QED BY <1>4, <1>6 DEF Abs!Next

\* A call that does not block gives up.
LEMMA PeekIsFail ==
  ASSUME NEW Q \in [Queues -> Seq(Threads)], Before(Q), Inv', NEW t \in Threads,
         \/ pc'[t] = "idle" /\ (PeekFull(t) \/ PeekOpen(t))
         \/ SendFull(t) \/ RecvEmpty(t)
  PROVE  Abs!Next
<1> USE DEF Before
<1>1. Calm(t)
  BY CalmSteps
<1>2. /\ UNCHANGED <<closed, qlen, recvx, buf, first, op, on, ncall, val, cflag>> /\ pc'[t] = "idle"
      /\ ret'[t] = FALSE /\ pc[t] \in {"peekfull", "peekopen", "lock"} /\ op[t] \in {"trysend", "tryrecv"}
  BY DEF PeekFull, PeekOpen, SendFull, RecvEmpty, Locking, fastUnchanged, chanVars, waitVars,
         callVars, resVars, Goto, Return, Inv, TypeOK, Codes, InCode
<1>3. Facts(Q) /\ Facts(Q)' /\ InCode
  BY <1>1, CalmView DEF Facts, Codes
<1>4. t \in mayfailBar \/ Abs!CanFail(t)
  <2>1. Unreadies \subseteq CanFails
    BY <1>3, MayFail
  <2>2. CASE PeekFull(t) \/ PeekOpen(t)
    BY <1>2, <2>2 DEF PeekFull, PeekOpen, Goto, mayfailBar, Inv, TypeOK
  <2>3. CASE SendFull(t) \/ RecvEmpty(t)
    <3>1. t \in Unreadies
      BY <2>3 DEF Unreadies, Unready, SendFull, RecvEmpty, Locking, NoRoom, NoMessage
    <3> QED BY <2>1, <3>1 DEF CanFails
  <2> QED BY <1>2, <2>2, <2>3
<1>5. phaseBar[t] = "called" /\ Abs!Finish(t, FALSE) /\ lineBar' = lineBar /\ pendBar' = pendBar
      /\ valBar' = valBar
  <2>1. phaseBar[t] = "called" /\ lineBar' = lineBar /\ valBar[t] = val[t]
        /\ valBar' = [valBar EXCEPT ![t] = val'[t]]
    BY <1>1, <1>2, CalmView
  <2>2. Abs!Finish(t, FALSE)
    BY <1>1, <1>2, CalmEnds
  <2>3. pendBar' = pendBar
    BY <1>2, <1>3, SamePend
  <2>4. valBar = [u \in Threads |-> valBar[u]]
    BY DEF valBar
  <2> QED BY <1>2, <2>1, <2>2, <2>3, <2>4
<1>6. Abs!Fail(t)
  BY <1>2, <1>4, <1>5 DEF Abs!Fail, Abs!Called, Abs!Tries, Abs!callVars
<1>7. Abs!Note
  <2>1. StillFull
    BY <1>2 DEF StillFull, chan_full
  <2> QED BY <1>1, <1>2, <2>1, CalmNoted
<1> QED BY <1>6, <1>7 DEF Abs!Next

\* A receive that learns of the close.
LEMMA ClosedIsEnd ==
  ASSUME NEW Q \in [Queues -> Seq(Threads)], Before(Q), Inv', NEW t \in Threads,
         RecvClosed(t) \/ (pc'[t] = "idle" /\ PeekAgain(t))
  PROVE  Abs!Next
<1> USE DEF Before
<1>1. Calm(t)
  BY CalmSteps
<1>2. /\ UNCHANGED <<closed, qlen, recvx, buf, first, op, on, ncall>> /\ pc'[t] = "idle"
      /\ ret'[t] = FALSE /\ val'[t] = Zero /\ cflag' = [cflag EXCEPT ![t] = (op[t] = "tryrecv")]
      /\ pc[t] # "woken" /\ op[t] \in Recvs /\ closed[on[t]] /\ on[t] \in Chans
  <2>1. CASE RecvClosed(t)
    BY <2>1 DEF RecvClosed, Locking, fastUnchanged, chanVars, waitVars, callVars, Goto, Return,
         ReturnClosed, Inv, TypeOK
  <2>2. CASE pc'[t] = "idle" /\ PeekAgain(t)
    <3>1. pc[t] = "peekagain" /\ op[t] = "tryrecv" /\ (op[t] = "tryrecv") = TRUE
      BY <2>2 DEF PeekAgain, Codes, InCode
    <3>2. chan_empty(on[t]) /\ ReturnClosed(t, TRUE) /\ UNCHANGED fastUnchanged
      BY <2>2 DEF PeekAgain, Goto, Inv, TypeOK
    <3>3. closed[on[t]]
      BY <3>1 DEF Holds
    <3>4. UNCHANGED <<closed, qlen, recvx, buf, first, op, on, ncall>>
      BY <3>2 DEF fastUnchanged, chanVars, waitVars, callVars
    <3>5. ret'[t] = FALSE /\ val'[t] = Zero /\ cflag' = [cflag EXCEPT ![t] = TRUE]
      BY <3>2 DEF Return, ReturnClosed, Inv, TypeOK
    <3>6. on[t] \in Chans /\ op[t] \in Recvs
      BY <3>1 DEF Inv, TypeOK, Recvs
    <3> QED BY ONLY <2>2, <3>1, <3>3, <3>4, <3>5, <3>6
  <2> QED BY <2>1, <2>2
<1>3. Facts(Q) /\ Facts(Q)'
  BY <1>1, CalmView DEF Facts
<1>4. pendBar[on[t]] = <<>>
  <2>1. PICK c \in Chans : c = on[t]
    BY <1>2
  <2>2. pendBar[c] \in Seq(Values) /\ Len(pendBar[c]) = qlen[c]
        /\ qlen[c] \in 0 .. Cap[c]
    BY <1>2, <1>3, <2>1, LenOfPend
  <2>3. qlen[c] = 0
    <3>1. CASE RecvClosed(t)
      BY <2>1, <3>1 DEF RecvClosed
    <3>2. CASE pc'[t] = "idle" /\ PeekAgain(t)
      <4>1. chan_empty(c)
        BY <2>1, <3>2 DEF PeekAgain, Goto, Inv, TypeOK
      <4> QED BY <2>2, <4>1 DEF chan_empty
    <3> QED BY <3>1, <3>2
  <2> QED BY <2>1, <2>2, <2>3
<1>5. phaseBar[t] = "called" /\ Abs!Finish(t, FALSE) /\ lineBar' = lineBar /\ pendBar' = pendBar
      /\ valBar' = [valBar EXCEPT ![t] = Zero]
  <2>1. phaseBar[t] = "called" /\ lineBar' = lineBar /\ valBar' = [valBar EXCEPT ![t] = val'[t]]
    BY <1>1, <1>2, CalmView
  <2>2. Abs!Finish(t, FALSE)
    BY <1>1, <1>2, CalmEnds
  <2>3. pendBar' = pendBar
    BY <1>2, <1>3, SamePend
  <2> QED BY <1>2, <2>1, <2>2, <2>3
<1>6. Abs!EndOfStream(t)
  BY <1>2, <1>4, <1>5 DEF Abs!EndOfStream, Abs!Called, Abs!Recvs, Recvs, Abs!callVars
<1>7. Abs!Note
  <2>1. StillFull
    BY <1>2 DEF StillFull, chan_full
  <2> QED BY <1>1, <1>2, <2>1, CalmNoted
<1> QED BY <1>6, <1>7 DEF Abs!Next

\* A send that finds the channel closed.
LEMMA ClosedIsRefuse ==
  ASSUME NEW Q \in [Queues -> Seq(Threads)], Before(Q), Inv', NEW t \in Threads, SendClosed(t)
  PROVE  Abs!Next
<1> USE DEF Before
<1>1. Calm(t)
  BY CalmSteps
<1>2. /\ UNCHANGED <<closed, qlen, recvx, buf, first, op, on, ncall, val>> /\ pc'[t] = "idle"
      /\ ret'[t] = FALSE /\ cflag' = [cflag EXCEPT ![t] = (op[t] = "trysend")]
      /\ pc[t] # "woken" /\ op[t] \in Sends /\ closed[on[t]]
  BY DEF SendClosed, Locking, chanVars, waitVars, callVars, Goto, Return, Inv, TypeOK
<1>3. Facts(Q) /\ Facts(Q)'
  BY <1>1, CalmView DEF Facts
<1>4. phaseBar[t] = "called" /\ Abs!Finish(t, FALSE) /\ lineBar' = lineBar /\ pendBar' = pendBar
      /\ valBar' = valBar
  <2>1. phaseBar[t] = "called" /\ lineBar' = lineBar /\ valBar[t] = val[t]
        /\ valBar' = [valBar EXCEPT ![t] = val'[t]]
    BY <1>1, <1>2, CalmView
  <2>2. Abs!Finish(t, FALSE)
    BY <1>1, <1>2, CalmEnds
  <2>3. pendBar' = pendBar
    BY <1>2, <1>3, SamePend
  <2>4. valBar = [u \in Threads |-> valBar[u]]
    BY DEF valBar
  <2> QED BY <1>2, <2>1, <2>2, <2>3, <2>4
<1>5. Abs!Refuse(t)
  BY <1>2, <1>4 DEF Abs!Refuse, Abs!Called, Abs!Sends, Sends, Abs!callVars
<1>6. Abs!Note
  <2>1. StillFull
    BY <1>2 DEF StillFull, chan_full
  <2> QED BY <1>1, <1>2, <2>1, CalmNoted
<1> QED BY <1>5, <1>6 DEF Abs!Next

\* A sleeper that returns has what it had in the abstract before.
LEMMA WokenIsMoment ==
  ASSUME NEW Q \in [Queues -> Seq(Threads)], Before(Q), Inv', NEW t \in Threads, Woken(t)
  PROVE  Abs!Next
<1> USE DEF Before
<1>1. Calm(t)
  BY CalmSteps
<1>2. pc[t] = "woken" /\ pc'[t] = "idle" /\ ~cflag[t]
      /\ UNCHANGED <<closed, qlen, recvx, buf, first, op, on, ncall>>
  BY DEF Woken, fastUnchanged, chanVars, waitVars, callVars, Goto, Return, ReturnClosed, Inv, TypeOK, Holds
<1>3. /\ ret'[t] = (IF op[t] = "recv" /\ thrclosed[t] THEN FALSE ELSE TRUE)
      /\ val'[t] = (IF op[t] = "recv" /\ thrclosed[t] THEN Zero ELSE val[t])
      /\ cflag' = cflag
  <2>1. CASE op[t] = "recv" /\ thrclosed[t]
    <3>1. ReturnClosed(t, FALSE)
      BY <2>1 DEF Woken
    <3>2. cflag' = [cflag EXCEPT ![t] = FALSE] /\ cflag \in [Threads -> BOOLEAN]
      BY <3>1 DEF ReturnClosed, Inv, TypeOK
    <3>3. cflag[t] = FALSE
      BY <1>2, <3>2
    <3>4. cflag' = cflag
      BY <3>2, <3>3
    <3> QED BY <2>1, <3>1, <3>4 DEF ReturnClosed, Return, Inv, TypeOK
  <2>2. CASE ~(op[t] = "recv" /\ thrclosed[t])
    BY <2>2 DEF Woken, Return, Inv, TypeOK
  <2> QED BY <2>1, <2>2
<1>4. t \in ToldOf(Q) <=> op[t] = "recv" /\ thrclosed[t]
  <2>1. QueueOf(t) \in Queues
    BY <1>2 DEF QueueOf, Queues, Inv, TypeOK
  <2>2. In(Q[QueueOf(t)], t) <=> thrclosed[t]
    BY <1>2, <2>1 DEF Waiting, Members, Told
  <2>3. thrclosed[t] => closed[on[t]]
    BY DEF Waiting, Told
  <2> QED BY <1>2, <2>2, <2>3 DEF ToldOf
<1>5. Facts(Q) /\ Facts(Q)'
  BY <1>1, CalmView DEF Facts
<1>6. /\ phaseBar' = [phaseBar EXCEPT ![t] = "idle"] /\ phaseBar[t] = "idle"
      /\ retBar' = [retBar EXCEPT ![t] = ret'[t]]
      /\ retBar[t] = (IF t \in ToldOf(Q) THEN FALSE ELSE TRUE)
      /\ valBar' = [valBar EXCEPT ![t] = val'[t]]
      /\ valBar[t] = (IF t \in ToldOf(Q) THEN Zero ELSE val[t])
      /\ lineBar' = lineBar
  BY <1>1, <1>2, CalmView
<1>7. /\ phaseBar = [u \in Threads |-> phaseBar[u]] /\ retBar = [u \in Threads |-> retBar[u]]
      /\ valBar = [u \in Threads |-> valBar[u]]
  BY DEF phaseBar, retBar, valBar
<1>8. ret'[t] = retBar[t] /\ val'[t] = valBar[t]
  <2>1. CASE t \in ToldOf(Q)
    BY <1>3, <1>4, <1>6, <2>1
  <2>2. CASE t \notin ToldOf(Q)
    BY <1>3, <1>4, <1>6, <2>2
  <2> QED BY <2>1, <2>2
<1>9. phaseBar' = phaseBar /\ retBar' = retBar /\ valBar' = valBar /\ lineBar' = lineBar
  BY <1>6, <1>7, <1>8
<1>10. Abs!Moment
  BY <1>2, <1>3, <1>5, <1>9, SamePend DEF Abs!Moment, Abs!callVars
<1>11. Abs!Note
  <2>1. StillFull
    BY <1>2 DEF StillFull, chan_full
  <2> QED BY <1>1, <1>2, <2>1, CalmNoted
<1> QED BY <1>10, <1>11 DEF Abs!Next

-----------------------------------------------------------------------------
(* What is put into the ring buffer and taken out.                         *)

\* Sequences with the same elements are the same.
LEMMA SameSeq ==
  ASSUME NEW V, NEW s \in Seq(V), NEW u \in Seq(V), Len(s) = Len(u), \A i \in 1 .. Len(s) : s[i] = u[i]
  PROVE  s = u
OBVIOUS

IsBuffered(c) ==
  /\ Buffered(c) \in Seq(Values) /\ Len(Buffered(c)) = qlen[c]
  /\ \A i \in 1 .. qlen[c] : /\ Buffered(c)[i] = buf[<<c, Place(Cap[c], recvx[c], i)>>]
                             /\ Place(Cap[c], recvx[c], i) \in 0 .. Cap[c] - 1

\* The messages in each ring.
LEMMA AllBuffered == \A c \in Chans : TypeOK /\ RingInv => IsBuffered(c)
BY BufferedIs DEF IsBuffered

\* The same after a step.
LEMMA AllBufferedNext == (\A c \in Chans : TypeOK /\ RingInv => IsBuffered(c))'
BY AllBuffered, PTL

\* Another channel's buffer is the same.
LEMMA OtherBuffer ==
  ASSUME Inv, Inv', NEW c \in Chans, NEW d \in Chans, c # d, NEW i, NEW v,
         buf' = [buf EXCEPT ![<<c, i>>] = v] \/ buf' = buf, qlen'[d] = qlen[d], recvx'[d] = recvx[d]
  PROVE  Buffered(d)' = Buffered(d)
<1>1. IsBuffered(d) /\ IsBuffered(d)'
  BY AllBuffered, AllBufferedNext DEF Inv
<1>2. ASSUME NEW j \in 1 .. qlen[d] PROVE Buffered(d)'[j] = Buffered(d)[j]
  <2> DEFINE p == Place(Cap[d], recvx[d], j)
  <2>1. p \in 0 .. Cap[d] - 1 /\ Buffered(d)[j] = buf[<<d, p>>] /\ Buffered(d)'[j] = buf'[<<d, p>>]
    BY <1>1 DEF IsBuffered
  <2> HIDE DEF p
  <2>2. <<d, p>> \in Slots /\ <<d, p>> # <<c, i>>
    BY <2>1, SlotOf
  <2> QED BY <2>1, <2>2 DEF Inv, TypeOK
<1>3. /\ Buffered(d) \in Seq(Values) /\ Len(Buffered(d)) = qlen[d]
      /\ Buffered(d)' \in Seq(Values) /\ Len(Buffered(d)') = qlen[d]
  BY <1>1 DEF IsBuffered
<1> QED BY <1>2, <1>3, SameSeq

\* The slot behind the last message, the slot after the first, and the first reused.
LEMMA Places ==
  ASSUME NEW c \in Chans, TypeOK, RingInv
  PROVE  /\ qlen[c] < Cap[c] => /\ sendx[c] = Place(Cap[c], recvx[c], qlen[c] + 1)
                                /\ \A i \in 1 .. qlen[c] : Place(Cap[c], recvx[c], i) # sendx[c]
         /\ Cap[c] > 0 =>
              /\ Place(Cap[c], recvx[c], 1) = recvx[c]
              /\ \A i \in 1 .. Cap[c] - 1 :
                   /\ Place(Cap[c], SlotAfter(c, recvx[c]), i) = Place(Cap[c], recvx[c], i + 1)
                   /\ Place(Cap[c], recvx[c], i + 1) # recvx[c]
              /\ Place(Cap[c], SlotAfter(c, recvx[c]), Cap[c]) = recvx[c]
<1> DEFINE b == Cap[c]
           x == recvx[c]
           y == sendx[c]
           n == qlen[c]
<1>1. b \in Nat /\ x \in Nat /\ y \in Nat /\ n \in Nat /\ n <= b
      /\ (b > 0 => x < b /\ y < b /\ (y = x + n \/ y = x + n - b))
  BY ChanAssumption DEF TypeOK, RingInv
<1>2. SlotAfter(c, x) = IF x = b - 1 THEN 0 ELSE x + 1
  BY DEF SlotAfter
<1> HIDE DEF b, x, y, n
<1>3. n < b => y = Place(b, x, n + 1) /\ \A i \in 1 .. n : Place(b, x, i) # y
  BY <1>1 DEF Place
<1>4. b > 0 => /\ Place(b, x, 1) = x
               /\ \A i \in 1 .. b - 1 : /\ Place(b, SlotAfter(c, x), i) = Place(b, x, i + 1)
                                        /\ Place(b, x, i + 1) # x
               /\ Place(b, SlotAfter(c, x), b) = x
  BY <1>1, <1>2 DEF Place
<1> QED BY <1>3, <1>4 DEF b, x, y, n

\* A message is put in at sendx.
LEMMA PutIn ==
  ASSUME Inv, Inv', NEW c \in Chans, NEW v, qlen[c] < Cap[c],
         buf' = [buf EXCEPT ![<<c, sendx[c]>>] = v], recvx'[c] = recvx[c], qlen'[c] = qlen[c] + 1
  PROVE  Buffered(c)' = Append(Buffered(c), v) /\ v \in Values
<1>1. IsBuffered(c) /\ IsBuffered(c)'
  BY AllBuffered, AllBufferedNext DEF Inv
<1>2. qlen[c] \in Nat /\ sendx[c] \in 0 .. Cap[c] - 1 /\ buf \in [Slots -> Values]
      /\ buf' \in [Slots -> Values]
  BY ChanAssumption DEF Inv, TypeOK, RingInv
<1>3. <<c, sendx[c]>> \in Slots
  BY <1>2, SlotOf
<1>4. sendx[c] = Place(Cap[c], recvx[c], qlen[c] + 1)
      /\ \A i \in 1 .. qlen[c] : Place(Cap[c], recvx[c], i) # sendx[c]
  BY Places DEF Inv
<1>5. v \in Values
  BY <1>2, <1>3
<1> DEFINE s == Buffered(c)
           u == Buffered(c)'
<1>6. /\ s \in Seq(Values) /\ Len(s) = qlen[c]
      /\ u \in Seq(Values) /\ Len(u) = qlen[c] + 1
      /\ \A i \in 1 .. qlen[c] : s[i] = buf[<<c, Place(Cap[c], recvx[c], i)>>]
      /\ \A i \in 1 .. qlen[c] : Place(Cap[c], recvx[c], i) \in 0 .. Cap[c] - 1
      /\ \A i \in 1 .. qlen[c] + 1 : u[i] = buf'[<<c, Place(Cap[c], recvx[c], i)>>]
  BY <1>1 DEF IsBuffered
<1> HIDE DEF s, u
<1>7. ASSUME NEW i \in 1 .. qlen[c] PROVE u[i] = s[i]
  <2> DEFINE p == Place(Cap[c], recvx[c], i)
  <2>1. p \in 0 .. Cap[c] - 1 /\ p # sendx[c] /\ s[i] = buf[<<c, p>>] /\ u[i] = buf'[<<c, p>>]
    BY <1>2, <1>4, <1>6
  <2> HIDE DEF p
  <2>2. <<c, p>> \in Slots
    BY <2>1, SlotOf
  <2> QED BY <1>2, <2>1, <2>2
<1>8. u[qlen[c] + 1] = v
  <2>1. qlen[c] + 1 \in 1 .. qlen[c] + 1
    BY <1>2
  <2>2. u[qlen[c] + 1] = buf'[<<c, sendx[c]>>]
    BY <1>4, <1>6, <2>1
  <2> QED BY <1>2, <1>3, <2>2
<1>9. u = Append(s, v)
  BY <1>2, <1>5, <1>6, <1>7, <1>8
<1> QED BY <1>5, <1>9 DEF s, u

\* The oldest message is taken out at recvx.
LEMMA TakeOut ==
  ASSUME Inv, Inv', NEW c \in Chans, qlen[c] > 0, buf' = buf,
         recvx'[c] = SlotAfter(c, recvx[c]), qlen'[c] = qlen[c] - 1
  PROVE  Buffered(c)' = Tail(Buffered(c)) /\ Head(Buffered(c)) = buf[<<c, recvx[c]>>]
<1>1. IsBuffered(c) /\ IsBuffered(c)'
  BY AllBuffered, AllBufferedNext DEF Inv
<1>2. qlen[c] \in Nat /\ qlen[c] <= Cap[c] /\ Cap[c] \in Nat
  BY ChanAssumption DEF Inv, TypeOK, RingInv
<1>3. /\ Place(Cap[c], recvx[c], 1) = recvx[c]
      /\ \A i \in 1 .. Cap[c] - 1 :
           Place(Cap[c], SlotAfter(c, recvx[c]), i) = Place(Cap[c], recvx[c], i + 1)
  BY <1>2, Places DEF Inv
<1> DEFINE s == Buffered(c)
           u == Buffered(c)'
<1>6. /\ s \in Seq(Values) /\ Len(s) = qlen[c]
      /\ u \in Seq(Values) /\ Len(u) = qlen[c] - 1
      /\ \A i \in 1 .. qlen[c] : s[i] = buf[<<c, Place(Cap[c], recvx[c], i)>>]
      /\ \A i \in 1 .. qlen[c] - 1 : u[i] = buf[<<c, Place(Cap[c], SlotAfter(c, recvx[c]), i)>>]
  BY <1>1 DEF IsBuffered
<1> HIDE DEF s, u
<1>7. ASSUME NEW i \in 1 .. qlen[c] - 1 PROVE u[i] = s[i + 1]
  <2>1. i \in 1 .. Cap[c] - 1 /\ i + 1 \in 1 .. qlen[c]
    BY <1>2
  <2>2. Place(Cap[c], SlotAfter(c, recvx[c]), i) = Place(Cap[c], recvx[c], i + 1)
    BY <1>3, <2>1
  <2> QED BY <1>6, <2>1, <2>2
<1>8. s[1] = buf[<<c, recvx[c]>>]
  BY <1>2, <1>3, <1>6
<1>9. u = Tail(s) /\ Head(s) = s[1]
  BY <1>2, <1>6, <1>7
<1> QED BY <1>8, <1>9 DEF s, u

\* The oldest message of a full buffer is taken out, and another put in its slot.
LEMMA Exchange ==
  ASSUME Inv, Inv', NEW c \in Chans, NEW v, qlen[c] = Cap[c], Cap[c] > 0,
         buf' = [buf EXCEPT ![<<c, recvx[c]>>] = v],
         recvx'[c] = SlotAfter(c, recvx[c]), qlen'[c] = qlen[c]
  PROVE  Buffered(c)' = Append(Tail(Buffered(c)), v) /\ Head(Buffered(c)) = buf[<<c, recvx[c]>>]
         /\ v \in Values
<1>1. IsBuffered(c) /\ IsBuffered(c)'
  BY AllBuffered, AllBufferedNext DEF Inv
<1>2. qlen[c] \in Nat \ {0} /\ recvx[c] \in 0 .. Cap[c] - 1 /\ buf \in [Slots -> Values]
      /\ buf' \in [Slots -> Values]
  BY ChanAssumption DEF Inv, TypeOK, RingInv
<1>3. <<c, recvx[c]>> \in Slots
  BY <1>2, SlotOf
<1>4. /\ Place(Cap[c], recvx[c], 1) = recvx[c]
      /\ \A i \in 1 .. qlen[c] - 1 :
           /\ Place(Cap[c], SlotAfter(c, recvx[c]), i) = Place(Cap[c], recvx[c], i + 1)
           /\ Place(Cap[c], recvx[c], i + 1) # recvx[c]
      /\ Place(Cap[c], SlotAfter(c, recvx[c]), qlen[c]) = recvx[c]
  BY <1>2, Places DEF Inv
<1>5. v \in Values
  BY <1>2, <1>3
<1> DEFINE s == Buffered(c)
           u == Buffered(c)'
<1>6. /\ s \in Seq(Values) /\ Len(s) = qlen[c]
      /\ u \in Seq(Values) /\ Len(u) = qlen[c]
      /\ \A i \in 1 .. qlen[c] : s[i] = buf[<<c, Place(Cap[c], recvx[c], i)>>]
      /\ \A i \in 1 .. qlen[c] : Place(Cap[c], recvx[c], i) \in 0 .. Cap[c] - 1
      /\ \A i \in 1 .. qlen[c] : u[i] = buf'[<<c, Place(Cap[c], SlotAfter(c, recvx[c]), i)>>]
  BY <1>1 DEF IsBuffered
<1> HIDE DEF s, u
<1>7. ASSUME NEW i \in 1 .. qlen[c] - 1 PROVE u[i] = s[i + 1]
  <2> DEFINE p == Place(Cap[c], recvx[c], i + 1)
  <2>1. p \in 0 .. Cap[c] - 1 /\ p # recvx[c] /\ s[i + 1] = buf[<<c, p>>] /\ u[i] = buf'[<<c, p>>]
    <3>1. i \in 1 .. qlen[c] /\ i + 1 \in 1 .. qlen[c]
      BY <1>2
    <3>2. Place(Cap[c], SlotAfter(c, recvx[c]), i) = p /\ p # recvx[c]
      BY <1>4
    <3> QED BY <1>6, <3>1, <3>2
  <2> HIDE DEF p
  <2>2. <<c, p>> \in Slots
    BY <2>1, SlotOf
  <2> QED BY <1>2, <2>1, <2>2
<1>8. u[qlen[c]] = v /\ s[1] = buf[<<c, recvx[c]>>]
  BY <1>2, <1>3, <1>4, <1>6
<1>9. u = Append(Tail(s), v) /\ Head(s) = s[1]
  BY <1>2, <1>5, <1>6, <1>7, <1>8
<1> QED BY <1>5, <1>8, <1>9 DEF s, u

\* The messages of one channel change.
LEMMA OnePend ==
  ASSUME NEW Q \in [Queues -> Seq(Threads)], Facts(Q),
         NEW R \in [Queues -> Seq(Threads)], Facts(R)', NEW c \in Chans, UNCHANGED <<closed, ncall>>,
         \A d \in Chans : d # c => Buffered(d)' = Buffered(d) /\ R[SendQ(d)] = Q[SendQ(d)]
  PROVE  /\ pendBar' = [pendBar EXCEPT ![c] = pendBar'[c]]
         /\ pendBar[c] = (IF closed[c] THEN Buffered(c) ELSE Buffered(c) \o Sent(Q[SendQ(c)]))
         /\ pendBar'[c] = (IF closed[c] THEN Buffered(c)' ELSE Buffered(c)' \o Sent(R[SendQ(c)]))
<1>1. ViewOf(Q) /\ ViewOf(R)'
  BY View, ViewNext
<1>2. pendBar = [d \in Chans |-> IF closed[d] THEN Buffered(d) ELSE Buffered(d) \o Sent(Q[SendQ(d)])]
  BY <1>1 DEF ViewOf
<1>3. \A d \in Chans : Sent(R[SendQ(d)])' = Sent(R[SendQ(d)])
  BY DEF Sent
<1>4. pendBar' = [d \in Chans |-> IF closed[d] THEN Buffered(d)' ELSE Buffered(d)' \o Sent(R[SendQ(d)])]
  BY <1>1, <1>3 DEF ViewOf
<1> QED BY <1>2, <1>4

\* Where no sender waits, what is pending is in the buffer.
LEMMA OnlyBuffered ==
  ASSUME NEW Q \in [Queues -> Seq(Threads)], Facts(Q), NEW c \in Chans,
         closed[c] \/ first[SendQ(c)] = NULL
  PROVE  pendBar[c] = Buffered(c) /\ Buffered(c) \in Seq(Values) /\ Len(Buffered(c)) = qlen[c]
<1>1. ViewOf(Q)
  BY View
<1>2. Buffered(c) \in Seq(Values) /\ Len(Buffered(c)) = qlen[c]
      /\ Sent(Q[SendQ(c)]) \in Seq(Values) /\ Len(Sent(Q[SendQ(c)])) = Len(Q[SendQ(c)])
      /\ (first[SendQ(c)] = NULL <=> Len(Q[SendQ(c)]) = 0)
  BY LenOfPend
<1>3. pendBar[c] = IF closed[c] THEN Buffered(c) ELSE Buffered(c) \o Sent(Q[SendQ(c)])
  BY <1>1 DEF ViewOf
<1>4. CASE closed[c]
  BY <1>2, <1>3, <1>4
<1>5. CASE ~closed[c]
  <2>1. Sent(Q[SendQ(c)]) = <<>>
    BY <1>2, <1>5
  <2>2. \A s \in Seq(Values) : s \o <<>> = s
    OBVIOUS
  <2> QED BY <1>2, <1>3, <1>5, <2>1, <2>2
<1> QED BY <1>4, <1>5

\* The same after a step.
LEMMA OnlyBufferedNext ==
  (\A Q \in [Queues -> Seq(Threads)], c \in Chans : Facts(Q) /\ (closed[c] \/ first[SendQ(c)] = NULL)
       => pendBar[c] = Buffered(c))'
<1>1. \A Q \in [Queues -> Seq(Threads)], c \in Chans :
        Facts(Q) /\ (closed[c] \/ first[SendQ(c)] = NULL) => pendBar[c] = Buffered(c)
  BY OnlyBuffered
<1> QED BY <1>1, PTL

\* A message is put into the buffer.
LEMMA BufferIsBuffer ==
  ASSUME NEW Q \in [Queues -> Seq(Threads)], Before(Q), Inv', NEW t \in Threads, SendBuffer(t)
  PROVE  Abs!Next
<1> USE DEF Before
<1>1. Calm(t)
  BY CalmSteps
<1>2. PICK c \in Chans : c = on[t]
  BY DEF SendBuffer, Locking, Inv, TypeOK
<1>3. /\ UNCHANGED <<closed, recvx, first, op, on, ncall, val, cflag>> /\ pc'[t] = "idle"
      /\ ret'[t] = TRUE /\ pc[t] = "lock" /\ op[t] \in Sends /\ ~closed[c]
      /\ first[RecvQ(c)] = NULL /\ qlen[c] < Cap[c]
      /\ buf' = [buf EXCEPT ![<<c, sendx[c]>>] = val[t]] /\ qlen' = [qlen EXCEPT ![c] = @ + 1]
  BY <1>2 DEF SendBuffer, Locking, waitVars, callVars, Goto, Return, Inv, TypeOK
<1>4. Facts(Q) /\ Facts(Q)'
  BY <1>1, CalmView DEF Facts
<1>5. phaseBar[t] = "called" /\ Abs!Finish(t, TRUE) /\ lineBar' = lineBar /\ valBar' = valBar
      /\ valBar[t] = val[t]
  <2>1. phaseBar[t] = "called" /\ lineBar' = lineBar /\ valBar[t] = val[t]
        /\ valBar' = [valBar EXCEPT ![t] = val'[t]]
    BY <1>1, <1>3, CalmView
  <2>2. Abs!Finish(t, TRUE)
    BY <1>1, <1>3, CalmEnds
  <2>4. valBar = [u \in Threads |-> valBar[u]]
    BY DEF valBar
  <2> QED BY <1>3, <2>1, <2>2, <2>4
<1>6. lineBar[c] = <<>>
  <2>1. ViewOf(Q)
    BY <1>4, View
  <2>2. Q[RecvQ(c)] \in Seq(Threads) /\ Len(Q[RecvQ(c)]) = 0
    BY <1>3, <1>4, LenOfPend
  <2>3. lineBar[c] = Q[RecvQ(c)]
    BY <1>3, <2>1 DEF ViewOf
  <2> QED BY <2>2, <2>3
<1>7. first[SendQ(c)] = NULL /\ Cap[c] \in Nat /\ qlen[c] \in Nat
  <2>1. Cap[c] \in Nat /\ qlen[c] \in Nat
    BY ChanAssumption DEF Inv, TypeOK
  <2> QED BY <1>3, <2>1 DEF Inv, WaitersInv
<1>8. qlen'[c] = qlen[c] + 1 /\ \A d \in Chans : d # c => qlen'[d] = qlen[d]
  BY <1>3 DEF Inv, TypeOK
<1>9. pendBar[c] = Buffered(c) /\ Len(Buffered(c)) = qlen[c]
  BY <1>4, <1>7, OnlyBuffered
<1>10. pendBar'[c] = Append(pendBar[c], val[t])
  <2>1. Buffered(c)' = Append(Buffered(c), val[t])
    BY <1>3, <1>8, PutIn
  <2>2. pendBar'[c] = Buffered(c)'
    BY <1>3, <1>4, <1>7, OnlyBufferedNext
  <2> QED BY <1>9, <2>1, <2>2
<1>11. pendBar' = [pendBar EXCEPT ![c] = Append(@, val[t])]
  <2>1. \A d \in Chans : d # c => Buffered(d)' = Buffered(d)
    BY <1>3, <1>8, OtherBuffer
  <2>2. UNCHANGED <<closed, ncall>>
    BY <1>3
  <2>3. pendBar' = [pendBar EXCEPT ![c] = pendBar'[c]]
    BY <1>4, <2>1, <2>2, OnePend
  <2> QED BY <1>10, <2>3
<1>12. Abs!Buffer(t)
  BY <1>2, <1>3, <1>5, <1>6, <1>7, <1>9, <1>11
     DEF Abs!Buffer, Abs!Called, Abs!Sends, Sends, Abs!callVars
<1>13. Abs!Note
  <2>1. StillFull
    BY <1>3, <1>8 DEF StillFull, chan_full
  <2> QED BY <1>1, <1>3, <2>1, CalmNoted
<1> QED BY <1>12, <1>13 DEF Abs!Next

\* A message is taken out of the buffer.
LEMMA BufferIsTake ==
  ASSUME NEW Q \in [Queues -> Seq(Threads)], Before(Q), Inv', NEW t \in Threads, RecvBuffer(t)
  PROVE  Abs!Next
<1> USE DEF Before
<1>1. Calm(t)
  BY CalmSteps
<1>2. PICK c \in Chans : c = on[t]
  BY DEF RecvBuffer, Locking, Inv, TypeOK
<1>3. /\ UNCHANGED <<closed, buf, first, op, on, ncall, cflag>> /\ pc'[t] = "idle"
      /\ ret'[t] = TRUE /\ pc[t] = "lock" /\ op[t] \in Recvs
      /\ first[SendQ(c)] = NULL /\ qlen[c] > 0 /\ val'[t] = buf[<<c, recvx[c]>>]
      /\ recvx' = [recvx EXCEPT ![c] = SlotAfter(c, @)] /\ qlen' = [qlen EXCEPT ![c] = @ - 1]
  BY <1>2 DEF RecvBuffer, Locking, waitVars, callVars, Goto, Return, Inv, TypeOK
<1>4. Facts(Q) /\ Facts(Q)'
  BY <1>1, CalmView DEF Facts
<1>5. phaseBar[t] = "called" /\ lineBar' = lineBar /\ valBar' = [valBar EXCEPT ![t] = val'[t]]
      /\ phaseBar' = [phaseBar EXCEPT ![t] = "idle"] /\ retBar' = [retBar EXCEPT ![t] = TRUE]
  BY <1>1, <1>3, CalmView
<1>7. Cap[c] \in Nat /\ qlen[c] \in 0 .. Cap[c]
  BY ChanAssumption DEF Inv, TypeOK, RingInv
<1>8. /\ qlen'[c] = qlen[c] - 1 /\ recvx'[c] = SlotAfter(c, recvx[c])
      /\ \A d \in Chans : d # c => qlen'[d] = qlen[d] /\ recvx'[d] = recvx[d]
  BY <1>3 DEF Inv, TypeOK
<1>9. pendBar[c] = Buffered(c) /\ Len(Buffered(c)) = qlen[c] /\ Buffered(c) \in Seq(Values)
  BY <1>3, <1>4, OnlyBuffered
<1>10. pendBar'[c] = Tail(pendBar[c]) /\ Head(pendBar[c]) = val'[t]
  <2>1. Buffered(c)' = Tail(Buffered(c)) /\ Head(Buffered(c)) = buf[<<c, recvx[c]>>]
    BY <1>3, <1>8, TakeOut
  <2>2. pendBar'[c] = Buffered(c)'
    BY <1>3, <1>4, OnlyBufferedNext
  <2> QED BY <1>3, <1>9, <2>1, <2>2
<1>11. pendBar' = [pendBar EXCEPT ![c] = Tail(@)]
  <2>1. \A d \in Chans : d # c => Buffered(d)' = Buffered(d)
    BY <1>3, <1>8, OtherBuffer
  <2>2. pendBar' = [pendBar EXCEPT ![c] = pendBar'[c]]
    BY <1>3, <1>4, <2>1, OnePend
  <2> QED BY <1>10, <2>2
<1>12. pendBar[c] # <<>> /\ ~(Len(pendBar[c]) > Cap[c])
  BY <1>3, <1>7, <1>9
<1>13. Abs!Take(t)
  <2>1. /\ phaseBar' = [u \in Threads |-> IF u \in {t} THEN "idle" ELSE phaseBar[u]]
        /\ retBar' = [u \in Threads |-> IF u \in {t} THEN TRUE ELSE retBar[u]]
    <3>1. phaseBar = [u \in Threads |-> phaseBar[u]] /\ retBar = [u \in Threads |-> retBar[u]]
      BY DEF phaseBar, retBar
    <3> QED BY <1>5, <3>1
  <2>2. {t} \cup (IF Len(pendBar[c]) > Cap[c] THEN {pendBar[c][Cap[c] + 1][1]} ELSE {}) = {t}
    BY <1>12
  <2>3. phaseBar[t] = "called" /\ op[t] \in Abs!Recvs
    BY <1>3, <1>5 DEF Abs!Recvs, Recvs
  <2> QED BY <1>2, <1>3, <1>5, <1>10, <1>11, <1>12, <2>1, <2>2, <2>3
          DEF Abs!Take, Abs!Called, Abs!callVars
<1>14. Abs!Note
  <2>1. StillFull
    BY <1>3, <1>7, <1>8 DEF StillFull, chan_full
  <2> QED BY <1>1, <1>3, <2>1, CalmNoted
<1> QED BY <1>13, <1>14 DEF Abs!Next

-----------------------------------------------------------------------------
(* Steps the abstract does not see: signals, and the loops of ChanClose.   *)

\* Nothing changes but where a thread is that has had its effect.
Behind(Q, t) ==
  /\ UNCHANGED <<closed, qlen, recvx, buf, first, op, on, ncall, val, cflag, elemptr>>
  /\ \A u \in Threads : u # t => pc'[u] = pc[u] /\ ret'[u] = ret[u]
  /\ \/ pc[t] = "signal" /\ pc'[t] = "idle" /\ ret'[t] = TRUE
     \/ pc[t] = "wait" /\ pc'[t] = "woken" /\ ret'[t] = ret[t] /\ t \notin Asleep(Q)
     \/ /\ pc[t] \in {"closerecv", "closesend"} /\ pc'[t] \in {"closerecv", "closesend", "idle"}
        /\ ret'[t] = ret[t]

\* A step behind the effect of a call changes nothing in the abstract.
LEMMA BehindIsMoment ==
  ASSUME NEW Q \in [Queues -> Seq(Threads)], Before(Q), Inv', Codes', Waiting(Q)', NEW t \in Threads,
         Behind(Q, t)
  PROVE  Holds(Q)' /\ Abs!Next
<1> USE DEF Before
<1>1. /\ UNCHANGED <<closed, qlen, recvx, buf, first, op, on, ncall, val, cflag, elemptr>>
      /\ \A u \in Threads : QueueOf(u)' = QueueOf(u)
      /\ \A u \in Threads : u # t => pc'[u] = pc[u] /\ ret'[u] = ret[u]
      /\ pc'[t] \in {"idle", "woken", "closerecv", "closesend"}
      /\ pc'[t] = "woken" => pc[t] = "wait"
      /\ pc[t] \in {"signal", "wait", "closerecv", "closesend"}
  BY DEF Behind, QueueOf
<1>2. Holds(Q)'
  <2>1. ASSUME NEW u \in Threads
        PROVE  /\ pc'[u] # "idle" => ~cflag'[u] /\ ncall'[u] > 0
               /\ pc'[u] # "idle" /\ op'[u] \in Sends => val'[u] = <<u, ncall'[u]>>
               /\ pc'[u] \in {"wait", "woken"} =>
                    /\ In(Q[QueueOf(u)'], u) => elemptr'[u] = ncall'[u]
                    /\ op'[u] = "recv" /\ ~In(Q[QueueOf(u)'], u) => elemptr'[u] = 0
               /\ pc'[u] = "peekagain" => closed'[on'[u]]
    <3>1. CASE u # t
      BY <1>1, <3>1 DEF Holds
    <3>2. CASE u = t
      BY <1>1, <3>2 DEF Holds
    <3> QED BY <3>1, <3>2
  <2> QED BY <2>1 DEF Holds
<1>3. Facts(Q) /\ Facts(Q)' /\ InCode'
  BY <1>2 DEF Facts, Codes
<1>4. ViewOf(Q) /\ ViewOf(Q)'
  BY <1>3, View, ViewNext
<1>5. /\ \A u \in Threads : u # t => (u \in Asleep(Q)' <=> u \in Asleep(Q))
                                     /\ (u \in ToldOf(Q)' <=> u \in ToldOf(Q))
      /\ t \notin Asleep(Q) /\ t \notin Asleep(Q)'
      /\ pc[t] \in {"wait"} => (t \in ToldOf(Q)' <=> t \in ToldOf(Q))
      /\ pc[t] \notin {"wait"} => t \notin ToldOf(Q)' /\ t \notin ToldOf(Q)
  BY <1>1 DEF Asleep, ToldOf, Behind
<1>6. phaseBar' = phaseBar
  BY <1>1, <1>4, <1>5 DEF ViewOf
<1>7. retBar' = retBar
  <2>1. retBar' = [u \in Threads |->
           IF pc'[u] = "signal" \/ (pc'[u] \in {"wait", "woken"} /\ u \notin Asleep(Q)')
           THEN IF u \in ToldOf(Q)' THEN FALSE ELSE TRUE ELSE ret'[u]]
    BY <1>4 DEF ViewOf
  <2>2. retBar = [u \in Threads |->
           IF pc[u] = "signal" \/ (pc[u] \in {"wait", "woken"} /\ u \notin Asleep(Q))
           THEN IF u \in ToldOf(Q) THEN FALSE ELSE TRUE ELSE ret[u]]
    BY <1>4 DEF ViewOf
  <2>3. \A u \in Threads : u # t => retBar'[u] = retBar[u]
    BY <1>1, <1>5, <2>1, <2>2
  <2>4. retBar'[t] = retBar[t]
    <3>1. CASE pc[t] = "signal"
      BY <1>1, <1>5, <2>1, <2>2, <3>1 DEF Behind
    <3>2. CASE pc[t] = "wait"
      BY <1>1, <1>5, <2>1, <2>2, <3>2 DEF Behind
    <3>3. CASE pc[t] \in {"closerecv", "closesend"}
      BY <1>1, <1>5, <2>1, <2>2, <3>3 DEF Behind
    <3> QED BY <1>1, <3>1, <3>2, <3>3
  <2> QED BY <2>1, <2>2, <2>3, <2>4
<1>8. valBar' = valBar
  BY <1>1, <1>4, <1>5 DEF ViewOf
<1>9. lineBar' = lineBar
  BY <1>1, <1>4 DEF ViewOf
<1>10. pendBar' = pendBar
  BY <1>1, <1>3, SamePend
<1>11. Abs!Moment
  BY <1>1, <1>6, <1>7, <1>8, <1>9, <1>10 DEF Abs!Moment, Abs!callVars
<1>12. ASSUME NEW u \in Threads
       PROVE  /\ pc'[u] = "peekfull" /\ closed'[on'[u]] =>
                   pc[u] = "peekfull" /\ on'[u] = on[u] /\ (chan_full(on[u])' => chan_full(on[u]))
              /\ pc'[u] = "peekopen" /\ ~closed'[on'[u]] =>
                   \/ pc[u] = "peekopen" /\ ~closed[on[u]]
                   \/ chan_empty(on[u])'
  BY <1>1 DEF chan_full
<1>13. Abs!Note
  BY <1>3, <1>12, Noted
<1> QED BY <1>2, <1>11, <1>13 DEF Abs!Next

\* Which steps they are.
LEMMA BehindSteps ==
  ASSUME NEW Q \in [Queues -> Seq(Threads)], Before(Q), Inv', NEW t \in Threads,
         Signal(t) \/ Wait(t) \/ CloseWake(t) \/ CloseSenders(t) \/ CloseUnlock(t)
  PROVE  Codes' /\ Waiting(Q)' /\ Behind(Q, t)
<1>0. pc \in [Threads -> Labels] /\ ret \in [Threads -> BOOLEAN]
  BY DEF Before, Inv, TypeOK
<1>1. Codes' /\ Waiting(Q)'
  BY SignalKeeps, CloseWakeKeeps, CloseSendersKeeps, CloseUnlockKeeps DEF Before
<1>2. CASE Signal(t)
  BY <1>0, <1>1, <1>2 DEF Signal, Behind, thrUnchanged, chanVars, waitVars, callVars, Goto, Return
<1>3. CASE Wait(t)
  <2>1. sema[t] > 0 /\ pc[t] = "wait" /\ sema[t] \in Nat
    BY <1>3 DEF Wait, Before, Inv, TypeOK
  <2>2. Owed(Q, t)
    BY <2>1, SomeReleasers DEF Before, Waiting, Signals
  <2>3. t \notin Asleep(Q)
    BY <2>2 DEF Owed, Asleep, Before, Waiting, Told
  <2> QED BY <1>0, <1>1, <1>3, <2>3 DEF Wait, Behind, thrUnchanged, chanVars, waitVars, callVars, Goto
<1>4. CASE CloseWake(t)
  BY <1>0, <1>1, <1>4 DEF CloseWake, Behind, closeUnchanged, waitVars, callVars, resVars, Goto
<1>5. CASE CloseSenders(t)
  BY <1>0, <1>1, <1>5 DEF CloseSenders, Behind, closeUnchanged, waitVars, callVars, resVars, Goto
<1>6. CASE CloseUnlock(t)
  BY <1>0, <1>1, <1>6 DEF CloseUnlock, Behind, closeUnchanged, waitVars, callVars, resVars, Goto
<1> QED BY <1>1, <1>2, <1>3, <1>4, <1>5, <1>6

-----------------------------------------------------------------------------
(* A call starts, and a channel is closed.                                 *)

\* A call starts in both.
LEMMA StartIsCall ==
  ASSUME Contract = "drained", NEW Q \in [Queues -> Seq(Threads)], Before(Q), Inv',
         NEW t \in Threads, NEW o \in Ops, NEW c \in Chans, Start(t, o, c)
  PROVE  Codes' /\ Waiting(Q)' /\ Holds(Q)' /\ Abs!Next
<1>1. Codes' /\ Waiting(Q)'
  BY StartKeeps DEF Before
<1>2. /\ UNCHANGED <<closed, qlen, recvx, buf, first, elemptr, ret>>
      /\ \A u \in Threads : u # t => pc'[u] = pc[u] /\ op'[u] = op[u] /\ on'[u] = on[u]
            /\ ncall'[u] = ncall[u] /\ val'[u] = val[u] /\ cflag'[u] = cflag[u] /\ QueueOf(u)' = QueueOf(u)
      /\ pc[t] = "idle" /\ pc'[t] \in {"peekclosed", "peekempty", "lock"}
      /\ op'[t] = o /\ on'[t] = c /\ ncall'[t] = ncall[t] + 1 /\ ncall[t] \in Nat
      /\ val'[t] = (IF o \in Sends THEN <<t, ncall[t] + 1>> ELSE Garbage) /\ cflag'[t] = FALSE
  BY DEF Start, Before, Inv, TypeOK, chanVars, waitVars, Goto, FirstStep, QueueOf
<1>3. Holds(Q)'
  <2>1. ASSUME NEW u \in Threads
        PROVE  /\ pc'[u] # "idle" => ~cflag'[u] /\ ncall'[u] > 0
               /\ pc'[u] # "idle" /\ op'[u] \in Sends => val'[u] = <<u, ncall'[u]>>
               /\ pc'[u] \in {"wait", "woken"} =>
                    /\ In(Q[QueueOf(u)'], u) => elemptr'[u] = ncall'[u]
                    /\ op'[u] = "recv" /\ ~In(Q[QueueOf(u)'], u) => elemptr'[u] = 0
               /\ pc'[u] = "peekagain" => closed'[on'[u]]
    <3>1. CASE u # t
      BY <1>2, <3>1 DEF Before, Holds
    <3>2. CASE u = t
      BY <1>2, <3>2
    <3> QED BY <3>1, <3>2
  <2> QED BY <2>1 DEF Holds
<1>4. Facts(Q) /\ Facts(Q)' /\ InCode'
  BY <1>1, <1>3 DEF Facts, Codes, Before
<1>5. ViewOf(Q) /\ ViewOf(Q)'
  BY <1>4, View, ViewNext
<1>6. /\ \A u \in Threads : (u \in Asleep(Q)' <=> u \in Asleep(Q)) /\ (u \in ToldOf(Q)' <=> u \in ToldOf(Q))
      /\ t \notin Asleep(Q) /\ t \notin ToldOf(Q)
  BY <1>2 DEF Asleep, ToldOf
<1>7. phaseBar[t] = "idle" /\ phaseBar' = [phaseBar EXCEPT ![t] = "called"]
  <2>1. phaseBar' = [u \in Threads |->
           IF u \in Asleep(Q)' THEN IF op'[u] = "send" THEN "offered" ELSE "waiting"
           ELSE IF pc'[u] \in {"idle", "signal", "closerecv", "closesend", "wait", "woken"} THEN "idle"
           ELSE "called"]
    BY <1>5 DEF ViewOf
  <2>2. phaseBar = [u \in Threads |->
           IF u \in Asleep(Q) THEN IF op[u] = "send" THEN "offered" ELSE "waiting"
           ELSE IF pc[u] \in {"idle", "signal", "closerecv", "closesend", "wait", "woken"} THEN "idle"
           ELSE "called"]
    BY <1>5 DEF ViewOf
  <2>3. \A u \in Threads : phaseBar'[u] = IF u = t THEN "called" ELSE phaseBar[u]
    BY <1>2, <1>6, <2>1, <2>2
  <2>4. phaseBar[t] = "idle"
    BY <1>2, <1>6, <2>2
  <2> QED BY ONLY <2>1, <2>2, <2>3, <2>4
<1>8. retBar' = retBar
  <2>1. retBar' = [u \in Threads |->
           IF pc'[u] = "signal" \/ (pc'[u] \in {"wait", "woken"} /\ u \notin Asleep(Q)')
           THEN IF u \in ToldOf(Q)' THEN FALSE ELSE TRUE ELSE ret'[u]]
    BY <1>5 DEF ViewOf
  <2>2. retBar = [u \in Threads |->
           IF pc[u] = "signal" \/ (pc[u] \in {"wait", "woken"} /\ u \notin Asleep(Q))
           THEN IF u \in ToldOf(Q) THEN FALSE ELSE TRUE ELSE ret[u]]
    BY <1>5 DEF ViewOf
  <2>3. \A u \in Threads : retBar'[u] = retBar[u]
    BY <1>2, <1>6, <2>1, <2>2
  <2> QED BY <2>1, <2>2, <2>3
<1>9. valBar' = [valBar EXCEPT ![t] = IF o \in Sends THEN <<t, ncall[t] + 1>> ELSE Garbage]
  BY <1>2, <1>5, <1>6 DEF ViewOf
<1>10. lineBar' = lineBar
  BY <1>2, <1>5 DEF ViewOf
<1>11. pendBar' = pendBar
  <2>1. \A d \in Chans : Buffered(d)' = Buffered(d)
    BY <1>2 DEF Buffered
  <2>2. ASSUME NEW d \in Chans, ~closed[d] PROVE Sent(Q[SendQ(d)])' = Sent(Q[SendQ(d)])
    <3>1. ASSUME NEW i \in 1 .. Len(Q[SendQ(d)]) PROVE Q[SendQ(d)][i] \in Threads \ {t}
      <4>1. PICK q \in {SendQ(d), RecvQ(d)} : q = SendQ(d)
        OBVIOUS
      <4>2. PICK u \in Threads : u = Q[q][i]
        BY <4>1, AtPlace, <1>4 DEF Facts
      <4>3. on[u] = d /\ (pc[u] = "wait" \/ thrclosed[u])
        BY <4>1, <4>2, AtPlace, <1>4 DEF Facts
      <4>4. thrclosed[u] => closed[on[u]]
        BY <1>4 DEF Facts, Waiting, Told
      <4> QED BY <1>2, <2>2, <4>1, <4>2, <4>3, <4>4
    <3>2. \A i \in 1 .. Len(Q[SendQ(d)]) : ncall'[Q[SendQ(d)][i]] = ncall[Q[SendQ(d)][i]]
      BY <1>2, <3>1
    <3> QED BY <3>2 DEF Sent
  <2> QED BY <1>2, <1>5, <2>1, <2>2 DEF ViewOf
<1>12. Abs!Call(t, o, c)
  BY <1>7, <1>8, <1>9, <1>10, <1>11 DEF Start, chanVars, Abs!Call, Abs!Sends, Sends
<1>13. ASSUME NEW u \in Threads
       PROVE  /\ pc'[u] = "peekfull" /\ closed'[on'[u]] =>
                   pc[u] = "peekfull" /\ on'[u] = on[u] /\ (chan_full(on[u])' => chan_full(on[u]))
              /\ pc'[u] = "peekopen" /\ ~closed'[on'[u]] =>
                   \/ pc[u] = "peekopen" /\ ~closed[on[u]]
                   \/ chan_empty(on[u])'
  <2>1. CASE u = t
    BY <1>2, <2>1
  <2>2. CASE u # t
    BY <1>2, <2>2 DEF chan_full
  <2> QED BY <2>1, <2>2
<1>14. Abs!Note
  BY <1>4, <1>13, Noted
<1>15. Abs!Ops = Ops
  BY DEF Abs!Ops, Ops
<1> QED BY <1>1, <1>3, <1>12, <1>14, <1>15 DEF Abs!Next

\* The channel is closed, and the receivers that wait are cancelled.
LEMMA MarkIsClose ==
  ASSUME NEW Q \in [Queues -> Seq(Threads)], Before(Q), Inv', NEW t \in Threads, CloseMark(t)
  PROVE  Codes' /\ Waiting(Q)' /\ Holds(Q)' /\ Abs!Next
<1>1. Codes' /\ Waiting(Q)'
  BY CloseMarkKeeps DEF Before
<1>2. PICK c \in Chans : c = on[t]
  BY DEF CloseMark, Locking, Before, Inv, TypeOK
<1>3. /\ UNCHANGED <<qlen, recvx, buf, first, op, on, ncall, val, ret, cflag, elemptr>>
      /\ \A u \in Threads : QueueOf(u)' = QueueOf(u)
      /\ \A u \in Threads : u # t => pc'[u] = pc[u]
      /\ pc[t] = "lock" /\ pc'[t] = "closerecv" /\ op[t] = "close"
      /\ closed'[c] = TRUE /\ \A d \in Chans : d # c => closed'[d] = closed[d]
      /\ closed' = [closed EXCEPT ![c] = TRUE]
  BY <1>2 DEF CloseMark, Locking, closeUnchanged, waitVars, callVars, resVars, Goto, QueueOf, Before, Inv, TypeOK
<1>4. ~closed[c]
  BY <1>2, <1>3 DEF Before, Codes, OneCloser, Calling
<1>5. Holds(Q)'
  <2>1. ASSUME NEW u \in Threads
        PROVE  /\ pc'[u] # "idle" => ~cflag'[u] /\ ncall'[u] > 0
               /\ pc'[u] # "idle" /\ op'[u] \in Sends => val'[u] = <<u, ncall'[u]>>
               /\ pc'[u] \in {"wait", "woken"} =>
                    /\ In(Q[QueueOf(u)'], u) => elemptr'[u] = ncall'[u]
                    /\ op'[u] = "recv" /\ ~In(Q[QueueOf(u)'], u) => elemptr'[u] = 0
               /\ pc'[u] = "peekagain" => closed'[on'[u]]
    <3>1. CASE u # t
      <4>1. pc[u] = "peekagain" => on[u] \in Chans
        BY DEF Before, Inv, TypeOK
      <4> QED BY <1>3, <3>1, <4>1 DEF Before, Holds
    <3>2. CASE u = t
      BY <1>3, <3>2 DEF Before, Holds
    <3> QED BY <3>1, <3>2
  <2> QED BY <2>1 DEF Holds
<1>6. Facts(Q) /\ Facts(Q)' /\ InCode'
  BY <1>1, <1>5 DEF Facts, Codes, Before
<1>7. ViewOf(Q) /\ ViewOf(Q)'
  BY <1>6, View, ViewNext
<1>8. Len(Q[SendQ(c)]) = 0
  BY <1>1, <1>3 DEF Waiting, Walks
<1>9. ASSUME NEW u \in Threads
      PROVE  /\ u \in Asleep(Q)' <=> u \in Asleep(Q) /\ on[u] # c
             /\ u \in ToldOf(Q)' <=> u \in ToldOf(Q) \/ (u \in Asleep(Q) /\ on[u] = c)
             /\ u \in Asleep(Q) => pc[u] = "wait" /\ (on[u] = c => op[u] = "recv")
             /\ u \in Asleep(Q) => ~(u \in ToldOf(Q))
             /\ u \in ToldOf(Q) => on[u] # c
  <2>1. pc[u] \in {"wait", "woken"} => on[u] \in Chans /\ op[u] \in {"send", "recv"}
    BY DEF Before, Inv, TypeOK, Codes, InCode
  <2>2. u \in Asleep(Q) /\ on[u] = c => op[u] # "send"
    <3>1. ~In(Q[SendQ(c)], u)
      BY <1>8 DEF In
    <3>2. on[u] = c /\ op[u] = "send" => QueueOf(u) = SendQ(c)
      BY DEF QueueOf, SendQ
    <3> QED BY <3>1, <3>2 DEF Asleep
  <2>3. pc[u] = "woken" /\ In(Q[QueueOf(u)], u) => closed[on[u]]
    <3>1. pc[u] = "woken" => QueueOf(u) \in Queues
      BY <2>1 DEF QueueOf, Queues
    <3> QED BY <3>1 DEF Before, Waiting, Members, Told
  <2> QED BY <1>3, <1>4, <2>1, <2>2, <2>3 DEF Asleep, ToldOf
<1> DEFINE gone == {u \in Threads : on[u] = c /\ phaseBar[u] \in {"offered", "waiting"}}
<1>10. \A u \in Threads : /\ u \in gone <=> u \in Asleep(Q) /\ on[u] = c
                          /\ u \in gone => phaseBar[u] = "waiting"
  <2>1. phaseBar = [u \in Threads |->
       IF u \in Asleep(Q) THEN IF op[u] = "send" THEN "offered" ELSE "waiting"
       ELSE IF pc[u] \in {"idle", "signal", "closerecv", "closesend", "wait", "woken"} THEN "idle"
       ELSE "called"]
    BY <1>7 DEF ViewOf
  <2> QED BY <1>9, <2>1
<1> HIDE DEF gone
<1>11. phaseBar[t] = "called" /\ t \notin Asleep(Q) /\ t \notin ToldOf(Q)
  BY <1>3, <1>7 DEF ViewOf, Asleep, ToldOf
<1>12. phaseBar' = [u \in Threads |-> IF u \in gone \cup {t} THEN "idle" ELSE phaseBar[u]]
  BY <1>3, <1>7, <1>9, <1>10, <1>11 DEF ViewOf
<1>13. retBar' = [u \in Threads |-> IF u \in gone THEN FALSE ELSE retBar[u]]
  <2>1. retBar' = [u \in Threads |->
           IF pc'[u] = "signal" \/ (pc'[u] \in {"wait", "woken"} /\ u \notin Asleep(Q)')
           THEN IF u \in ToldOf(Q)' THEN FALSE ELSE TRUE ELSE ret'[u]]
    BY <1>7 DEF ViewOf
  <2>2. retBar = [u \in Threads |->
           IF pc[u] = "signal" \/ (pc[u] \in {"wait", "woken"} /\ u \notin Asleep(Q))
           THEN IF u \in ToldOf(Q) THEN FALSE ELSE TRUE ELSE ret[u]]
    BY <1>7 DEF ViewOf
  <2>3. ASSUME NEW u \in Threads PROVE retBar'[u] = IF u \in gone THEN FALSE ELSE retBar[u]
    BY <1>3, <1>9, <1>10, <1>11, <2>1, <2>2
  <2> QED BY <2>1, <2>3
<1>14. valBar' = [u \in Threads |-> IF u \in gone /\ phaseBar[u] = "waiting" THEN Zero ELSE valBar[u]]
  BY <1>3, <1>7, <1>9, <1>10, <1>11 DEF ViewOf
<1>15. lineBar' = [lineBar EXCEPT ![c] = <<>>]
  BY <1>3, <1>7 DEF ViewOf
<1>16. pendBar' = pendBar
  <2>1. \A d \in Chans : Buffered(d)' = Buffered(d) /\ Sent(Q[SendQ(d)])' = Sent(Q[SendQ(d)])
    BY <1>3 DEF Buffered, Sent
  <2>2. pendBar = [d \in Chans |-> IF closed[d] THEN Buffered(d) ELSE Buffered(d) \o Sent(Q[SendQ(d)])]
    BY <1>7 DEF ViewOf
  <2>3. pendBar' = [d \in Chans |-> IF closed'[d] THEN Buffered(d) ELSE Buffered(d) \o Sent(Q[SendQ(d)])]
    BY <1>7, <2>1 DEF ViewOf
  <2>4. Buffered(c) = Buffered(c) \o Sent(Q[SendQ(c)])
    <3>1. /\ Buffered(c) \in Seq(Values) /\ Sent(Q[SendQ(c)]) \in Seq(Values)
          /\ Len(Sent(Q[SendQ(c)])) = Len(Q[SendQ(c)])
      BY <1>6, LenOfPend
    <3>2. Sent(Q[SendQ(c)]) = <<>>
      BY <1>8, <3>1
    <3>3. \A s \in Seq(Values) : s \o <<>> = s
      OBVIOUS
    <3> QED BY <3>1, <3>2, <3>3
  <2> QED BY <1>3, <2>2, <2>3, <2>4
<1>17. SubSeq(pendBar[c], 1, IF Len(pendBar[c]) < Cap[c] THEN Len(pendBar[c]) ELSE Cap[c]) = pendBar[c]
  <2>1. pendBar[c] \in Seq(Values) /\ Len(pendBar[c]) = qlen[c] + (IF closed[c] THEN 0 ELSE Len(Q[SendQ(c)]))
        /\ qlen[c] \in 0 .. Cap[c] /\ Cap[c] \in Nat
    BY <1>6, LenOfPend
  <2>2. Len(pendBar[c]) <= Cap[c] /\ Len(pendBar[c]) \in Nat
    BY <1>8, <2>1
  <2>3. (IF Len(pendBar[c]) < Cap[c] THEN Len(pendBar[c]) ELSE Cap[c]) = Len(pendBar[c])
    BY <2>1, <2>2
  <2>4. \A s \in Seq(Values) : SubSeq(s, 1, Len(s)) = s
    OBVIOUS
  <2> QED BY <2>1, <2>3, <2>4
<1>18. pendBar' = [pendBar EXCEPT ![c] = SubSeq(@, 1, IF Len(@) < Cap[c] THEN Len(@) ELSE Cap[c])]
  <2>1. pendBar = [d \in Chans |-> pendBar[d]]
    BY DEF pendBar
  <2> QED BY <1>16, <1>17, <2>1
<1>19. Abs!Close(t)
  BY <1>2, <1>3, <1>4, <1>11, <1>12, <1>13, <1>14, <1>15, <1>18
     DEF Abs!Close, Abs!Called, Abs!callVars, gone
<1>20. ASSUME NEW u \in Threads
       PROVE  /\ pc'[u] = "peekfull" /\ closed'[on'[u]] =>
                   pc[u] = "peekfull" /\ on'[u] = on[u] /\ (chan_full(on[u])' => chan_full(on[u]))
              /\ pc'[u] = "peekopen" /\ ~closed'[on'[u]] =>
                   \/ pc[u] = "peekopen" /\ ~closed[on[u]]
                   \/ chan_empty(on[u])'
  <2>1. pc'[u] \in {"peekfull", "peekopen"} => u # t /\ on[u] \in Chans
    BY <1>3 DEF Before, Inv, TypeOK
  <2> QED BY <1>3, <2>1 DEF chan_full
<1>21. Abs!Note
  BY <1>6, <1>20, Noted
<1> QED BY <1>1, <1>5, <1>19, <1>21 DEF Abs!Next

-----------------------------------------------------------------------------
(* A thread gets in line.                                                  *)

\* Who is in a list that grew by one.
LEMMA InAppend ==
  ASSUME NEW L \in Seq(Threads), NEW t \in Threads, NEW u \in Threads
  PROVE  In(Append(L, t), u) <=> In(L, u) \/ u = t
<1> DEFINE M == Append(L, t)
<1>1. /\ Len(L) \in Nat /\ Len(M) = Len(L) + 1 /\ M[Len(L) + 1] = t
      /\ \A i \in 1 .. Len(L) : M[i] = L[i]
  OBVIOUS
<1> HIDE DEF M
<1>2. \A i \in 1 .. Len(M) : i \in 1 .. Len(L) \/ i = Len(L) + 1
  BY <1>1
<1>3. Len(L) + 1 \in 1 .. Len(M) /\ \A i \in 1 .. Len(L) : i \in 1 .. Len(M)
  BY <1>1
<1>4. In(M, u) <=> In(L, u) \/ u = t
  BY <1>1, <1>2, <1>3 DEF In
<1> QED BY <1>4 DEF M

\* The abstract state before and after t got in line.
Parks(Q, R, t) ==
  /\ R \in [Queues -> Seq(Threads)] /\ Codes' /\ Waiting(R)' /\ Holds(R)'
  /\ Facts(Q) /\ Facts(R)'
  /\ phaseBar[t] = "called" /\ retBar' = retBar /\ valBar' = valBar /\ valBar[t] = val[t]
  /\ phaseBar' = [phaseBar EXCEPT ![t] = IF op[t] = "send" THEN "offered" ELSE "waiting"]
  /\ lineBar = [d \in Chans |-> IF closed[d] THEN <<>> ELSE Q[RecvQ(d)]]
  /\ lineBar' = [d \in Chans |-> IF closed[d] THEN <<>> ELSE R[RecvQ(d)]]
  /\ pendBar = [d \in Chans |-> IF closed[d] THEN Buffered(d) ELSE Buffered(d) \o Sent(Q[SendQ(d)])]
  /\ pendBar' = [d \in Chans |-> IF closed[d] THEN Buffered(d) ELSE Buffered(d) \o Sent(R[SendQ(d)])]
  /\ Abs!Note

\* What a parked thread is in the abstract.
LEMMA ParkView ==
  ASSUME NEW Q \in [Queues -> Seq(Threads)], Before(Q), Inv', NEW t \in Threads,
         NEW c \in Chans, c = on[t], NEW q \in {SendQ(c), RecvQ(c)}, q = QueueOf(t),
         NEW R, R = [Q EXCEPT ![q] = Append(@, t)],
         pc[t] = "lock", op[t] \in {"send", "recv"}, lock[c] = NULL, ~closed[c], Park(t, q)
  PROVE  Parks(Q, R, t)
<1>0. q \in Queues /\ Q[q] \in Seq(Threads)
  BY QueueOfChan
<1>1. R \in [Queues -> Seq(Threads)] /\ R[q] = Append(Q[q], t) /\ \A p \in Queues : p # q => R[p] = Q[p]
  BY <1>0
<1>2. /\ UNCHANGED <<closed, qlen, recvx, buf, op, on, ncall, val, ret, cflag>>
      /\ \A u \in Threads : QueueOf(u)' = QueueOf(u)
      /\ \A u \in Threads : u # t => pc'[u] = pc[u] /\ elemptr'[u] = elemptr[u]
      /\ pc'[t] = "wait" /\ elemptr'[t] = ncall[t]
      /\ \A p \in Queues : p # q => first'[p] = first[p]
  BY <1>0 DEF Park, Enqueue, chanVars, callVars, resVars, Goto, QueueOf, Before, Inv, TypeOK
<1>3. Codes' /\ Waiting(R)'
  BY SleepKeeps DEF Park, chanVars, callVars, Before
<1>4. \A u \in Threads, p \in Queues : p = QueueOf(u) => (In(R[p], u) <=> In(Q[p], u) \/ u = t)
  BY <1>0, <1>1, InAppend
<1>5. \A u \in Threads : pc[u] \in {"wait", "woken"} \/ u = t => QueueOf(u) \in Queues
  BY DEF Before, Inv, TypeOK, QueueOf, Queues
<1>6. Holds(R)'
  <2>1. ASSUME NEW u \in Threads
        PROVE  /\ pc'[u] # "idle" => ~cflag'[u] /\ ncall'[u] > 0
               /\ pc'[u] # "idle" /\ op'[u] \in Sends => val'[u] = <<u, ncall'[u]>>
               /\ pc'[u] \in {"wait", "woken"} =>
                    /\ In(R[QueueOf(u)'], u) => elemptr'[u] = ncall'[u]
                    /\ op'[u] = "recv" /\ ~In(R[QueueOf(u)'], u) => elemptr'[u] = 0
               /\ pc'[u] = "peekagain" => closed'[on'[u]]
    <3>1. CASE u # t
      BY <1>2, <1>4, <1>5, <3>1 DEF Before, Holds
    <3>2. CASE u = t
      BY <1>2, <1>4, <1>5, <3>2 DEF Before, Holds
    <3> QED BY <3>1, <3>2
  <2> QED BY <2>1 DEF Holds
<1>7. Facts(Q) /\ Facts(R)' /\ InCode'
  BY <1>3, <1>6 DEF Facts, Codes, Before
<1>8. ViewOf(Q) /\ ViewOf(R)'
  BY <1>1, <1>7, View, ViewNext
<1>9. ASSUME NEW u \in Threads
      PROVE  /\ u \in Asleep(R)' <=> u \in Asleep(Q) \/ u = t
             /\ u \in ToldOf(R)' <=> u \in ToldOf(Q)
  <2>1. CASE u # t
    BY <1>2, <1>4, <1>5, <2>1 DEF Asleep, ToldOf
  <2>2. CASE u = t
    BY <1>2, <1>4, <1>5, <2>2 DEF Asleep, ToldOf
  <2> QED BY <2>1, <2>2
<1>10. t \notin Asleep(Q) /\ t \notin ToldOf(Q)
  BY DEF Asleep, ToldOf
<1>11. phaseBar[t] = "called" /\
       phaseBar' = [phaseBar EXCEPT ![t] = IF op[t] = "send" THEN "offered" ELSE "waiting"]
  BY <1>2, <1>8, <1>9, <1>10 DEF ViewOf
<1>12. retBar' = retBar
  <2>1. retBar' = [u \in Threads |->
           IF pc'[u] = "signal" \/ (pc'[u] \in {"wait", "woken"} /\ u \notin Asleep(R)')
           THEN IF u \in ToldOf(R)' THEN FALSE ELSE TRUE ELSE ret'[u]]
    BY <1>8 DEF ViewOf
  <2>2. retBar = [u \in Threads |->
           IF pc[u] = "signal" \/ (pc[u] \in {"wait", "woken"} /\ u \notin Asleep(Q))
           THEN IF u \in ToldOf(Q) THEN FALSE ELSE TRUE ELSE ret[u]]
    BY <1>8 DEF ViewOf
  <2>3. \A u \in Threads : retBar'[u] = retBar[u]
    BY <1>2, <1>9, <1>10, <2>1, <2>2
  <2> QED BY <2>1, <2>2, <2>3
<1>13. valBar' = valBar /\ valBar[t] = val[t]
  BY <1>2, <1>8, <1>9, <1>10 DEF ViewOf
<1>14. /\ lineBar = [d \in Chans |-> IF closed[d] THEN <<>> ELSE Q[RecvQ(d)]]
       /\ lineBar' = [d \in Chans |-> IF closed[d] THEN <<>> ELSE R[RecvQ(d)]]
  BY <1>2, <1>8 DEF ViewOf
<1>15. ASSUME NEW u \in Threads
       PROVE  /\ pc'[u] = "peekfull" /\ closed'[on'[u]] =>
                   pc[u] = "peekfull" /\ on'[u] = on[u] /\ (chan_full(on[u])' => chan_full(on[u]))
              /\ pc'[u] = "peekopen" /\ ~closed'[on'[u]] =>
                   \/ pc[u] = "peekopen" /\ ~closed[on[u]]
                   \/ chan_empty(on[u])'
  <2>1. pc'[u] \in {"peekfull", "peekopen"} => u # t /\ on[u] \in Chans
    BY <1>2 DEF Before, Inv, TypeOK
  <2>2. ASSUME NEW d \in Chans, d = on[u], closed[d] PROVE first'[RecvQ(d)] = first[RecvQ(d)]
    <3>1. RecvQ(d) \in Queues /\ RecvQ(d) # q
      BY <2>2, QueuesDiffer, QueueOfChan
    <3> QED BY <1>2, <3>1
  <2> QED BY <1>2, <2>1, <2>2 DEF chan_full
<1>16. Abs!Note
  BY <1>1, <1>7, <1>15, Noted
<1>17. /\ pendBar = [d \in Chans |-> IF closed[d] THEN Buffered(d) ELSE Buffered(d) \o Sent(Q[SendQ(d)])]
       /\ pendBar' = [d \in Chans |-> IF closed[d] THEN Buffered(d) ELSE Buffered(d) \o Sent(R[SendQ(d)])]
  <2>1. \A d \in Chans : Sent(R[SendQ(d)])' = Sent(R[SendQ(d)])
    BY <1>2 DEF Sent
  <2>2. \A d \in Chans : Buffered(d)' = Buffered(d)
    BY <1>2 DEF Buffered
  <2>3. pendBar' = [d \in Chans |-> IF closed'[d] THEN Buffered(d)' ELSE Buffered(d)' \o Sent(R[SendQ(d)])']
    BY <1>8 DEF ViewOf
  <2> QED BY <1>2, <1>8, <2>1, <2>2, <2>3 DEF ViewOf
<1> QED BY <1>1, <1>3, <1>6, <1>7, <1>11, <1>12, <1>13, <1>14, <1>16, <1>17 DEF Parks

\* A receiver gets in line.
LEMMA ParkIsLine ==
  ASSUME NEW Q \in [Queues -> Seq(Threads)], Before(Q), Inv', NEW t \in Threads, RecvPark(t)
  PROVE  RefInv' /\ Abs!Next
<1>1. PICK c \in Chans : c = on[t]
  BY DEF RecvPark, Locking, Before, Inv, TypeOK
<1>2. PICK q \in {SendQ(c), RecvQ(c)} : q = RecvQ(c)
  OBVIOUS
<1>3. PICK R : R = [Q EXCEPT ![q] = Append(@, t)]
  OBVIOUS
<1>4. /\ pc[t] = "lock" /\ op[t] = "recv" /\ lock[c] = NULL /\ ~closed[c]
      /\ Park(t, q) /\ q = QueueOf(t) /\ first[SendQ(c)] = NULL /\ qlen[c] = 0
  BY <1>1, <1>2 DEF RecvPark, Locking, NoMessage, QueueOf, RecvQ
<1>5. /\ R \in [Queues -> Seq(Threads)] /\ Codes' /\ Waiting(R)' /\ Holds(R)'
      /\ Facts(Q) /\ Facts(R)'
      /\ phaseBar[t] = "called" /\ retBar' = retBar /\ valBar' = valBar
      /\ phaseBar' = [phaseBar EXCEPT ![t] = "waiting"]
      /\ lineBar = [d \in Chans |-> IF closed[d] THEN <<>> ELSE Q[RecvQ(d)]]
      /\ lineBar' = [d \in Chans |-> IF closed[d] THEN <<>> ELSE R[RecvQ(d)]]
      /\ pendBar = [d \in Chans |-> IF closed[d] THEN Buffered(d) ELSE Buffered(d) \o Sent(Q[SendQ(d)])]
      /\ pendBar' = [d \in Chans |-> IF closed[d] THEN Buffered(d) ELSE Buffered(d) \o Sent(R[SendQ(d)])]
      /\ Abs!Note
  <2>1. op[t] \in {"send", "recv"} /\ ~(op[t] = "send")
    BY <1>4
  <2>2. q = QueueOf(t) /\ c = on[t] /\ pc[t] = "lock" /\ lock[c] = NULL /\ ~closed[c] /\ Park(t, q)
    BY <1>1, <1>4
  <2>3. Parks(Q, R, t)
    BY <1>3, <2>1, <2>2, ParkView
  <2> QED BY <2>1, <2>3, <1>4 DEF Parks
<1>6. /\ UNCHANGED <<closed, qlen, recvx, buf, op, on, ncall, cflag>>
  BY <1>4 DEF Park, chanVars, callVars, resVars
<1>7. \A d \in Chans : /\ R[RecvQ(d)] = (IF d = c THEN Append(Q[RecvQ(d)], t) ELSE Q[RecvQ(d)])
                       /\ R[SendQ(d)] = Q[SendQ(d)]
  BY <1>2, <1>3, QueuesDiffer, QueueOfChan
<1>8. lineBar' = [lineBar EXCEPT ![c] = Append(@, t)]
  BY <1>4, <1>5, <1>7
<1>9. pendBar' = pendBar /\ pendBar[c] = <<>>
  <2>1. pendBar[c] = Buffered(c) /\ Buffered(c) \in Seq(Values) /\ Len(Buffered(c)) = 0
    BY <1>4, <1>5, OnlyBuffered
  <2>2. pendBar' = pendBar
    BY <1>5, <1>7
  <2> QED BY <2>1, <2>2
<1>10. Abs!Line(t)
  BY <1>1, <1>4, <1>5, <1>6, <1>8, <1>9 DEF Abs!Line, Abs!Called, Abs!callVars
<1>11. Abs!Next
  BY <1>5, <1>10 DEF Abs!Next
<1>12. RefInv'
  BY <1>5 DEF RefInv
<1> QED BY <1>11, <1>12

\* A sender offers its message.
LEMMA ParkIsOffer ==
  ASSUME NEW Q \in [Queues -> Seq(Threads)], Before(Q), Inv', NEW t \in Threads, SendPark(t)
  PROVE  RefInv' /\ Abs!Next
<1>1. PICK c \in Chans : c = on[t]
  BY DEF SendPark, Locking, Before, Inv, TypeOK
<1>2. PICK q \in {SendQ(c), RecvQ(c)} : q = SendQ(c)
  OBVIOUS
<1>3. PICK R : R = [Q EXCEPT ![q] = Append(@, t)]
  OBVIOUS
<1>4. /\ pc[t] = "lock" /\ op[t] = "send" /\ lock[c] = NULL /\ ~closed[c]
      /\ Park(t, q) /\ q = QueueOf(t) /\ first[RecvQ(c)] = NULL /\ qlen[c] >= Cap[c]
  BY <1>1, <1>2 DEF SendPark, Locking, NoRoom, QueueOf, SendQ
<1>5. /\ R \in [Queues -> Seq(Threads)] /\ Codes' /\ Waiting(R)' /\ Holds(R)'
      /\ Facts(Q) /\ Facts(R)'
      /\ phaseBar[t] = "called" /\ retBar' = retBar /\ valBar' = valBar /\ valBar[t] = val[t]
      /\ phaseBar' = [phaseBar EXCEPT ![t] = "offered"]
      /\ lineBar = [d \in Chans |-> IF closed[d] THEN <<>> ELSE Q[RecvQ(d)]]
      /\ lineBar' = [d \in Chans |-> IF closed[d] THEN <<>> ELSE R[RecvQ(d)]]
      /\ pendBar = [d \in Chans |-> IF closed[d] THEN Buffered(d) ELSE Buffered(d) \o Sent(Q[SendQ(d)])]
      /\ pendBar' = [d \in Chans |-> IF closed[d] THEN Buffered(d) ELSE Buffered(d) \o Sent(R[SendQ(d)])]
      /\ Abs!Note
  <2>1. op[t] \in {"send", "recv"}
    BY <1>4
  <2>2. q = QueueOf(t) /\ c = on[t] /\ pc[t] = "lock" /\ lock[c] = NULL /\ ~closed[c] /\ Park(t, q)
    BY <1>1, <1>4
  <2>3. Parks(Q, R, t)
    BY <1>3, <2>1, <2>2, ParkView
  <2> QED BY <2>1, <2>3, <1>4 DEF Parks
<1>6. UNCHANGED <<closed, qlen, recvx, buf, op, on, ncall, cflag>>
  BY <1>4 DEF Park, chanVars, callVars, resVars
<1>7. \A d \in Chans : /\ R[SendQ(d)] = (IF d = c THEN Append(Q[SendQ(d)], t) ELSE Q[SendQ(d)])
                       /\ R[RecvQ(d)] = Q[RecvQ(d)]
  BY <1>2, <1>3, QueuesDiffer, QueueOfChan
<1>8. lineBar' = lineBar /\ lineBar[c] = <<>>
  <2>1. Q[RecvQ(c)] \in Seq(Threads) /\ Len(Q[RecvQ(c)]) = 0
    BY <1>4, <1>5, LenOfPend
  <2> QED BY <1>5, <1>7, <2>1
<1>9. pendBar' = [pendBar EXCEPT ![c] = Append(@, val[t])] /\ Len(pendBar[c]) >= Cap[c]
  <2>2. /\ pendBar' = [pendBar EXCEPT ![c] = pendBar'[c]]
        /\ pendBar[c] = Buffered(c) \o Sent(Q[SendQ(c)])
        /\ pendBar'[c] = Buffered(c) \o Sent(R[SendQ(c)])
    BY <1>4, <1>5, <1>7
  <2>3. /\ Buffered(c) \in Seq(Values) /\ Sent(Q[SendQ(c)]) \in Seq(Values)
        /\ Q[SendQ(c)] \in Seq(Threads)
        /\ Len(pendBar[c]) = qlen[c] + (IF closed[c] THEN 0 ELSE Len(Q[SendQ(c)]))
        /\ qlen[c] \in 0 .. Cap[c] /\ Cap[c] \in Nat
    BY <1>5, LenOfPend
  <2>4. val[t] = <<t, ncall[t]>> /\ val[t] \in Values
    BY <1>4 DEF Before, Holds, Sends, Inv, TypeOK
  <2>5. Sent(Append(Q[SendQ(c)], t)) = Append(Sent(Q[SendQ(c)]), val[t])
    <3> DEFINE L == Q[SendQ(c)]
               M == Append(L, t)
    <3>1. /\ Len(L) \in Nat /\ Len(M) = Len(L) + 1 /\ M[Len(L) + 1] = t /\ M \in Seq(Threads)
          /\ \A i \in 1 .. Len(L) : M[i] = L[i]
      BY <2>3
    <3> HIDE DEF M
    <3>2. TypeOK
      BY DEF Before, Inv
    <3>3. /\ Len(Sent(L)) = Len(L) /\ Sent(L) \in Seq(Values)
          /\ \A i \in 1 .. Len(L) : Sent(L)[i] = <<L[i], ncall[L[i]]>>
      BY <2>3, <3>2, SentIs
    <3>4. /\ Len(Sent(M)) = Len(M) /\ Sent(M) \in Seq(Values)
          /\ \A i \in 1 .. Len(M) : Sent(M)[i] = <<M[i], ncall[M[i]]>>
      BY <3>1, <3>2, SentIs
    <3> HIDE DEF L
    <3> DEFINE s == Sent(L)
               u == Sent(M)
    <3>5. ASSUME NEW i \in 1 .. Len(L) PROVE u[i] = s[i]
      <4>1. i \in 1 .. Len(M)
        BY <3>1
      <4> QED BY <3>1, <3>3, <3>4, <4>1
    <3>6. u[Len(L) + 1] = val[t]
      BY <2>4, <3>1, <3>4
    <3>7. s \in Seq(Values) /\ u \in Seq(Values) /\ Len(s) = Len(L) /\ Len(u) = Len(L) + 1
      BY <3>1, <3>3, <3>4
    <3> HIDE DEF s, u
    <3>8. u = Append(s, val[t])
      BY <2>4, <3>1, <3>5, <3>6, <3>7
    <3> QED BY <3>8 DEF s, u, L, M
  <2>6. pendBar'[c] = Append(pendBar[c], val[t])
    <3>1. \A s, u \in Seq(Values), v \in Values : s \o Append(u, v) = Append(s \o u, v)
      OBVIOUS
    <3>2. pendBar'[c] = Buffered(c) \o Append(Sent(Q[SendQ(c)]), val[t])
      BY <1>7, <2>2, <2>5
    <3>3. pendBar[c] = Buffered(c) \o Sent(Q[SendQ(c)])
      BY <2>2
    <3>4. /\ Buffered(c) \in Seq(Values) /\ Sent(Q[SendQ(c)]) \in Seq(Values) /\ val[t] \in Values
      BY <2>3, <2>4
    <3>5. Buffered(c) \o Append(Sent(Q[SendQ(c)]), val[t]) = Append(Buffered(c) \o Sent(Q[SendQ(c)]), val[t])
      BY <3>1, <3>4
    <3> QED BY <3>2, <3>3, <3>5
  <2>7. Len(pendBar[c]) >= Cap[c]
    <3>1. Len(Q[SendQ(c)]) \in Nat
      BY <2>3
    <3> QED BY <1>4, <2>3, <3>1
  <2> QED BY <2>2, <2>6, <2>7
<1>10. Abs!Offer(t)
  BY <1>1, <1>4, <1>5, <1>6, <1>8, <1>9 DEF Abs!Offer, Abs!Called, Abs!callVars
<1>11. Abs!Next
  BY <1>5, <1>10 DEF Abs!Next
<1>12. RefInv'
  BY <1>5 DEF RefInv
<1> QED BY <1>11, <1>12

-----------------------------------------------------------------------------
(* A thread hands its message to one that waits, or takes that one's.      *)

\* What t and r had lent changes only if one of them receives.
Lent(t, r) ==
  \A u \in Threads :
    /\ u # r => elemptr'[u] = elemptr[u]
    /\ u # t /\ u # r => val'[u] = val[u]
    /\ op[u] \in Sends => val'[u] = val[u]
    /\ op[u] = "recv" /\ u = r => elemptr'[u] = 0

\* What changes for t, and for r, which is taken off the list of q.
Handing(t, r, c, q) ==
  /\ c = on[t] /\ r = first[q] /\ r # NULL
  /\ pc[t] = "lock" /\ op[t] \in Sends \cup Recvs /\ lock[c] = NULL /\ ~closed[c]
  /\ Dequeue(q) /\ Goto(t, "signal") /\ peer' = [peer EXCEPT ![t] = r]
  /\ UNCHANGED <<closed, lock, thrclosed, sema, op, on, ncall, ret, cflag, qlen>>
  /\ Lent(t, r)

\* The abstract state before and after.
Hands(Q, R, t, r, c, q) ==
  /\ R \in [Queues -> Seq(Threads)] /\ Codes' /\ Waiting(R)' /\ Holds(R)'
  /\ Facts(Q) /\ Facts(R)'
  /\ r \in Threads /\ r # t /\ Q[q] \in Seq(Threads) /\ Len(Q[q]) > 0 /\ Q[q][1] = r
  /\ R[q] = Tail(Q[q]) /\ \A p \in Queues : p # q => R[p] = Q[p]
  /\ pc[r] = "wait" /\ QueueOf(r) = q /\ elemptr[r] = ncall[r] /\ ncall[r] \in Nat \ {0}
  /\ phaseBar[t] = "called"
  /\ phaseBar' = [u \in Threads |-> IF u \in {t, r} THEN "idle" ELSE phaseBar[u]]
  /\ retBar' = [u \in Threads |-> IF u \in {t, r} THEN TRUE ELSE retBar[u]]
  /\ valBar' = [u \in Threads |-> IF u \in {t, r} THEN val'[u] ELSE valBar[u]]
  /\ valBar[t] = val[t] /\ valBar[r] = val[r]
  /\ lineBar = [d \in Chans |-> IF closed[d] THEN <<>> ELSE Q[RecvQ(d)]]
  /\ lineBar' = [d \in Chans |-> IF closed[d] THEN <<>> ELSE R[RecvQ(d)]]
  /\ pendBar = [d \in Chans |-> IF closed[d] THEN Buffered(d) ELSE Buffered(d) \o Sent(Q[SendQ(d)])]
  /\ pendBar' = [d \in Chans |-> IF closed[d] THEN Buffered(d)' ELSE Buffered(d)' \o Sent(R[SendQ(d)])]
  /\ Abs!Note

\* The first thread of a list, on an open channel.
LEMMA FirstOfList ==
  ASSUME NEW Q \in [Queues -> Seq(Threads)], Before(Q),
         NEW c \in Chans, NEW q \in {SendQ(c), RecvQ(c)}, NEW r, r = first[q], r # NULL, ~closed[c]
  PROVE  /\ Len(Q[q]) > 0 /\ Q[q][1] = r /\ r \in Threads /\ Without(Tail(Q[q]), Q[q], r)
         /\ pc[r] = "wait" /\ QueueOf(r) = q /\ on[r] = c /\ In(Q[q], r)
         /\ op[r] = (IF q = SendQ(c) THEN "send" ELSE "recv")
         /\ elemptr[r] = ncall[r] /\ ncall[r] \in Nat \ {0}
<1>0. q \in Queues /\ Q[q] \in Seq(Threads)
  BY QueueOfChan
<1>1. /\ Len(Q[q]) > 0 /\ Q[q][1] = r /\ r \in Threads /\ Without(Tail(Q[q]), Q[q], r)
  <2>1. Chained(Q[q], r, next) /\ Distinct(Q[q]) /\ next \in [Threads -> Threads \cup {NULL}]
    BY <1>0 DEF Before, Waiting, Lists, Inv, TypeOK
  <2>2. PICK L, nx : L = Q[q] /\ nx = next
    OBVIOUS
  <2>3. Len(L) > 0 /\ L[1] = r /\ r \in Threads /\ Without(Tail(L), L, r)
    BY <2>1, <2>2, Unlink
  <2> QED BY <2>2, <2>3
<1>2. pc[r] = "wait" /\ QueueOf(r) = q /\ on[r] = c /\ In(Q[q], r)
  <2>1. Waiting(Q) /\ 1 \in 1 .. Len(Q[q])
    BY <1>0, <1>1 DEF Before
  <2>2. In(Q[q], r) /\ QueueOf(r) = q /\ on[r] = c /\ (pc[r] = "wait" \/ thrclosed[r])
    BY <1>1, <2>1, AtPlace
  <2>3. ~thrclosed[r]
    BY <1>1, <2>2 DEF Before, Waiting, Told
  <2> QED BY <2>2, <2>3
<1>3. op[r] = (IF q = SendQ(c) THEN "send" ELSE "recv")
  BY <1>1, <1>2 DEF QueueOf, SendQ, RecvQ, Before, Codes, InCode
<1>4. elemptr[r] = ncall[r]
  BY <1>1, <1>2 DEF Before, Holds
<1>5. ncall[r] \in Nat /\ ncall[r] > 0
  BY <1>1, <1>2 DEF Before, Holds, Inv, TypeOK
<1> QED BY <1>1, <1>2, <1>3, <1>4, <1>5

\* Both are done in the abstract at once, though they have still to return.
LEMMA HandView ==
  ASSUME NEW Q \in [Queues -> Seq(Threads)], Before(Q), Inv', NEW t \in Threads,
         NEW c \in Chans, NEW q \in {SendQ(c), RecvQ(c)}, NEW r, Handing(t, r, c, q),
         NEW R, R = [Q EXCEPT ![q] = Tail(@)]
  PROVE  Hands(Q, R, t, r, c, q)
<1>0. q \in Queues /\ Q[q] \in Seq(Threads)
  BY QueueOfChan
<1>1. Codes' /\ Waiting(R)'
  <2>1. /\ c = on[t] /\ r = first[q] /\ r # NULL
        /\ pc[t] = "lock" /\ op[t] # "close" /\ lock[c] = NULL /\ ~closed[c]
        /\ Dequeue(q) /\ Goto(t, "signal") /\ peer' = [peer EXCEPT ![t] = r]
        /\ UNCHANGED <<closed, lock, thrclosed, sema, op, on>>
    BY DEF Handing, Sends, Recvs
  <2>2. Inv /\ Codes /\ Waiting(Q)
    BY DEF Before
  <2> QED BY <2>1, <2>2, HandKeeps
<1>2. /\ Len(Q[q]) > 0 /\ Q[q][1] = r /\ r \in Threads /\ Without(Tail(Q[q]), Q[q], r)
      /\ pc[r] = "wait" /\ QueueOf(r) = q /\ on[r] = c /\ In(Q[q], r)
      /\ elemptr[r] = ncall[r] /\ ncall[r] \in Nat \ {0}
  <2>1. r = first[q] /\ r # NULL /\ ~closed[c]
    BY DEF Handing
  <2> QED BY <2>1, FirstOfList
<1>3. R \in [Queues -> Seq(Threads)] /\ R[q] = Tail(Q[q]) /\ \A p \in Queues : p # q => R[p] = Q[p]
  BY <1>0, <1>2
<1>4. pc[r] = "wait" /\ QueueOf(r) = q /\ on[r] = c /\ In(Q[q], r) /\ ~In(R[q], r) /\ r # t
  BY <1>2, <1>3 DEF Without, Handing
<1>5. /\ UNCHANGED <<closed, qlen, op, on, ncall, ret, cflag>>
      /\ pc[t] = "lock" /\ op[t] \in Sends \cup Recvs /\ ~closed[c] /\ on[t] = c
      /\ \A u \in Threads : QueueOf(u)' = QueueOf(u)
      /\ \A u \in Threads : u # t => pc'[u] = pc[u]
      /\ pc'[t] = "signal"
      /\ \A p \in Queues : p # q => first'[p] = first[p]
  BY <1>0 DEF Handing, Dequeue, Goto, QueueOf, Before, Inv, TypeOK
<1>6. \A u \in Threads, p \in Queues : u # r => (In(R[p], u) <=> In(Q[p], u))
  BY <1>0, <1>2, <1>3 DEF Without
<1>7. \A u \in Threads : pc[u] \in {"wait", "woken"} => QueueOf(u) \in Queues
  BY DEF Before, Inv, TypeOK, QueueOf, Queues
<1>8. Holds(R)'
  <2>1. ASSUME NEW u \in Threads
        PROVE  /\ pc'[u] # "idle" => ~cflag'[u] /\ ncall'[u] > 0
               /\ pc'[u] # "idle" /\ op'[u] \in Sends => val'[u] = <<u, ncall'[u]>>
               /\ pc'[u] \in {"wait", "woken"} =>
                    /\ In(R[QueueOf(u)'], u) => elemptr'[u] = ncall'[u]
                    /\ op'[u] = "recv" /\ ~In(R[QueueOf(u)'], u) => elemptr'[u] = 0
               /\ pc'[u] = "peekagain" => closed'[on'[u]]
    <3>1. CASE u # t /\ u # r
      BY <1>5, <1>6, <1>7, <3>1 DEF Before, Holds, Handing, Lent
    <3>2. CASE u = t
      BY <1>5, <3>2 DEF Before, Holds, Handing, Lent
    <3>3. CASE u = r
      BY <1>4, <1>5, <3>3 DEF Before, Holds, Handing, Lent
    <3> QED BY <3>1, <3>2, <3>3
  <2> QED BY <2>1 DEF Holds
<1>9. Facts(Q) /\ Facts(R)' /\ InCode'
  BY <1>1, <1>8 DEF Facts, Codes, Before
<1>10. ViewOf(Q) /\ ViewOf(R)'
  BY <1>3, <1>9, View, ViewNext
<1>11. ASSUME NEW u \in Threads
       PROVE  /\ u \in Asleep(R)' <=> u \in Asleep(Q) /\ u # r
              /\ u \in ToldOf(R)' <=> u \in ToldOf(Q)
  <2>1. CASE u # t /\ u # r
    BY <1>5, <1>6, <1>7, <2>1 DEF Asleep, ToldOf
  <2>2. CASE u = t
    BY <1>4, <1>5, <2>2 DEF Asleep, ToldOf
  <2>3. CASE u = r
    BY <1>4, <1>5, <2>3 DEF Asleep, ToldOf
  <2> QED BY <2>1, <2>2, <2>3
<1>12. t \notin Asleep(Q) /\ t \notin ToldOf(Q) /\ r \in Asleep(Q) /\ r \notin ToldOf(Q)
  BY <1>2, <1>4, <1>5 DEF Asleep, ToldOf
<1>13. phaseBar[t] = "called" /\
       phaseBar' = [u \in Threads |-> IF u \in {t, r} THEN "idle" ELSE phaseBar[u]]
  <2>1. phaseBar' = [u \in Threads |->
           IF u \in Asleep(R)' THEN IF op'[u] = "send" THEN "offered" ELSE "waiting"
           ELSE IF pc'[u] \in {"idle", "signal", "closerecv", "closesend", "wait", "woken"} THEN "idle"
           ELSE "called"]
    BY <1>10 DEF ViewOf
  <2>2. phaseBar = [u \in Threads |->
           IF u \in Asleep(Q) THEN IF op[u] = "send" THEN "offered" ELSE "waiting"
           ELSE IF pc[u] \in {"idle", "signal", "closerecv", "closesend", "wait", "woken"} THEN "idle"
           ELSE "called"]
    BY <1>10 DEF ViewOf
  <2>3. \A u \in Threads : phaseBar'[u] = IF u \in {t, r} THEN "idle" ELSE phaseBar[u]
    BY <1>2, <1>4, <1>5, <1>11, <1>12, <2>1, <2>2
  <2>4. phaseBar[t] = "called"
    BY <1>5, <1>12, <2>2
  <2> QED BY ONLY <2>1, <2>3, <2>4
<1>14. retBar' = [u \in Threads |-> IF u \in {t, r} THEN TRUE ELSE retBar[u]]
  <2>1. retBar' = [u \in Threads |->
           IF pc'[u] = "signal" \/ (pc'[u] \in {"wait", "woken"} /\ u \notin Asleep(R)')
           THEN IF u \in ToldOf(R)' THEN FALSE ELSE TRUE ELSE ret'[u]]
    BY <1>10 DEF ViewOf
  <2>2. retBar = [u \in Threads |->
           IF pc[u] = "signal" \/ (pc[u] \in {"wait", "woken"} /\ u \notin Asleep(Q))
           THEN IF u \in ToldOf(Q) THEN FALSE ELSE TRUE ELSE ret[u]]
    BY <1>10 DEF ViewOf
  <2>3. \A u \in Threads : retBar'[u] = IF u \in {t, r} THEN TRUE ELSE retBar[u]
    BY <1>2, <1>4, <1>5, <1>11, <1>12, <2>1, <2>2
  <2> QED BY <2>1, <2>3
<1>15. /\ valBar' = [u \in Threads |-> IF u \in {t, r} THEN val'[u] ELSE valBar[u]]
       /\ valBar[t] = val[t] /\ valBar[r] = val[r]
  <2>1. \A u \in Threads : u # t /\ u # r => val'[u] = val[u]
    BY DEF Handing, Lent
  <2>2. /\ valBar' = [u \in Threads |-> IF u \in ToldOf(R)' THEN Zero ELSE val'[u]]
        /\ valBar = [u \in Threads |-> IF u \in ToldOf(Q) THEN Zero ELSE val[u]]
    BY <1>10 DEF ViewOf
  <2>3. \A u \in Threads : valBar'[u] = IF u \in {t, r} THEN val'[u] ELSE valBar[u]
    BY <1>11, <1>12, <2>1, <2>2
  <2>4. valBar[t] = val[t] /\ valBar[r] = val[r]
    BY <1>2, <1>12, <2>2
  <2> QED BY ONLY <2>2, <2>3, <2>4
<1>16. /\ lineBar = [d \in Chans |-> IF closed[d] THEN <<>> ELSE Q[RecvQ(d)]]
       /\ lineBar' = [d \in Chans |-> IF closed[d] THEN <<>> ELSE R[RecvQ(d)]]
  BY <1>5, <1>10 DEF ViewOf
<1>17. /\ pendBar = [d \in Chans |-> IF closed[d] THEN Buffered(d) ELSE Buffered(d) \o Sent(Q[SendQ(d)])]
       /\ pendBar' = [d \in Chans |-> IF closed[d] THEN Buffered(d)' ELSE Buffered(d)' \o Sent(R[SendQ(d)])]
  <2>1. \A d \in Chans : Sent(R[SendQ(d)])' = Sent(R[SendQ(d)])
    BY <1>5 DEF Sent
  <2>2. pendBar' = [d \in Chans |-> IF closed'[d] THEN Buffered(d)' ELSE Buffered(d)' \o Sent(R[SendQ(d)])']
    BY <1>10 DEF ViewOf
  <2> QED BY <1>5, <1>10, <2>1, <2>2 DEF ViewOf
<1>18. ASSUME NEW u \in Threads
       PROVE  /\ pc'[u] = "peekfull" /\ closed'[on'[u]] =>
                   pc[u] = "peekfull" /\ on'[u] = on[u] /\ (chan_full(on[u])' => chan_full(on[u]))
              /\ pc'[u] = "peekopen" /\ ~closed'[on'[u]] =>
                   \/ pc[u] = "peekopen" /\ ~closed[on[u]]
                   \/ chan_empty(on[u])'
  <2>1. pc'[u] \in {"peekfull", "peekopen"} => u # t /\ on[u] \in Chans
    BY <1>5 DEF Before, Inv, TypeOK
  <2>2. ASSUME NEW d \in Chans, d = on[u], closed[d] PROVE first'[RecvQ(d)] = first[RecvQ(d)]
    <3>1. RecvQ(d) \in Queues /\ RecvQ(d) # q
      BY <1>5, <2>2, QueuesDiffer, QueueOfChan
    <3> QED BY <1>5, <3>1
  <2> QED BY <1>5, <2>1, <2>2 DEF chan_full
<1>19. Abs!Note
  BY <1>3, <1>9, <1>18, Noted
<1> QED BY <1>0, <1>1, <1>2, <1>3, <1>4, <1>8, <1>9, <1>13, <1>14, <1>15, <1>16, <1>17, <1>19
        DEF Hands

\* A sender delivers its message.
LEMMA DirectIsDeliver ==
  ASSUME NEW Q \in [Queues -> Seq(Threads)], Before(Q), Inv', NEW t \in Threads, SendDirect(t)
  PROVE  RefInv' /\ Abs!Next
<1>0. PICK c \in Chans : c = on[t]
  BY DEF SendDirect, Locking, Before, Inv, TypeOK
<1>1. PICK r : r = first[RecvQ(c)]
  OBVIOUS
<1>2. PICK q \in {SendQ(c), RecvQ(c)} : q = RecvQ(c)
  OBVIOUS
<1>3. PICK R : R = [Q EXCEPT ![q] = Tail(@)]
  OBVIOUS
<1>4. /\ pc[t] = "lock" /\ op[t] \in Sends /\ lock[c] = NULL /\ ~closed[c]
      /\ r = first[q] /\ r # NULL
      /\ Dequeue(q) /\ Goto(t, "signal") /\ peer' = [peer EXCEPT ![t] = r]
      /\ UNCHANGED <<closed, lock, thrclosed, sema, op, on, ncall, ret, cflag, qlen, recvx, buf>>
      /\ val' = (IF Live(r) THEN [val EXCEPT ![r] = val[t]] ELSE val)
      /\ elemptr' = [elemptr EXCEPT ![r] = 0]
  BY <1>0, <1>1, <1>2 DEF SendDirect, Locking, chanVars, callVars
<1>5. q # SendQ(c)
  BY <1>2, QueuesDiffer
<1>6. r \in Threads /\ op[r] = "recv" /\ Live(r)
  <2>1. /\ r \in Threads /\ pc[r] = "wait" /\ elemptr[r] = ncall[r]
        /\ op[r] = (IF q = SendQ(c) THEN "send" ELSE "recv")
    BY <1>4, FirstOfList
  <2> QED BY <1>5, <2>1 DEF Live
<1>7. val' = [val EXCEPT ![r] = val[t]] /\ val \in [Threads -> Values] /\ elemptr \in [Threads -> Nat]
  BY <1>4, <1>6 DEF Before, Inv, TypeOK
<1>8. Handing(t, r, c, q)
  <2>1. Lent(t, r)
    BY <1>4, <1>6, <1>7 DEF Sends, Lent
  <2>2. op[t] \in Sends \cup Recvs
    BY <1>4
  <2>3. UNCHANGED <<closed, lock, thrclosed, sema, op, on, ncall, ret, cflag, qlen>>
    BY <1>4
  <2>4. Dequeue(q) /\ Goto(t, "signal") /\ peer' = [peer EXCEPT ![t] = r]
    BY <1>4
  <2>5. c = on[t] /\ r = first[q] /\ r # NULL /\ pc[t] = "lock" /\ lock[c] = NULL /\ ~closed[c]
    BY <1>0, <1>4
  <2> QED BY <2>1, <2>2, <2>3, <2>4, <2>5 DEF Handing
<1>9. Hands(Q, R, t, r, c, q)
  BY <1>3, <1>8, HandView
<1>10. /\ R \in [Queues -> Seq(Threads)] /\ Codes' /\ Waiting(R)' /\ Holds(R)'
       /\ Abs!Note /\ phaseBar[t] = "called"
  BY <1>9 DEF Hands
<1>11. /\ lineBar[c] = Q[q] /\ lineBar[c] # <<>> /\ Head(lineBar[c]) = r
       /\ lineBar' = [lineBar EXCEPT ![c] = Tail(@)]
  <2>1. /\ lineBar = [d \in Chans |-> IF closed[d] THEN <<>> ELSE Q[RecvQ(d)]]
        /\ lineBar' = [d \in Chans |-> IF closed[d] THEN <<>> ELSE R[RecvQ(d)]]
        /\ Q[q] \in Seq(Threads) /\ Len(Q[q]) > 0 /\ Q[q][1] = r
        /\ R[q] = Tail(Q[q]) /\ \A p \in Queues : p # q => R[p] = Q[p]
    BY <1>9 DEF Hands
  <2>2. \A d \in Chans : R[RecvQ(d)] = IF d = c THEN Tail(Q[RecvQ(d)]) ELSE Q[RecvQ(d)]
    BY <1>2, <2>1, QueuesDiffer, QueueOfChan
  <2>3. lineBar[c] = Q[q]
    BY <1>2, <1>4, <2>1
  <2>4. Q[q] # <<>> /\ Head(Q[q]) = r
    BY <2>1
  <2>5. lineBar' = [lineBar EXCEPT ![c] = Tail(@)]
    BY <1>4, <2>1, <2>2
  <2> QED BY <2>3, <2>4, <2>5
<1>12. pendBar' = pendBar
  <2>1. /\ pendBar = [d \in Chans |-> IF closed[d] THEN Buffered(d) ELSE Buffered(d) \o Sent(Q[SendQ(d)])]
        /\ pendBar' = [d \in Chans |-> IF closed[d] THEN Buffered(d)' ELSE Buffered(d)' \o Sent(R[SendQ(d)])]
        /\ \A p \in Queues : p # q => R[p] = Q[p]
    BY <1>9 DEF Hands
  <2>2. \A d \in Chans : Buffered(d)' = Buffered(d)
    BY <1>4 DEF Buffered
  <2>3. \A d \in Chans : R[SendQ(d)] = Q[SendQ(d)]
    BY <1>2, <2>1, QueuesDiffer, QueueOfChan
  <2> QED BY <2>1, <2>2, <2>3
<1>13. /\ phaseBar' = [phaseBar EXCEPT ![t] = "idle", ![r] = "idle"]
       /\ retBar' = [retBar EXCEPT ![t] = TRUE, ![r] = TRUE]
  <2>1. /\ phaseBar' = [u \in Threads |-> IF u \in {t, r} THEN "idle" ELSE phaseBar[u]]
        /\ retBar' = [u \in Threads |-> IF u \in {t, r} THEN TRUE ELSE retBar[u]]
    BY <1>9 DEF Hands
  <2>2. phaseBar = [u \in Threads |-> phaseBar[u]] /\ retBar = [u \in Threads |-> retBar[u]]
    BY DEF phaseBar, retBar
  <2> QED BY <1>6, <2>1, <2>2
<1>14. valBar' = [valBar EXCEPT ![r] = valBar[t]]
  <2>1. /\ valBar' = [u \in Threads |-> IF u \in {t, r} THEN val'[u] ELSE valBar[u]]
        /\ valBar[t] = val[t] /\ r # t
    BY <1>9 DEF Hands
  <2>2. valBar = [u \in Threads |-> valBar[u]]
    BY DEF valBar
  <2>3. val'[t] = val[t] /\ val'[r] = val[t]
    BY <1>6, <1>7, <2>1
  <2> QED BY <1>6, <2>1, <2>2, <2>3
<1>15. Abs!Deliver(t)
  <2>1. op[t] \in Abs!Sends
    BY <1>4 DEF Abs!Sends, Sends
  <2> QED BY <1>0, <1>4, <1>10, <1>11, <1>12, <1>13, <1>14, <2>1
          DEF Abs!Deliver, Abs!Called, Abs!callVars
<1>16. Abs!Next
  BY <1>10, <1>15 DEF Abs!Next
<1>17. RefInv'
  BY <1>10 DEF RefInv
<1> QED BY <1>16, <1>17

\* The elements of two sequences put together.
LEMMA Joined ==
  ASSUME NEW V, NEW a \in Seq(V), NEW w \in Seq(V)
  PROVE  /\ a \o w \in Seq(V) /\ Len(a \o w) = Len(a) + Len(w)
         /\ \A i \in 1 .. Len(a) + Len(w) : (a \o w)[i] = IF i <= Len(a) THEN a[i] ELSE w[i - Len(a)]
OBVIOUS

\* What is left of two sequences, the second of which gives its first to the other.
LEMMA Shifted ==
  ASSUME NEW V, NEW B \in Seq(V), NEW S \in Seq(V), Len(S) > 0
  PROVE  /\ (B \o S)[Len(B) + 1] = S[1] /\ Len(B \o S) = Len(B) + Len(S) /\ B \o S \in Seq(V)
         /\ Len(B) = 0 => B \o S = S /\ B \o Tail(S) = Tail(S)
         /\ Len(B) > 0 => /\ Head(B \o S) = Head(B)
                          /\ Tail(B \o S) = Append(Tail(B), S[1]) \o Tail(S)
<1>1. /\ (B \o S)[Len(B) + 1] = S[1] /\ Len(B \o S) = Len(B) + Len(S) /\ B \o S \in Seq(V)
  OBVIOUS
<1>2. ASSUME Len(B) = 0 PROVE B \o S = S /\ B \o Tail(S) = Tail(S)
  <2>1. B = <<>>
    BY <1>2
  <2> QED BY <2>1
<1>3. ASSUME Len(B) > 0
      PROVE  Head(B \o S) = Head(B) /\ Tail(B \o S) = Append(Tail(B), S[1]) \o Tail(S)
  <2> DEFINE x == Tail(B \o S)
             a == Append(Tail(B), S[1])
             w == Tail(S)
             y == a \o w
  <2>1. x \in Seq(V) /\ Len(x) = Len(B) + Len(S) - 1
        /\ \A i \in 1 .. Len(B) + Len(S) - 1 : x[i] = (B \o S)[i + 1]
    BY <1>1, <1>3
  <2>2. \A i \in 1 .. Len(B) + Len(S) : (B \o S)[i] = IF i <= Len(B) THEN B[i] ELSE S[i - Len(B)]
    BY <1>1
  <2>3. a \in Seq(V) /\ Len(a) = Len(B)
        /\ \A i \in 1 .. Len(B) : a[i] = IF i < Len(B) THEN B[i + 1] ELSE S[1]
    BY <1>3
  <2>4. w \in Seq(V) /\ Len(w) = Len(S) - 1 /\ \A i \in 1 .. Len(S) - 1 : w[i] = S[i + 1]
    OBVIOUS
  <2> HIDE DEF a, w
  <2>5. y \in Seq(V) /\ Len(y) = Len(B) + Len(S) - 1
        /\ \A i \in 1 .. Len(B) + Len(S) - 1 : y[i] = IF i <= Len(B) THEN a[i] ELSE w[i - Len(B)]
    <3>1. y \in Seq(V) /\ Len(y) = Len(a) + Len(w)
          /\ \A i \in 1 .. Len(a) + Len(w) : y[i] = IF i <= Len(a) THEN a[i] ELSE w[i - Len(a)]
      <4>1. a \in Seq(V) /\ w \in Seq(V)
        BY <2>3, <2>4
      <4> QED BY ONLY <4>1, Joined
    <3>2. Len(a) + Len(w) = Len(B) + Len(S) - 1
      BY <2>3, <2>4
    <3> QED BY <2>3, <3>1, <3>2
  <2> HIDE DEF x, y
  <2>6. ASSUME NEW i \in 1 .. Len(x) PROVE x[i] = y[i]
    <3>1. i \in 1 .. Len(B) + Len(S) - 1 /\ i + 1 \in 1 .. Len(B) + Len(S)
      BY <2>1
    <3>2. CASE i < Len(B)
      BY <2>1, <2>2, <2>3, <2>5, <3>1, <3>2
    <3>3. CASE i = Len(B)
      BY <2>1, <2>2, <2>3, <2>5, <3>1, <3>3
    <3>4. CASE i > Len(B)
      <4>1. i - Len(B) \in 1 .. Len(S) - 1 /\ i + 1 - Len(B) = (i - Len(B)) + 1
        BY <3>1, <3>4
      <4>2. x[i] = S[i + 1 - Len(B)]
        <5>1. x[i] = (B \o S)[i + 1]
          BY <2>1, <3>1
        <5>2. PICK j \in 1 .. Len(B) + Len(S) : j = i + 1
          BY <3>1
        <5>3. (B \o S)[j] = S[j - Len(B)]
          BY <2>2, <3>1, <3>4, <5>2
        <5> QED BY <5>1, <5>2, <5>3
      <4>3. y[i] = w[i - Len(B)]
        BY <2>5, <3>1, <3>4
      <4> QED BY <2>4, <4>1, <4>2, <4>3
    <3> QED BY <3>1, <3>2, <3>3, <3>4
  <2>7. x = y
    BY <2>1, <2>5, <2>6, SameSeq
  <2>8. Head(B \o S) = Head(B)
    BY <1>1, <1>3, <2>2
  <2> QED BY <2>7, <2>8 DEF x, y, a, w
<1> QED BY <1>1, <1>2, <1>3

\* What the others of a list send.
LEMMA SentTail ==
  ASSUME TypeOK, NEW L \in Seq(Threads), Len(L) > 0
  PROVE  Sent(Tail(L)) = Tail(Sent(L)) /\ Sent(L)[1] = <<L[1], ncall[L[1]]>>
         /\ Sent(L) \in Seq(Values) /\ Len(Sent(L)) = Len(L)
<1> DEFINE M == Tail(L)
<1>1. M \in Seq(Threads) /\ Len(M) = Len(L) - 1 /\ \A i \in 1 .. Len(L) - 1 : M[i] = L[i + 1]
  OBVIOUS
<1> HIDE DEF M
<1> DEFINE s == Sent(L)
           u == Sent(M)
<1>2. Len(s) = Len(L) /\ s \in Seq(Values) /\ \A i \in 1 .. Len(L) : s[i] = <<L[i], ncall[L[i]]>>
  BY SentIs
<1>3. Len(u) = Len(M) /\ u \in Seq(Values) /\ \A i \in 1 .. Len(M) : u[i] = <<M[i], ncall[M[i]]>>
  BY <1>1, SentIs
<1> HIDE DEF s, u
<1> DEFINE w == Tail(s)
<1>4. w \in Seq(Values) /\ Len(w) = Len(L) - 1 /\ \A i \in 1 .. Len(L) - 1 : w[i] = s[i + 1]
  BY <1>2
<1> HIDE DEF w
<1>5. ASSUME NEW i \in 1 .. Len(u) PROVE u[i] = w[i]
  <2>1. i \in 1 .. Len(M) /\ i \in 1 .. Len(L) - 1 /\ i + 1 \in 1 .. Len(L)
    BY <1>1, <1>3
  <2>2. u[i] = <<M[i], ncall[M[i]]>> /\ M[i] = L[i + 1] /\ w[i] = s[i + 1]
    BY <1>1, <1>3, <1>4, <2>1
  <2>3. s[i + 1] = <<L[i + 1], ncall[L[i + 1]]>>
    BY <1>2, <2>1
  <2> QED BY <2>2, <2>3
<1>6. u = w
  BY <1>1, <1>3, <1>4, <1>5, SameSeq
<1>7. s[1] = <<L[1], ncall[L[1]]>>
  BY <1>2
<1> QED BY <1>2, <1>6, <1>7 DEF s, u, w, M

\* A receiver takes the oldest message, and the first sender that waits is done.
LEMMA DirectIsTake ==
  ASSUME NEW Q \in [Queues -> Seq(Threads)], Before(Q), Inv', NEW t \in Threads, RecvDirect(t)
  PROVE  RefInv' /\ Abs!Next
<1>0. PICK c \in Chans : c = on[t]
  BY DEF RecvDirect, Locking, Before, Inv, TypeOK
<1>1. PICK s : s = first[SendQ(c)]
  OBVIOUS
<1>2. PICK q \in {SendQ(c), RecvQ(c)} : q = SendQ(c)
  OBVIOUS
<1>3. PICK R : R = [Q EXCEPT ![q] = Tail(@)]
  OBVIOUS
<1>4. /\ pc[t] = "lock" /\ op[t] \in Recvs /\ lock[c] = NULL /\ s = first[q] /\ s # NULL
      /\ Dequeue(q) /\ Goto(t, "signal") /\ peer' = [peer EXCEPT ![t] = s]
      /\ UNCHANGED <<closed, lock, thrclosed, sema, op, on, ncall, ret, cflag, qlen, elemptr>>
      /\ \/ /\ qlen[c] = 0
            /\ val' = [val EXCEPT ![t] = Elem(s)]
            /\ UNCHANGED <<buf, recvx>>
         \/ /\ qlen[c] # 0
            /\ val' = [val EXCEPT ![t] = buf[<<c, recvx[c]>>]]
            /\ buf' = [buf EXCEPT ![<<c, recvx[c]>>] = Elem(s)]
            /\ recvx' = [recvx EXCEPT ![c] = SlotAfter(c, recvx[c])]
  BY <1>0, <1>1, <1>2 DEF RecvDirect, Locking, callVars
<1>5. ~closed[c]
  <2>1. q \in Queues
    BY <1>2, QueueOfChan
  <2>2. Len(Q[q]) # 0
    BY <1>4, <2>1 DEF Before, Waiting, Lists, Chained
  <2> QED BY <1>2, <2>2 DEF Before, Waiting, Walks
<1>6. s \in Threads /\ op[s] = "send" /\ Elem(s) = <<s, ncall[s]>> /\ Elem(s) \in Values
  <2>0. s = first[q] /\ s # NULL /\ ~closed[c]
    BY <1>4, <1>5
  <2>1. /\ s \in Threads /\ pc[s] = "wait" /\ elemptr[s] = ncall[s]
        /\ op[s] = (IF q = SendQ(c) THEN "send" ELSE "recv")
    BY <2>0, FirstOfList
  <2>2. op[s] = "send" /\ Elem(s) = val[s] /\ val[s] \in Values
    BY <1>2, <2>1 DEF Elem, Live, Before, Inv, TypeOK
  <2>3. val[s] = <<s, ncall[s]>>
    BY <2>1, <2>2 DEF Before, Holds, Sends
  <2> QED BY <2>1, <2>2, <2>3
<1>7. /\ \A u \in Threads : u # t => val'[u] = val[u]
      /\ val'[t] = IF qlen[c] = 0 THEN Elem(s) ELSE buf[<<c, recvx[c]>>]
  <2>1. val \in [Threads -> Values]
    BY DEF Before, Inv, TypeOK
  <2> QED BY <1>4, <2>1
<1>8. Handing(t, s, c, q)
  <2>1. Lent(t, s)
    BY <1>4, <1>6, <1>7 DEF Sends, Recvs, Lent
  <2>2. op[t] \in Sends \cup Recvs
    BY <1>4
  <2>3. UNCHANGED <<closed, lock, thrclosed, sema, op, on, ncall, ret, cflag, qlen>>
    BY <1>4
  <2>4. Dequeue(q) /\ Goto(t, "signal") /\ peer' = [peer EXCEPT ![t] = s]
    BY <1>4
  <2>5. c = on[t] /\ s = first[q] /\ s # NULL /\ pc[t] = "lock" /\ lock[c] = NULL /\ ~closed[c]
    BY <1>0, <1>4, <1>5
  <2> QED BY <2>1, <2>2, <2>3, <2>4, <2>5 DEF Handing
<1>9. Hands(Q, R, t, s, c, q)
  BY <1>3, <1>8, HandView
<1>10. /\ R \in [Queues -> Seq(Threads)] /\ Codes' /\ Waiting(R)' /\ Holds(R)'
       /\ Abs!Note /\ phaseBar[t] = "called" /\ Facts(Q) /\ Facts(R)'
       /\ Q[q] \in Seq(Threads) /\ Len(Q[q]) > 0 /\ Q[q][1] = s
       /\ R[q] = Tail(Q[q]) /\ \A p \in Queues : p # q => R[p] = Q[p]
  BY <1>9 DEF Hands
<1>11. lineBar' = lineBar
  <2>1. /\ lineBar = [d \in Chans |-> IF closed[d] THEN <<>> ELSE Q[RecvQ(d)]]
        /\ lineBar' = [d \in Chans |-> IF closed[d] THEN <<>> ELSE R[RecvQ(d)]]
    BY <1>9 DEF Hands
  <2>2. \A d \in Chans : R[RecvQ(d)] = Q[RecvQ(d)]
    BY <1>2, <1>10, QueuesDiffer, QueueOfChan
  <2> QED BY <2>1, <2>2
<1> DEFINE B == Buffered(c)
           S == Sent(Q[q])
<1>12. /\ B \in Seq(Values) /\ Len(B) = qlen[c] /\ qlen[c] = Cap[c] /\ Cap[c] \in Nat
       /\ S \in Seq(Values) /\ Len(S) = Len(Q[q]) /\ S[1] = <<s, ncall[s]>>
       /\ Sent(R[q]) = Tail(S)
  <2>1. B \in Seq(Values) /\ Len(B) = qlen[c] /\ Cap[c] \in Nat
    BY <1>10, LenOfPend
  <2>2. TypeOK /\ WaitersInv
    BY DEF Before, Inv
  <2>3. qlen[c] = Cap[c]
    BY <1>2, <1>4, <2>2 DEF WaitersInv
  <2>4. Sent(Tail(Q[q])) = Tail(S) /\ S[1] = <<Q[q][1], ncall[Q[q][1]]>>
        /\ S \in Seq(Values) /\ Len(S) = Len(Q[q])
    BY <1>10, <2>2, SentTail
  <2> QED BY <1>10, <2>1, <2>3, <2>4
<1>13. \A d \in Chans : d # c => Buffered(d)' = Buffered(d) /\ R[SendQ(d)] = Q[SendQ(d)]
  <2>1. ASSUME NEW d \in Chans, c # d PROVE Buffered(d)' = Buffered(d)
    <3>1. qlen'[d] = qlen[d] /\ recvx'[d] = recvx[d]
      BY <1>4, <2>1 DEF Before, Inv, TypeOK
    <3>2. buf' = [buf EXCEPT ![<<c, recvx[c]>>] = Elem(s)] \/ buf' = buf
      BY <1>4
    <3>3. Inv
      BY DEF Before
    <3> QED BY <2>1, <3>1, <3>2, <3>3, OtherBuffer
  <2>2. \A d \in Chans : d # c => R[SendQ(d)] = Q[SendQ(d)]
    BY <1>2, <1>10, QueuesDiffer, QueueOfChan
  <2> QED BY <2>1, <2>2
<1>14. /\ pendBar[c] = B \o S
       /\ pendBar'[c] = Buffered(c)' \o Tail(S)
       /\ pendBar' = [pendBar EXCEPT ![c] = pendBar'[c]]
  <2>1. /\ pendBar = [d \in Chans |-> IF closed[d] THEN Buffered(d) ELSE Buffered(d) \o Sent(Q[SendQ(d)])]
        /\ pendBar' = [d \in Chans |-> IF closed[d] THEN Buffered(d)' ELSE Buffered(d)' \o Sent(R[SendQ(d)])]
    BY <1>9 DEF Hands
  <2>2. pendBar[c] = B \o S /\ pendBar'[c] = Buffered(c)' \o Sent(R[q])
    BY <1>2, <1>5, <2>1
  <2>3. pendBar' = [pendBar EXCEPT ![c] = pendBar'[c]]
    BY <1>13, <2>1
  <2> QED BY <1>12, <2>2, <2>3
<1>15. pendBar'[c] = Tail(pendBar[c]) /\ Head(pendBar[c]) = val'[t]
  <2>1. Len(S) > 0
    BY <1>10, <1>12
  <2>2. CASE qlen[c] = 0
    <3>1. B \o S = S /\ B \o Tail(S) = Tail(S)
      BY <1>12, <2>1, <2>2, Shifted
    <3>2. Buffered(c)' = B
      BY <1>4, <2>2 DEF Buffered
    <3>3. Head(S) = S[1]
      BY <2>1
    <3> QED BY <1>6, <1>7, <1>12, <1>14, <2>2, <3>1, <3>2, <3>3
  <2>3. CASE qlen[c] # 0
    <3>1. /\ Cap[c] > 0 /\ qlen'[c] = qlen[c] /\ recvx'[c] = SlotAfter(c, recvx[c])
          /\ buf' = [buf EXCEPT ![<<c, recvx[c]>>] = Elem(s)]
      BY <1>4, <1>12, <2>3 DEF Before, Inv, TypeOK
    <3>2. Inv
      BY DEF Before
    <3>3. Buffered(c)' = Append(Tail(B), Elem(s)) /\ Head(B) = buf[<<c, recvx[c]>>]
      BY <1>12, <3>1, <3>2, Exchange
    <3>4. Head(B \o S) = Head(B) /\ Tail(B \o S) = Append(Tail(B), S[1]) \o Tail(S)
      <4>1. B \in Seq(Values) /\ S \in Seq(Values) /\ Len(S) > 0 /\ Len(B) > 0
        BY <1>12, <2>1, <3>1
      <4> HIDE DEF B, S
      <4> QED BY <4>1, Shifted
    <3> QED BY <1>6, <1>7, <1>12, <1>14, <2>3, <3>3, <3>4
  <2> QED BY <2>2, <2>3
<1>16. /\ pendBar[c] # <<>> /\ Len(pendBar[c]) > Cap[c] /\ pendBar[c][Cap[c] + 1] = <<s, ncall[s]>>
  <2>1. Len(S) > 0 /\ Len(S) \in Nat
    BY <1>10, <1>12
  <2>2. (B \o S)[Len(B) + 1] = S[1] /\ Len(B \o S) = Len(B) + Len(S) /\ B \o S \in Seq(Values)
    BY <1>12, <2>1, Shifted
  <2>3. Len(B \o S) > Cap[c] /\ (B \o S)[Cap[c] + 1] = <<s, ncall[s]>>
    BY <1>12, <2>1, <2>2
  <2>4. B \o S # <<>>
    BY <1>12, <2>2, <2>3
  <2> QED BY <1>14, <2>3, <2>4
<1> HIDE DEF B, S
<1>17. valBar' = [valBar EXCEPT ![t] = Head(pendBar[c])]
  <2>1. /\ valBar' = [u \in Threads |-> IF u \in {t, s} THEN val'[u] ELSE valBar[u]]
        /\ valBar[s] = val[s] /\ s # t
    BY <1>9 DEF Hands
  <2>2. valBar = [u \in Threads |-> valBar[u]]
    BY DEF valBar
  <2> QED BY <1>6, <1>7, <1>15, <2>1, <2>2
<1>18. Abs!Take(t)
  <2>1. op[t] \in Abs!Recvs
    BY <1>4 DEF Abs!Recvs, Recvs
  <2>2. /\ phaseBar' = [u \in Threads |-> IF u \in {t, s} THEN "idle" ELSE phaseBar[u]]
        /\ retBar' = [u \in Threads |-> IF u \in {t, s} THEN TRUE ELSE retBar[u]]
    BY <1>9 DEF Hands
  <2>3. {t} \cup (IF Len(pendBar[c]) > Cap[c] THEN {pendBar[c][Cap[c] + 1][1]} ELSE {}) = {t, s}
    BY <1>16
  <2>4. pendBar' = [pendBar EXCEPT ![c] = Tail(@)]
    BY <1>14, <1>15
  <2> QED BY <1>0, <1>4, <1>10, <1>11, <1>16, <1>17, <2>1, <2>2, <2>3, <2>4
          DEF Abs!Take, Abs!Called, Abs!callVars
<1>19. Abs!Next
  BY <1>10, <1>18 DEF Abs!Next
<1>20. RefInv'
  BY <1>10 DEF RefInv
<1> QED BY <1>19, <1>20

-----------------------------------------------------------------------------
(* Every step.                                                             *)

\* What ChanOpen leaves is the empty channel of ChanSpec.
LEMMA InitIsInit == Init => RefInv /\ Abs!Init
<1> SUFFICES ASSUME Init PROVE RefInv /\ Abs!Init
  OBVIOUS
<1>1. Codes /\ Inv
  BY InitDrained, InitInv
<1>2. PICK Q \in [Queues -> Seq(Threads)] : Waiting(Q)
  BY InitDrained
<1>3. Holds(Q)
  BY DEF Init, Holds
<1>4. Facts(Q)
  BY <1>1, <1>2, <1>3 DEF Facts
<1>5. ViewOf(Q)
  BY <1>4, View
<1>6. \A t \in Threads : t \notin Asleep(Q) /\ t \notin ToldOf(Q)
  BY DEF Init, Asleep, ToldOf
<1>7. /\ phaseBar = [t \in Threads |-> "idle"] /\ retBar = [t \in Threads |-> FALSE]
      /\ valBar = [t \in Threads |-> Garbage]
  BY <1>5, <1>6 DEF ViewOf, Init
<1>8. lineBar = [c \in Chans |-> <<>>]
  <2>1. \A c \in Chans : first[RecvQ(c)] = NULL
    BY QueueOfChan DEF Init
  <2>2. \A c \in Chans : Q[RecvQ(c)] \in Seq(Threads) /\ Len(Q[RecvQ(c)]) = 0
    BY <1>4, <2>1, LenOfPend
  <2>3. \A c \in Chans : Q[RecvQ(c)] = <<>>
    BY <2>2
  <2> QED BY <1>5, <2>3 DEF ViewOf
<1>9. pendBar = [c \in Chans |-> <<>>]
  <2>1. ASSUME NEW c \in Chans PROVE pendBar[c] = <<>>
    <3>1. first[SendQ(c)] = NULL /\ qlen[c] = 0
      BY QueueOfChan DEF Init
    <3>2. pendBar[c] = Buffered(c) /\ Buffered(c) \in Seq(Values) /\ Len(Buffered(c)) = qlen[c]
      BY <1>4, <3>1, OnlyBuffered
    <3> QED BY <3>1, <3>2
  <2>2. pendBar = [c \in Chans |-> pendBar[c]]
    BY DEF pendBar
  <2> QED BY <2>1, <2>2
<1>10. mayfailBar = {}
  BY DEF Init, mayfailBar
<1> QED BY <1>1, <1>2, <1>3, <1>7, <1>8, <1>9, <1>10 DEF RefInv, Abs!Init, Init

\* What the threads lent stays there in every step, and no step is anything but one of ChanSpec.
LEMMA StepIsStep ==
  ASSUME Contract = "drained", Inv, Inv', RefInv, [Next]_vars
  PROVE  RefInv' /\ [Abs!Next]_(Abs!vars)
<1>1. PICK Q \in [Queues -> Seq(Threads)] : Before(Q)
  BY DEF RefInv, Before
<1>2. CASE UNCHANGED vars
  <2>1. RefInv'
    <3>1. Codes'
      BY <1>2 DEF RefInv, vars, chanVars, callVars, Codes, InCode, OneCloser, Calling, Closing
    <3>2. \A t \in Threads : QueueOf(t)' = QueueOf(t) /\ Releasers(t)' = Releasers(t)
      BY <1>2 DEF vars, callVars, QueueOf, Releasers
    <3>3. Waiting(Q)'
      BY <1>1, <1>2, <3>2 DEF Before, vars, chanVars, waitVars, callVars, Waiting, Lists, Members, Told,
         Walks, Walked, Signals, Owed
    <3>4. Holds(Q)'
      BY <1>1, <1>2, <3>2 DEF Before, vars, chanVars, callVars, resVars, Holds
    <3> QED BY <3>1, <3>3, <3>4 DEF RefInv
  <2>2. UNCHANGED Abs!vars
    <3>1. \A p : Chain(p)' = Chain(p)
      BY <1>2 DEF vars, waitVars, Chain
    <3>2. \A q : Queue(q)' = Queue(q)
      BY <1>2, <3>1 DEF vars, waitVars, Queue
    <3>3. \A t \in Threads : (Pending(t)' <=> Pending(t)) /\ (Cancelled(t)' <=> Cancelled(t))
      BY <1>2, <3>2 DEF vars, chanVars, callVars, Pending, Cancelled, Parked, Queued, QueueOf
    <3>4. UNCHANGED <<phaseBar, retBar, valBar>>
      BY <1>2, <3>3 DEF vars, callVars, resVars, phaseBar, retBar, valBar, Parked
    <3>5. UNCHANGED <<pendBar, lineBar>>
      BY <1>2, <3>2 DEF vars, chanVars, callVars, resVars, pendBar, lineBar, Buffered, Offered, Elem, Live
    <3>6. UNCHANGED mayfailBar
      BY <1>2 DEF vars, chanVars, waitVars, callVars, mayfailBar, chan_full
    <3> QED BY <1>2, <3>4, <3>5, <3>6 DEF vars, chanVars, callVars, resVars, Abs!vars, Abs!callVars
  <2> QED BY <2>1, <2>2
<1>3. CASE Next
  <2>1. PICK t \in Threads : (\E o \in Ops, c \in Chans : Start(t, o, c)) \/ Step(t)
    BY <1>3 DEF Next
  <2>2. ASSUME Codes', Waiting(Q)', Holds(Q)' PROVE RefInv'
    BY <2>2 DEF RefInv
  <2>3. CASE \E o \in Ops, c \in Chans : Start(t, o, c)
    <3>1. PICK o \in Ops, c \in Chans : Start(t, o, c)
      BY <2>3
    <3>2. Codes' /\ Waiting(Q)' /\ Holds(Q)' /\ Abs!Next
      BY <1>1, <3>1, StartIsCall
    <3> QED BY <2>2, <3>2
  <2>4. CASE \/ PeekClosed(t) \/ PeekFull(t) \/ PeekEmpty(t) \/ PeekOpen(t) \/ PeekAgain(t)
             \/ SendClosed(t) \/ SendBuffer(t) \/ SendFull(t)
             \/ RecvClosed(t) \/ RecvBuffer(t) \/ RecvEmpty(t) \/ Woken(t)
    <3>0. Codes /\ Holds(Q)
      BY <1>1 DEF Before
    <3>1. Calm(t)
      BY <2>4, <3>0, CalmSteps
    <3>2. Codes' /\ Waiting(Q)' /\ Holds(Q)'
      BY <1>1, <3>1, CalmKeeps
    <3>3. Abs!Next
      BY <1>1, <2>4, PeekIsMoment, PeekIsFail, ClosedIsEnd, ClosedIsRefuse, WokenIsMoment,
         BufferIsBuffer, BufferIsTake
    <3> QED BY <2>2, <3>2, <3>3
  <2>5. CASE Signal(t) \/ Wait(t) \/ CloseWake(t) \/ CloseSenders(t) \/ CloseUnlock(t)
    <3>1. Codes' /\ Waiting(Q)' /\ Behind(Q, t)
      BY <1>1, <2>5, BehindSteps
    <3>2. Holds(Q)' /\ Abs!Next
      BY <1>1, <3>1, BehindIsMoment
    <3> QED BY <2>2, <3>1, <3>2
  <2>6. CASE CloseMark(t)
    <3>1. Codes' /\ Waiting(Q)' /\ Holds(Q)' /\ Abs!Next
      BY <1>1, <2>6, MarkIsClose
    <3> QED BY <2>2, <3>1
  <2>7. CASE SendPark(t)
    BY <1>1, <2>7, ParkIsOffer
  <2>8. CASE RecvPark(t)
    BY <1>1, <2>8, ParkIsLine
  <2>9. CASE SendDirect(t)
    BY <1>1, <2>9, DirectIsDeliver
  <2>10. CASE RecvDirect(t)
    BY <1>1, <2>10, DirectIsTake
  <2> QED BY <2>1, <2>3, <2>4, <2>5, <2>6, <2>7, <2>8, <2>9, <2>10 DEF Step
<1> QED BY <1>2, <1>3

\* Used as chan_test.c uses it, the channel of chan.c keeps the promises of chan.h as ChanSpec
\* has them: messages are received once and in the order they were sent, receivers are served
\* in the order they came, a call fails only for the reasons given, and what was sent before
\* ChanClose is still received.
THEOREM Refinement ==
  ASSUME Contract = "drained"
  PROVE  Spec => Refines
<1>1. Init => RefInv /\ Abs!Init
  BY InitIsInit
<1>2. Inv /\ Inv' /\ RefInv /\ [Next]_vars => RefInv' /\ [Abs!Next]_(Abs!vars)
  BY StepIsStep
<1> QED BY <1>1, <1>2, Invariance, PTL DEF Spec, Refines, Abs!Spec
=============================================================================
