-------------------------------- MODULE Chan --------------------------------
(***************************************************************************)
(* The buffered or unbuffered message channel of pkg/rbase/chan.c.         *)
(*                                                                         *)
(* Every thread runs a sequence of calls (send, recv, trysend, tryrecv,    *)
(* close) on the channels.  What the code does between chan_lock and       *)
(* chan_unlock is one step, because the words that are read without the    *)
(* lock change at most once in it; everything else is a step of its own:   *)
(* each unlocked read of a fast path, signalling a peer after the unlock,  *)
(* sleeping, waking up, and every turn of the loops of ChanClose, which    *)
(* signal while the lock is held: `lock' is therefore held between two     *)
(* steps by ChanClose only.                                                *)
(*                                                                         *)
(* Two parts are abstract here and have a module of their own: the channel *)
(* lock (HybridMutex) and the per-thread semaphore (LSema).  Memory order  *)
(* is sequentially consistent.  An element is a model value <<t, k>>, the  *)
(* argument of the k-th call of thread t.                                  *)
(***************************************************************************)
EXTENDS Integers, FiniteSets, Sequences

CONSTANTS Threads,   \* the threads, one Thr each
          Chans,     \* the channels ChanOpen returned
          Cap,       \* Cap[c] is c->qcap
          Program,   \* Program[t] is the set of operations thread t may call
          MaxCalls,  \* MaxCalls[t] bounds the number of calls of t
          Contract,  \* how callers use ChanClose: "docs" or "drained"
          NULL,      \* no thread, no channel
          Zero,      \* the element memset(.., 0, ..) leaves
          Garbage    \* what storage holds that nobody wrote for the call

Ops   == {"send", "recv", "trysend", "tryrecv", "close"}
Sends == {"send", "trysend"}
Recvs == {"recv", "tryrecv"}

ASSUME ChanAssumption ==
  /\ IsFiniteSet(Threads)
  /\ Cap \in [Chans -> Nat]
  /\ Program \in [Threads -> SUBSET Ops]
  /\ MaxCalls \in [Threads -> Nat]
  /\ Contract \in {"docs", "drained"}
  /\ NULL \notin Threads
  /\ NULL \notin Chans

Msgs   == Threads \X Nat
Values == Msgs \cup {Zero, Garbage}
SendQ(c) == <<c, "sendq">>
RecvQ(c) == <<c, "recvq">>
Queues   == Chans \X {"sendq", "recvq"}
Slots    == UNION {{c} \X (0 .. Cap[c] - 1) : c \in Chans}

Labels == {"idle", "peekclosed", "peekfull", "peekempty", "peekopen",
           "peekagain", "lock", "signal", "wait", "woken", "closerecv",
           "closesend"}

VARIABLES
  closed, qlen, sendx, recvx, buf,  \* struct Chan, per channel
  lock,                             \* the thread in ChanClose holding c->lock
  first, last,                      \* struct WaitQ, per wait queue
  next, elemptr, thrclosed, sema,   \* struct Thr, per thread
  pc, op, on, ncall,                \* where a thread is, in its ncall-th call
  val,                              \* the element storage lent to the call
  peer,                             \* the thread to signal, or ChanClose's cursor
  ret, cflag,                       \* result of the last call, and its *closed
  aborted                           \* panic or a failed assert ended the process

chanVars == <<closed, qlen, sendx, recvx, buf>>
waitVars == <<first, last, next>>
callVars == <<op, on, ncall>>
resVars  == <<val, ret, cflag>>
vars == <<chanVars, lock, waitVars, elemptr, thrclosed, sema, callVars, pc,
          peer, resVars, aborted>>

Init ==
  /\ closed = [c \in Chans |-> FALSE]
  /\ qlen = [c \in Chans |-> 0]
  /\ sendx = [c \in Chans |-> 0]
  /\ recvx = [c \in Chans |-> 0]
  /\ buf = [s \in Slots |-> Zero]
  /\ lock = [c \in Chans |-> NULL]
  /\ first = [q \in Queues |-> NULL]
  /\ last = [q \in Queues |-> NULL]
  /\ next = [t \in Threads |-> NULL]
  /\ elemptr = [t \in Threads |-> 0]
  /\ thrclosed = [t \in Threads |-> FALSE]
  /\ sema = [t \in Threads |-> 0]
  /\ pc = [t \in Threads |-> "idle"]
  /\ op = [t \in Threads |-> "close"]
  /\ on = [t \in Threads |-> NULL]
  /\ ncall = [t \in Threads |-> 0]
  /\ val = [t \in Threads |-> Garbage]
  /\ peer = [t \in Threads |-> NULL]
  /\ ret = [t \in Threads |-> FALSE]
  /\ cflag = [t \in Threads |-> FALSE]
  /\ aborted = FALSE

-----------------------------------------------------------------------------
(* Wait queues, the ring buffer, and the storage a parked thread lent.     *)

\* wq_enqueue: the tail is found by testing first; t->next is not cleared.
Enqueue(q, t) ==
  /\ first' = IF first[q] = NULL THEN [first EXCEPT ![q] = t] ELSE first
  /\ next' = IF first[q] = NULL THEN next ELSE [next EXCEPT ![last[q]] = t]
  /\ last' = [last EXCEPT ![q] = t]

\* Not the code: a next that is left as it was.
Dequeue_KeepsNext(q) ==
  /\ first' = [first EXCEPT ![q] = next[first[q]]]
  /\ UNCHANGED <<last, next>>

\* wq_dequeue of a queue that is not empty: last is left as it is.
Dequeue(q) ==
  /\ first' = [first EXCEPT ![q] = next[first[q]]]
  /\ next' = [next EXCEPT ![first[q]] = NULL]
  /\ UNCHANGED last

\* Not the code: an index that does not wrap around.
SlotAfter_NoWrap(c, i) == i + 1

SlotAfter(c, i) == IF i = Cap[c] - 1 THEN 0 ELSE i + 1

\* elemptr holds the number of the call that lent its storage.  A pointer kept
\* past that call dangles: nothing of it can be read or written any more.
Live(t) == elemptr[t] = ncall[t] /\ pc[t] # "idle"
Elem(t) == IF Live(t) THEN val[t] ELSE Garbage

\* The threads linked from thread t on, at most all of them, in order.
Chain(t) ==
  LET link[n \in 0 .. Cardinality(Threads)] ==
        IF n = 0 THEN t ELSE IF link[n - 1] = NULL THEN NULL ELSE next[link[n - 1]]
      len == Cardinality({n \in 0 .. Cardinality(Threads) - 1 : link[n] # NULL})
  IN  [i \in 1 .. len |-> link[i - 1]]

Queue(q)      == Chain(first[q])
Queued(q)     == {Queue(q)[i] : i \in DOMAIN Queue(q)}
QueueOf(t)    == <<on[t], IF op[t] = "send" THEN "sendq" ELSE "recvq">>

\* Not the code: an unbuffered channel is always full.
chan_full_Buffered(c) == qlen[c] = Cap[c]

chan_full(c)  == IF Cap[c] = 0 THEN first[RecvQ(c)] = NULL ELSE qlen[c] = Cap[c]
chan_empty(c) == IF Cap[c] = 0 THEN first[SendQ(c)] = NULL ELSE qlen[c] = 0

Goto(t, label) == pc' = [pc EXCEPT ![t] = label]

\* The call of t ends with result r.
Return(t, r) ==
  /\ Goto(t, "idle")
  /\ ret' = [ret EXCEPT ![t] = r]

\* A receive ends because the channel is closed: the element is zeroed, and
\* *closed set when the caller passed one and the code reaches that line.
ReturnClosed(t, flag) ==
  /\ Return(t, FALSE)
  /\ val' = [val EXCEPT ![t] = Zero]
  /\ cflag' = [cflag EXCEPT ![t] = flag]

-----------------------------------------------------------------------------
(* Calls.                                                                  *)

Calling(t, o, c) == pc[t] # "idle" /\ op[t] = o /\ on[t] = c

\* ChanClose is called once per channel.  "drained" is how chan_test.c uses a
\* channel: the senders have returned before ChanClose is called and none is
\* called after, and a thread that was told of the close makes no more calls.
MayCall(t, o, c) ==
  /\ o = "close" => ~closed[c] /\ \A u \in Threads : ~Calling(u, "close", c)
  /\ Contract = "drained" =>
       /\ ~thrclosed[t]
       /\ o = "close" => \A u \in Threads : ~Calling(u, "send", c)
       /\ o = "send" => ~closed[c] /\ \A u \in Threads : ~Calling(u, "close", c)

FirstStep(o) == CASE o = "trysend" -> "peekclosed"
                  [] o = "tryrecv" -> "peekempty"
                  [] OTHER         -> "lock"

\* A thread calls ChanSend, ChanRecv, ChanTrySend, ChanTryRecv or ChanClose.
Start(t, o, c) ==
  /\ pc[t] = "idle"
  /\ ncall[t] < MaxCalls[t]
  /\ o \in Program[t]
  /\ MayCall(t, o, c)
  /\ op' = [op EXCEPT ![t] = o]
  /\ on' = [on EXCEPT ![t] = c]
  /\ ncall' = [ncall EXCEPT ![t] = @ + 1]
  /\ val' = [val EXCEPT ![t] = IF o \in Sends THEN <<t, ncall[t] + 1>> ELSE Garbage]
  /\ cflag' = [cflag EXCEPT ![t] = FALSE]
  /\ Goto(t, FirstStep(o))
  /\ UNCHANGED <<chanVars, lock, waitVars, elemptr, thrclosed, sema, peer, ret, aborted>>

-----------------------------------------------------------------------------
(* The fast paths, which read single words without the lock.               *)

fastUnchanged == <<chanVars, lock, waitVars, elemptr, thrclosed, sema,
                   callVars, peer, aborted>>

\* chan_send: !c->closed
PeekClosed(t) ==
  /\ pc[t] = "peekclosed"
  /\ Goto(t, IF closed[on[t]] THEN "lock" ELSE "peekfull")
  /\ UNCHANGED <<fastUnchanged, resVars>>

\* chan_send: && chan_full(c)
PeekFull(t) ==
  /\ pc[t] = "peekfull"
  /\ \/ chan_full(on[t]) /\ Return(t, FALSE)
     \/ ~chan_full(on[t]) /\ Goto(t, "lock") /\ UNCHANGED ret
  /\ UNCHANGED <<fastUnchanged, val, cflag>>

\* chan_recv: chan_empty(c)
PeekEmpty(t) ==
  /\ pc[t] = "peekempty"
  /\ Goto(t, IF chan_empty(on[t]) THEN "peekopen" ELSE "lock")
  /\ UNCHANGED <<fastUnchanged, resVars>>

\* chan_recv: AtomicLoad(&c->closed) == false
PeekOpen(t) ==
  /\ pc[t] = "peekopen"
  /\ \/ ~closed[on[t]] /\ Return(t, FALSE)
     \/ closed[on[t]] /\ Goto(t, "peekagain") /\ UNCHANGED ret
  /\ UNCHANGED <<fastUnchanged, val, cflag>>

\* Not the code: the second look at the channel is left out.
PeekAgain_Trusting(t) ==
  /\ pc[t] = "peekagain"
  /\ ReturnClosed(t, TRUE)
  /\ UNCHANGED fastUnchanged

\* chan_recv: the second chan_empty(c)
PeekAgain(t) ==
  /\ pc[t] = "peekagain"
  /\ \/ chan_empty(on[t]) /\ ReturnClosed(t, TRUE)
     \/ ~chan_empty(on[t]) /\ Goto(t, "lock") /\ UNCHANGED resVars
  /\ UNCHANGED fastUnchanged

-----------------------------------------------------------------------------
(* Sending under the lock.                                                 *)

Locking(t, ops) == pc[t] = "lock" /\ op[t] \in ops /\ lock[on[t]] = NULL

\* The channel is closed: ChanSend panics, ChanTrySend reports it.
SendClosed(t) ==
  /\ Locking(t, Sends)
  /\ closed[on[t]]
  /\ Return(t, FALSE)
  /\ aborted' = (op[t] = "send")
  /\ cflag' = [cflag EXCEPT ![t] = (op[t] = "trysend")]
  /\ UNCHANGED <<chanVars, lock, waitVars, elemptr, thrclosed, sema, callVars, peer, val>>

\* chan_send_direct: a receiver waits.  It is dequeued and handed the element;
\* it is signalled only after the unlock.
SendDirect(t) ==
  LET c == on[t]
      r == first[RecvQ(c)]
  IN /\ Locking(t, Sends)
     /\ ~closed[c]
     /\ r # NULL
     /\ Dequeue(RecvQ(c))
     /\ aborted' = (elemptr[r] = 0)
     /\ val' = IF Live(r) THEN [val EXCEPT ![r] = val[t]] ELSE val
     /\ elemptr' = [elemptr EXCEPT ![r] = 0]
     /\ peer' = [peer EXCEPT ![t] = r]
     /\ Goto(t, "signal")
     /\ UNCHANGED <<chanVars, lock, thrclosed, sema, callVars, ret, cflag>>

\* There is room in the buffer.
SendBuffer(t) ==
  LET c == on[t]
  IN /\ Locking(t, Sends)
     /\ ~closed[c]
     /\ first[RecvQ(c)] = NULL
     /\ qlen[c] < Cap[c]
     /\ buf' = [buf EXCEPT ![<<c, sendx[c]>>] = val[t]]
     /\ sendx' = [sendx EXCEPT ![c] = SlotAfter(c, @)]
     /\ qlen' = [qlen EXCEPT ![c] = @ + 1]
     /\ Return(t, TRUE)
     /\ UNCHANGED <<closed, recvx, lock, waitVars, elemptr, thrclosed, sema,
                    callVars, peer, val, cflag, aborted>>

\* Not the code: an unbuffered channel's test used for all.
NoRoom_Unbuffered(c) == ~closed[c] /\ first[RecvQ(c)] = NULL

NoRoom(c) == ~closed[c] /\ first[RecvQ(c)] = NULL /\ qlen[c] >= Cap[c]

\* The buffer is full and no receiver waits: ChanTrySend gives up ...
SendFull(t) ==
  /\ Locking(t, {"trysend"})
  /\ NoRoom(on[t])
  /\ Return(t, FALSE)
  /\ UNCHANGED <<fastUnchanged, val, cflag>>

\* chan_park, up to the thr_wait of the calling thread.
Park(t, q) ==
  /\ elemptr' = [elemptr EXCEPT ![t] = ncall[t]]
  /\ Enqueue(q, t)
  /\ Goto(t, "wait")
  /\ UNCHANGED <<chanVars, lock, thrclosed, sema, callVars, peer, resVars, aborted>>

\* ... and ChanSend parks.
SendPark(t) ==
  /\ Locking(t, {"send"})
  /\ NoRoom(on[t])
  /\ Park(t, SendQ(on[t]))

-----------------------------------------------------------------------------
(* Receiving under the lock.                                               *)

\* Not the code: what the buffer holds is forgotten at the close.
RecvClosed_Undrained(t) ==
  /\ Locking(t, Recvs)
  /\ closed[on[t]]
  /\ ReturnClosed(t, op[t] = "tryrecv")
  /\ UNCHANGED fastUnchanged

\* The channel is closed and its buffer empty.
RecvClosed(t) ==
  /\ Locking(t, Recvs)
  /\ closed[on[t]]
  /\ qlen[on[t]] = 0
  /\ ReturnClosed(t, op[t] = "tryrecv")
  /\ UNCHANGED fastUnchanged

\* What the two early tests of chan_recv leave: not "closed and drained".
MayHold(c) == ~closed[c] \/ qlen[c] # 0

\* Not the code: the sender's element overtakes those in the buffer.
RecvDirect_Overtakes(t) ==
  LET c == on[t]
      s == first[SendQ(c)]
  IN /\ Locking(t, Recvs)
     /\ MayHold(c)
     /\ s # NULL
     /\ Dequeue(SendQ(c))
     /\ aborted' = (elemptr[s] = 0)
     /\ val' = [val EXCEPT ![t] = Elem(s)]
     /\ peer' = [peer EXCEPT ![t] = s]
     /\ Goto(t, "signal")
     /\ UNCHANGED <<chanVars, lock, elemptr, thrclosed, sema, callVars, ret, cflag>>

\* chan_recv_direct: a sender waits.  From an empty buffer its element is taken
\* directly; otherwise the head of the buffer is, and the sender's element
\* takes the slot.  The sender's elemptr is not cleared.
RecvDirect(t) ==
  LET c == on[t]
      s == first[SendQ(c)]
      i == recvx[c]
  IN /\ Locking(t, Recvs)
     /\ MayHold(c)
     /\ s # NULL
     /\ Dequeue(SendQ(c))
     /\ aborted' = (elemptr[s] = 0)
     /\ \/ /\ qlen[c] = 0
           /\ val' = [val EXCEPT ![t] = Elem(s)]
           /\ UNCHANGED <<buf, sendx, recvx>>
        \/ /\ qlen[c] # 0
           /\ val' = [val EXCEPT ![t] = buf[<<c, i>>]]
           /\ buf' = [buf EXCEPT ![<<c, i>>] = Elem(s)]
           /\ recvx' = [recvx EXCEPT ![c] = SlotAfter(c, i)]
           /\ sendx' = [sendx EXCEPT ![c] = SlotAfter(c, i)]
     /\ peer' = [peer EXCEPT ![t] = s]
     /\ Goto(t, "signal")
     /\ UNCHANGED <<closed, qlen, lock, elemptr, thrclosed, sema, callVars, ret, cflag>>

\* Not the code: whether the buffer holds a message is not tested.
RecvBuffer_Unchecked(t) ==
  LET c == on[t]
  IN /\ Locking(t, Recvs)
     /\ MayHold(c)
     /\ first[SendQ(c)] = NULL
     /\ val' = [val EXCEPT ![t] = buf[<<c, recvx[c]>>]]
     /\ recvx' = [recvx EXCEPT ![c] = SlotAfter(c, @)]
     /\ qlen' = [qlen EXCEPT ![c] = @ - 1]
     /\ Return(t, TRUE)
     /\ UNCHANGED <<closed, sendx, buf, lock, waitVars, elemptr, thrclosed,
                    sema, callVars, peer, cflag, aborted>>

\* No sender waits and the buffer holds a message.
RecvBuffer(t) ==
  LET c == on[t]
  IN /\ Locking(t, Recvs)
     /\ first[SendQ(c)] = NULL
     /\ qlen[c] > 0
     /\ val' = [val EXCEPT ![t] = buf[<<c, recvx[c]>>]]
     /\ recvx' = [recvx EXCEPT ![c] = SlotAfter(c, @)]
     /\ qlen' = [qlen EXCEPT ![c] = @ - 1]
     /\ Return(t, TRUE)
     /\ UNCHANGED <<closed, sendx, buf, lock, waitVars, elemptr, thrclosed,
                    sema, callVars, peer, cflag, aborted>>

NoMessage(c) == ~closed[c] /\ first[SendQ(c)] = NULL /\ qlen[c] = 0

\* Nothing to receive: ChanTryRecv gives up ...
RecvEmpty(t) ==
  /\ Locking(t, {"tryrecv"})
  /\ NoMessage(on[t])
  /\ Return(t, FALSE)
  /\ UNCHANGED <<fastUnchanged, val, cflag>>

\* ... and ChanRecv parks.
RecvPark(t) ==
  /\ Locking(t, {"recv"})
  /\ NoMessage(on[t])
  /\ Park(t, RecvQ(on[t]))

-----------------------------------------------------------------------------
(* Signalling, sleeping and waking.                                        *)

thrUnchanged == <<chanVars, lock, waitVars, elemptr, thrclosed, callVars,
                  val, cflag, aborted>>

\* thr_signal after the unlock of chan_send_direct or chan_recv_direct
Signal(t) ==
  /\ pc[t] = "signal"
  /\ sema' = [sema EXCEPT ![peer[t]] = @ + 1]
  /\ peer' = [peer EXCEPT ![t] = NULL]
  /\ Return(t, TRUE)
  /\ UNCHANGED thrUnchanged

\* thr_wait returns
Wait(t) ==
  /\ pc[t] = "wait"
  /\ sema[t] > 0
  /\ sema' = [sema EXCEPT ![t] = @ - 1]
  /\ Goto(t, "woken")
  /\ UNCHANGED <<thrUnchanged, peer, ret>>

\* A send returns true whoever woke it; a receive looks at its Thr's closed.
Woken(t) ==
  /\ pc[t] = "woken"
  /\ \/ /\ op[t] = "recv" /\ thrclosed[t]
        /\ ReturnClosed(t, FALSE)
     \/ /\ ~(op[t] = "recv" /\ thrclosed[t])
        /\ Return(t, TRUE)
        /\ UNCHANGED <<val, cflag>>
  /\ UNCHANGED fastUnchanged

-----------------------------------------------------------------------------
(* ChanClose: the lock is held from CloseMark to CloseUnlock, and the      *)
(* waiters are signalled but left in the queues.                           *)

closeUnchanged == <<qlen, sendx, recvx, buf, waitVars, elemptr, callVars, resVars>>

CloseMark(t) ==
  LET c == on[t]
  IN /\ Locking(t, {"close"})
     /\ aborted' = closed[c]
     /\ closed' = [closed EXCEPT ![c] = TRUE]
     /\ lock' = [lock EXCEPT ![c] = t]
     /\ peer' = [peer EXCEPT ![t] = first[RecvQ(c)]]
     /\ Goto(t, "closerecv")
     /\ UNCHANGED <<closeUnchanged, thrclosed, sema>>

\* One turn of either loop: next is read before the waiter is signalled.
CloseWake(t) ==
  LET w == peer[t]
  IN /\ pc[t] \in {"closerecv", "closesend"}
     /\ w # NULL
     /\ peer' = [peer EXCEPT ![t] = next[w]]
     /\ thrclosed' = [thrclosed EXCEPT ![w] = TRUE]
     /\ sema' = [sema EXCEPT ![w] = @ + 1]
     /\ UNCHANGED <<closeUnchanged, closed, lock, pc, aborted>>

\* Not the code: only the first receiver is woken.
CloseSenders_Early(t) ==
  /\ pc[t] = "closerecv"
  /\ peer[t] # first[RecvQ(on[t])] \/ peer[t] = NULL
  /\ peer' = [peer EXCEPT ![t] = first[SendQ(on[t])]]
  /\ Goto(t, "closesend")
  /\ UNCHANGED <<closeUnchanged, closed, lock, thrclosed, sema, aborted>>

CloseSenders(t) ==
  /\ pc[t] = "closerecv"
  /\ peer[t] = NULL
  /\ peer' = [peer EXCEPT ![t] = first[SendQ(on[t])]]
  /\ Goto(t, "closesend")
  /\ UNCHANGED <<closeUnchanged, closed, lock, thrclosed, sema, aborted>>

CloseUnlock(t) ==
  /\ pc[t] = "closesend"
  /\ peer[t] = NULL
  /\ lock' = [lock EXCEPT ![on[t]] = NULL]
  /\ Goto(t, "idle")
  /\ UNCHANGED <<closeUnchanged, closed, peer, thrclosed, sema, aborted>>

-----------------------------------------------------------------------------
Step(t) ==
  \/ PeekClosed(t) \/ PeekFull(t)
  \/ PeekEmpty(t) \/ PeekOpen(t) \/ PeekAgain(t)
  \/ SendClosed(t) \/ SendDirect(t) \/ SendBuffer(t) \/ SendFull(t) \/ SendPark(t)
  \/ RecvClosed(t) \/ RecvDirect(t) \/ RecvBuffer(t) \/ RecvEmpty(t) \/ RecvPark(t)
  \/ Signal(t) \/ Wait(t) \/ Woken(t)
  \/ CloseMark(t) \/ CloseWake(t) \/ CloseSenders(t) \/ CloseUnlock(t)

\* Nothing happens in a process that panicked.
Next ==
  /\ ~aborted
  /\ \E t \in Threads :
       \/ \E o \in Ops, c \in Chans : Start(t, o, c)
       \/ Step(t)

Spec == Init /\ [][Next]_vars

\* A thread in a call is scheduled until it sleeps; nobody has to make a call.
FairSpec == Spec /\ \A t \in Threads : WF_vars(~aborted /\ Step(t))

-----------------------------------------------------------------------------
(* Properties.                                                             *)

\* Every variable has its type, a thread in a call is on a channel, and one
\* about to signal knows whom.
TypeOK ==
  /\ closed \in [Chans -> BOOLEAN]
  /\ qlen \in [Chans -> Nat]
  /\ sendx \in [Chans -> Nat]
  /\ recvx \in [Chans -> Nat]
  /\ buf \in [Slots -> Values]
  /\ lock \in [Chans -> Threads \cup {NULL}]
  /\ first \in [Queues -> Threads \cup {NULL}]
  /\ last \in [Queues -> Threads \cup {NULL}]
  /\ next \in [Threads -> Threads \cup {NULL}]
  /\ elemptr \in [Threads -> Nat]
  /\ thrclosed \in [Threads -> BOOLEAN]
  /\ sema \in [Threads -> Nat]
  /\ pc \in [Threads -> Labels]
  /\ op \in [Threads -> Ops]
  /\ on \in [Threads -> Chans \cup {NULL}]
  /\ ncall \in [Threads -> Nat]
  /\ val \in [Threads -> Values]
  /\ peer \in [Threads -> Threads \cup {NULL}]
  /\ ret \in [Threads -> BOOLEAN]
  /\ cflag \in [Threads -> BOOLEAN]
  /\ aborted \in BOOLEAN
  /\ \A t \in Threads : pc[t] # "idle" => on[t] \in Chans
  /\ \A t \in Threads : pc[t] = "signal" => peer[t] # NULL

\* A receiver is parked only on an empty channel without parked senders, and a
\* sender only on a full one (chan_send and chan_recv test the two queues and
\* the buffer in opposite orders, and chan_recv_direct keeps qlen).  Nobody
\* sleeps while there is something to do, even after ChanClose left its woken
\* waiters in the queues.
WaitersInv ==
  \A c \in Chans :
    /\ first[RecvQ(c)] # NULL => qlen[c] = 0 /\ first[SendQ(c)] = NULL
    /\ first[SendQ(c)] # NULL => qlen[c] = Cap[c]

\* The ring buffer: the indices are slots, and sendx is qlen slots ahead of
\* recvx, also after chan_recv_direct set both from the slot it reused.
RingInv ==
  \A c \in Chans :
    /\ qlen[c] \in 0 .. Cap[c]
    /\ Cap[c] > 0 => sendx[c] \in 0 .. Cap[c] - 1 /\ recvx[c] \in 0 .. Cap[c] - 1
    /\ Cap[c] > 0 => sendx[c] \in {recvx[c] + qlen[c], recvx[c] + qlen[c] - Cap[c]}

Releasers(t) == {u \in Threads : pc[u] = "signal" /\ peer[u] = t}

\* A parked thread that was dequeued or told of the close is owed a signal.
Released(t) == pc[t] = "wait" /\ (thrclosed[t] \/ t \notin Queued(QueueOf(t)))

\* Each thread gets one signal per sleep: the permits of its semaphore and the
\* peers about to signal it are one together when it sleeps and was released,
\* none otherwise.  Less is a lost wakeup, more a signal kept for a later sleep.
OneSignal ==
  \A t \in Threads :
    sema[t] + Cardinality(Releasers(t)) = IF Released(t) THEN 1 ELSE 0

\* Nobody is left asleep on a closed channel: a waiter ChanClose has not told
\* yet has a ChanClose that still walks the queues.
NoneForgotten ==
  \A t \in Threads :
    pc[t] = "wait" /\ ~Released(t) /\ closed[on[t]]
      => \E u \in Threads : Calling(u, "close", on[t])

\* A thread in the code of a receive that was handed its message, or of any
\* parked call on a closed channel, returns (chan.h: ChanRecv "blocks until
\* there's a message available or the channel is closed").
ParkedReturns ==
  \A t \in Threads :
    (pc[t] = "wait" /\ (t \notin Queued(QueueOf(t)) \/ closed[on[t]]))
      ~> pc[t] = "idle"

\* Under receivers that go on calling: what was in the buffer when the channel
\* was closed is received (chan.h: "messages sent before this call are
\* guaranteed to be delivered, assuming there are active receivers") ...
BufferDrains == \A c \in Chans : closed[c] ~> qlen[c] = 0

\* ... and in the end nobody is left in a call on a closed channel, as
\* chan_test.c needs to join its threads.
ClosedReturns == <>[](\A t \in Threads : pc[t] = "idle" \/ ~closed[on[t]])

-----------------------------------------------------------------------------
(* What chan.h says and the code does not do, for a client that closes a   *)
(* channel once and otherwise does as it likes.                            *)

\* ChanRecv returns "true if a message was received": the element is a message.
TrueMeansMessage ==
  \A t \in Threads :
    pc[t] = "idle" /\ op[t] \in Recvs /\ ret[t] => val[t] \in Msgs

-----------------------------------------------------------------------------
(* Chan implements ChanSpec when it is used as chan_test.c uses it         *)
(* (Contract = "drained").                                                 *)

\* The buffered messages, oldest first, and those of the parked senders.
Buffered(c) == [i \in 1 .. qlen[c] |-> buf[<<c, (recvx[c] + i - 1) % Cap[c]>>]]
Offered(c)  == [i \in DOMAIN Queue(SendQ(c)) |-> Elem(Queue(SendQ(c))[i])]

pendBar == [c \in Chans |-> IF closed[c] THEN Buffered(c) ELSE Buffered(c) \o Offered(c)]
lineBar == [c \in Chans |-> IF closed[c] THEN <<>> ELSE Queue(RecvQ(c))]

Parked(t) == pc[t] \in {"wait", "woken"}

\* Parked and neither handed over nor cancelled, whatever t knows of it.
Pending(t) == Parked(t) /\ ~closed[on[t]] /\ t \in Queued(QueueOf(t))

\* A receiver that is parked no more was handed a message or cancelled.
Cancelled(t) == Parked(t) /\ ~Pending(t) /\ op[t] = "recv" /\ elemptr[t] # 0

phaseBar ==
  [t \in Threads |->
    CASE Pending(t)                                   -> IF op[t] = "send" THEN "offered" ELSE "waiting"
      [] pc[t] \in {"idle", "signal", "closerecv", "closesend"} -> "idle"
      [] Parked(t) /\ ~Pending(t)                     -> "idle"
      [] OTHER                                        -> "called"]

retBar ==
  [t \in Threads |->
    IF pc[t] = "signal" \/ (Parked(t) /\ ~Pending(t)) THEN ~Cancelled(t) ELSE ret[t]]

valBar == [t \in Threads |-> IF Cancelled(t) THEN Zero ELSE val[t]]

\* chan_send read c->closed before chan_full, chan_recv after chan_empty.  While
\* what the second read must find holds, there was a moment when both did.
mayfailBar ==
  {t \in Threads : \/ pc[t] = "peekfull" /\ chan_full(on[t])
                   \/ pc[t] = "peekopen" /\ ~closed[on[t]]}

Abs == INSTANCE ChanSpec WITH
         pend <- pendBar, line <- lineBar, shut <- closed, phase <- phaseBar,
         ret <- retBar, val <- valBar, mayfail <- mayfailBar

\* The channel of chan.c keeps the promises of chan.h: messages are received
\* once and in the order they were sent, receivers are served in the order they
\* came, a call fails only when the channel was closed or, for one that does not
\* block, not ready at some moment during the call, and the messages in the
\* buffer survive ChanClose.
Refines == Abs!Spec
=============================================================================
