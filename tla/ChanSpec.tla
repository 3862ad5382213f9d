------------------------------ MODULE ChanSpec ------------------------------
(***************************************************************************)
(* What a channel promises (pkg/rbase/chan.h), without locks, buffers,     *)
(* wait queues or signals: each call takes effect in one step between its  *)
(* start and its return.                                                   *)
(*                                                                         *)
(*   pend[c]  the messages sent and not yet received, in order.  The first *)
(*            Cap[c] are sent for good; the senders of the others wait     *)
(*   line[c]  the receivers that wait, first come first served             *)
(*   shut[c]  the channel was closed                                       *)
(*                                                                         *)
(* A call that does not block may fail when, at some moment since it       *)
(* started, the channel was open and not ready for it; mayfail holds calls *)
(* of which that is so.                                                    *)
(***************************************************************************)
EXTENDS Integers, SequencesExt

CONSTANTS Threads, Chans, Cap, Program, MaxCalls, NULL, Zero, Garbage

Ops   == {"send", "recv", "trysend", "tryrecv", "close"}
Sends == {"send", "trysend"}
Recvs == {"recv", "tryrecv"}
Tries == {"trysend", "tryrecv"}

VARIABLES
  pend, line, shut,        \* the channels
  phase, op, on, ncall,    \* the threads: idle, called, offered or waiting
  val, ret, cflag,         \* the element, result and *closed of the last call
  mayfail

callVars == <<op, on, ncall>>
vars == <<pend, line, shut, phase, callVars, val, ret, cflag, mayfail>>

Init ==
  /\ pend = [c \in Chans |-> <<>>]
  /\ line = [c \in Chans |-> <<>>]
  /\ shut = [c \in Chans |-> FALSE]
  /\ phase = [t \in Threads |-> "idle"]
  /\ op = [t \in Threads |-> "close"]
  /\ on = [t \in Threads |-> NULL]
  /\ ncall = [t \in Threads |-> 0]
  /\ val = [t \in Threads |-> Garbage]
  /\ ret = [t \in Threads |-> FALSE]
  /\ cflag = [t \in Threads |-> FALSE]
  /\ mayfail = {}

-----------------------------------------------------------------------------
NotReady(o, c) ==
  IF o = "trysend" THEN Len(pend[c]) >= Cap[c] /\ line[c] = <<>> ELSE pend[c] = <<>>

CanFail(t) == /\ phase[t] = "called" /\ op[t] \in Tries
              /\ ~shut[on[t]] /\ NotReady(op[t], on[t])

\* After every step: calls that just saw the channel not ready may be noted.
Note == mayfail' \in SUBSET {t \in Threads : t \in mayfail \/ CanFail(t)'}

Called(t, ops) == phase[t] = "called" /\ op[t] \in ops

Finish(t, r) ==
  /\ phase' = [phase EXCEPT ![t] = "idle"]
  /\ ret' = [ret EXCEPT ![t] = r]

-----------------------------------------------------------------------------
Call(t, o, c) ==
  /\ phase[t] = "idle"
  /\ ncall[t] < MaxCalls[t]
  /\ o \in Program[t]
  /\ phase' = [phase EXCEPT ![t] = "called"]
  /\ op' = [op EXCEPT ![t] = o]
  /\ on' = [on EXCEPT ![t] = c]
  /\ ncall' = [ncall EXCEPT ![t] = @ + 1]
  /\ val' = [val EXCEPT ![t] = IF o \in Sends THEN <<t, ncall[t] + 1>> ELSE Garbage]
  /\ cflag' = [cflag EXCEPT ![t] = FALSE]
  /\ UNCHANGED <<pend, line, shut, ret>>

\* A message goes to the receiver that has waited longest, ...
Deliver(t) ==
  LET c == on[t]
      r == Head(line[c])
  IN /\ Called(t, Sends)
     /\ ~shut[c]
     /\ line[c] # <<>>
     /\ line' = [line EXCEPT ![c] = Tail(@)]
     /\ val' = [val EXCEPT ![r] = val[t]]
     /\ phase' = [phase EXCEPT ![t] = "idle", ![r] = "idle"]
     /\ ret' = [ret EXCEPT ![t] = TRUE, ![r] = TRUE]
     /\ UNCHANGED <<pend, shut, callVars, cflag>>

\* ... or into the buffer, ...
Buffer(t) ==
  LET c == on[t]
  IN /\ Called(t, Sends)
     /\ ~shut[c]
     /\ line[c] = <<>>
     /\ Len(pend[c]) < Cap[c]
     /\ pend' = [pend EXCEPT ![c] = Append(@, val[t])]
     /\ Finish(t, TRUE)
     /\ UNCHANGED <<line, shut, callVars, val, cflag>>

\* ... or its sender waits behind the others.
Offer(t) ==
  LET c == on[t]
  IN /\ Called(t, {"send"})
     /\ ~shut[c]
     /\ line[c] = <<>>
     /\ Len(pend[c]) >= Cap[c]
     /\ pend' = [pend EXCEPT ![c] = Append(@, val[t])]
     /\ phase' = [phase EXCEPT ![t] = "offered"]
     /\ UNCHANGED <<line, shut, callVars, val, ret, cflag>>

\* Sending on a closed channel fails, and the caller is told why.
Refuse(t) ==
  /\ Called(t, Sends)
  /\ shut[on[t]]
  /\ Finish(t, FALSE)
  /\ cflag' = [cflag EXCEPT ![t] = (op[t] = "trysend")]
  /\ UNCHANGED <<pend, line, shut, callVars, val>>

\* The oldest message is received.  If senders wait, the first of them is done.
Take(t) ==
  LET c == on[t]
      done == {t} \cup (IF Len(pend[c]) > Cap[c] THEN {pend[c][Cap[c] + 1][1]} ELSE {})
  IN /\ Called(t, Recvs)
     /\ pend[c] # <<>>
     /\ pend' = [pend EXCEPT ![c] = Tail(@)]
     /\ val' = [val EXCEPT ![t] = Head(pend[c])]
     /\ phase' = [u \in Threads |-> IF u \in done THEN "idle" ELSE phase[u]]
     /\ ret' = [u \in Threads |-> IF u \in done THEN TRUE ELSE ret[u]]
     /\ UNCHANGED <<line, shut, callVars, cflag>>

\* There is no message: the receiver gets in line ...
Line(t) ==
  LET c == on[t]
  IN /\ Called(t, {"recv"})
     /\ ~shut[c]
     /\ pend[c] = <<>>
     /\ line' = [line EXCEPT ![c] = Append(@, t)]
     /\ phase' = [phase EXCEPT ![t] = "waiting"]
     /\ UNCHANGED <<pend, shut, callVars, val, ret, cflag>>

\* ... or learns that there will be none.
EndOfStream(t) ==
  /\ Called(t, Recvs)
  /\ shut[on[t]]
  /\ pend[on[t]] = <<>>
  /\ Finish(t, FALSE)
  /\ val' = [val EXCEPT ![t] = Zero]
  /\ cflag' = [cflag EXCEPT ![t] = (op[t] = "tryrecv")]
  /\ UNCHANGED <<pend, line, shut, callVars>>

\* A call that does not block gives up.
Fail(t) ==
  /\ Called(t, Tries)
  /\ t \in mayfail \/ CanFail(t)
  /\ Finish(t, FALSE)
  /\ UNCHANGED <<pend, line, shut, callVars, val, cflag>>

\* Closing keeps what was sent and cancels all who wait.
Close(t) ==
  LET c == on[t]
      cancelled == {u \in Threads : on[u] = c /\ phase[u] \in {"offered", "waiting"}}
  IN /\ Called(t, {"close"})
     /\ ~shut[c]
     /\ shut' = [shut EXCEPT ![c] = TRUE]
     /\ pend' = [pend EXCEPT ![c] = SubSeq(@, 1, IF Len(@) < Cap[c] THEN Len(@) ELSE Cap[c])]
     /\ line' = [line EXCEPT ![c] = <<>>]
     /\ phase' = [u \in Threads |-> IF u \in cancelled \cup {t} THEN "idle" ELSE phase[u]]
     /\ ret' = [u \in Threads |-> IF u \in cancelled THEN FALSE ELSE ret[u]]
     /\ val' = [u \in Threads |-> IF u \in cancelled /\ phase[u] = "waiting" THEN Zero ELSE val[u]]
     /\ UNCHANGED <<callVars, cflag>>

\* Nothing but the passing of a moment at which a call could have failed.
Moment == UNCHANGED <<pend, line, shut, phase, callVars, val, ret, cflag>>

-----------------------------------------------------------------------------
Next ==
  /\ \/ Moment
     \/ \E t \in Threads :
          \/ \E o \in Ops, c \in Chans : Call(t, o, c)
          \/ Deliver(t) \/ Buffer(t) \/ Offer(t) \/ Refuse(t)
          \/ Take(t) \/ Line(t) \/ EndOfStream(t) \/ Fail(t) \/ Close(t)
  /\ Note

Spec == Init /\ [][Next]_vars
=============================================================================
