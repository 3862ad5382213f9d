------------------------------ MODULE MCLockFree ------------------------------
(***************************************************************************)
(* The two lock-free structures, each in behaviours of its own: part says  *)
(* which, and the state of the other stays as it is.  The three threads    *)
(* that use the pool are the producers of the queue.                       *)
(***************************************************************************)
EXTENDS Pool

CONSTANTS
  Cap, MaxPuts, Wrap,      \* the queue: its capacity, the calls of a producer, 2^64
  t1, t2, t3, e1, e2, e3

Three == <<e1, e2, e3>>

VARIABLES
  part,
  qcount, qhead, qtail, qbuffer, qpc, qmine, qnputs, qtook, qret, qaborted  \* the queue

queue == <<qcount, qhead, qtail, qbuffer, qpc, qmine, qnputs, qtook, qret, qaborted>>
all   == <<part, vars, queue>>

MQ == INSTANCE MPSCQ
  WITH count <- qcount, head <- qhead, tail <- qtail, buffer <- qbuffer,
       pc <- qpc, mine <- qmine, nputs <- qnputs,
       took <- qtook, ret <- qret, aborted <- qaborted,
       Producers <- Threads

ASSUME QueueAssumption == MQ!MPSCQAssumption

MCInit ==
  /\ Init /\ MQ!Init
  /\ part \in {"pool", "queue"}
  /\ part = "queue" => quota = CHOOSE q \in Quotas : TRUE

OfPool(A)  == part = "pool" /\ A /\ UNCHANGED <<part, queue>>
OfQueue(A) == part = "queue" /\ A /\ UNCHANGED <<part, vars>>

MCNext == OfPool(Next) \/ OfQueue(MQ!Next)

\* The fairness of both.
MCSpec ==
  /\ MCInit /\ [][MCNext]_all
  /\ \A t \in Threads : WF_all(OfPool(Step(t)))
  /\ \A t \in Threads : WF_all(OfQueue(~qaborted /\ MQ!Produce(t)))
  /\ WF_all(OfQueue(~qaborted /\ MQ!Consume))

-----------------------------------------------------------------------------
(* The properties of the queue, stated in MPSCQ.                           *)

\* MPSCQueueEnqueue and MPSCQueueDequeue: the counters agree with the slots, no assertion
\* fails, whatever the producers do at once.
QueueInv == MQ!QueueInv

\* MPSCQueueDequeue: all that MPSCQueueEnqueue accepted is received in the end.
Drains == MQ!Drains

\* The two implement a bounded queue, first in, first out.
IsQueue == MQ!IsQueue
=============================================================================
