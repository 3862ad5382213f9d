-------------------------------- MODULE MPSCQ --------------------------------
(***************************************************************************)
(* The MPSCQueue of pkg/rbase/mpscq: a ring of Cap slots, any number of    *)
(* producers and one consumer.  count admits a producer, head gives it a   *)
(* slot, and a slot is empty when it is NULL.                              *)
(*                                                                         *)
(* Every atomic operation is one step.  The k-th item of producer p is     *)
(* <<p, k>>.                                                               *)
(***************************************************************************)
EXTENDS Integers, FiniteSets

CONSTANTS Producers,
          Cap,      \* max
          MaxPuts,  \* bounds how often each producer calls
          Wrap,     \* 2^64: size_t counts modulo Wrap
          NULL      \* an empty slot

\* mpscq.h: "cap must be greater than 1".  Where Cap does not divide Wrap, head
\* skips slots when it wraps; the model is of queues in which it does not.
MPSCQAssumption ==
  /\ IsFiniteSet(Producers)
  /\ MaxPuts \in Nat
  /\ Cap \in Nat /\ Cap > 1
  /\ Wrap \in Nat \ {0} /\ Wrap % Cap = 0
  /\ NULL \notin Producers \X (1 .. MaxPuts)

VARIABLES
  count, head, tail, buffer,  \* the queue
  pc, mine, nputs,            \* a producer: where it is, its head, its calls
  took, ret,                  \* the consumer: is it in Dequeue, what it got last
  aborted                     \* has an assertion failed?

vars == <<count, head, tail, buffer, pc, mine, nputs, took, ret, aborted>>

Slots == 0 .. Cap - 1
Items == Producers \X (1 .. MaxPuts)

\* MPSCQueueInit
Init ==
  /\ count = 0
  /\ head = 0
  /\ tail = 0
  /\ buffer = [s \in Slots |-> NULL]
  /\ pc = [p \in Producers |-> "idle"]
  /\ mine = [p \in Producers |-> 0]
  /\ nputs = [p \in Producers |-> 0]
  /\ took = FALSE
  /\ ret = NULL
  /\ aborted = FALSE

Slot(p) == mine[p] % Cap

Goto(p, from, to) == pc[p] = from /\ pc' = [pc EXCEPT ![p] = to]

-----------------------------------------------------------------------------
(* MPSCQueueEnqueue.                                                       *)

\* Not the code: one producer too many is let in.
Enqueue_OffByOne(p) ==
  /\ nputs[p] < MaxPuts
  /\ Goto(p, "idle", IF count > Cap THEN "undo" ELSE "claim")
  /\ nputs' = [nputs EXCEPT ![p] = @ + 1]
  /\ count' = count + 1
  /\ UNCHANGED <<head, tail, buffer, mine, took, ret, aborted>>

Enqueue(p) ==
  /\ nputs[p] < MaxPuts
  /\ Goto(p, "idle", IF count >= Cap THEN "undo" ELSE "claim")
  /\ nputs' = [nputs EXCEPT ![p] = @ + 1]
  /\ count' = count + 1
  /\ UNCHANGED <<head, tail, buffer, mine, took, ret, aborted>>

\* Not the code: a producer that is refused leaves its addition.
Undo_Forgets(p) ==
  /\ Goto(p, "undo", "idle")
  /\ UNCHANGED <<count, head, tail, buffer, mine, nputs, took, ret, aborted>>

\* "queue is full": count is taken back and false returned.
Undo(p) ==
  /\ Goto(p, "undo", "idle")
  /\ count' = count - 1
  /\ UNCHANGED <<head, tail, buffer, mine, nputs, took, ret, aborted>>

Claim(p) ==
  /\ Goto(p, "claim", "check")
  /\ mine' = [mine EXCEPT ![p] = head]
  /\ head' = (head + 1) % Wrap
  /\ UNCHANGED <<count, tail, buffer, nputs, took, ret, aborted>>

\* assert(q->buffer[head % q->max] == 0)
Check(p) ==
  /\ Goto(p, "check", "store")
  /\ aborted' = (buffer[Slot(p)] # NULL)
  /\ UNCHANGED <<count, head, tail, buffer, mine, nputs, took, ret>>

\* The exchange, and assert(rv == NULL).
Store(p) ==
  /\ Goto(p, "store", "idle")
  /\ buffer' = [buffer EXCEPT ![Slot(p)] = <<p, nputs[p]>>]
  /\ aborted' = (buffer[Slot(p)] # NULL)
  /\ UNCHANGED <<count, head, tail, mine, nputs, took, ret>>

-----------------------------------------------------------------------------
(* MPSCQueueDequeue.  It changes nothing when the slot at tail is NULL.    *)

\* Not the code: a slot that is still NULL is passed over for the next.
Take_SkipsHole ==
  /\ ~took
  /\ \E s \in {tail, (tail + 1) % Cap} :
       /\ buffer[s] # NULL
       /\ s = tail \/ buffer[tail] = NULL
       /\ ret' = buffer[s]
       /\ buffer' = [buffer EXCEPT ![s] = NULL]
       /\ tail' = (s + 1) % Cap
  /\ took' = TRUE
  /\ UNCHANGED <<count, head, pc, mine, nputs, aborted>>

Take ==
  /\ ~took
  /\ buffer[tail] # NULL
  /\ ret' = buffer[tail]
  /\ buffer' = [buffer EXCEPT ![tail] = NULL]
  /\ tail' = IF tail + 1 >= Cap THEN 0 ELSE tail + 1
  /\ took' = TRUE
  /\ UNCHANGED <<count, head, pc, mine, nputs, aborted>>

\* The subtraction, and assert(r > 0).
Taken ==
  /\ took
  /\ took' = FALSE
  /\ count' = count - 1
  /\ aborted' = (count <= 0)
  /\ UNCHANGED <<head, tail, buffer, pc, mine, nputs, ret>>

-----------------------------------------------------------------------------
Produce(p) == Claim(p) \/ Check(p) \/ Store(p) \/ Undo(p)

Consume == Take \/ Taken

\* An assertion that fails stops the process.
Next ==
  /\ ~aborted
  /\ \/ \E p \in Producers : Enqueue(p) \/ Produce(p)
     \/ Consume

Spec == Init /\ [][Next]_vars

\* A producer in a call is scheduled; the consumer calls MPSCQueueDequeue for ever.
FairSpec ==
  /\ Spec
  /\ WF_vars(~aborted /\ Consume)
  /\ \A p \in Producers : WF_vars(~aborted /\ Produce(p))

-----------------------------------------------------------------------------
(* Properties.                                                             *)

TypeOK ==
  /\ count \in 0 .. Cap + Cardinality(Producers)
  /\ head \in 0 .. Wrap - 1
  /\ tail \in Slots
  /\ buffer \in [Slots -> Items \cup {NULL}]
  /\ pc \in [Producers -> {"idle", "undo", "claim", "check", "store"}]
  /\ mine \in [Producers -> 0 .. Wrap - 1]
  /\ nputs \in [Producers -> 0 .. MaxPuts]
  /\ took \in BOOLEAN
  /\ ret \in Items \cup {NULL}
  /\ aborted \in BOOLEAN

Filled == {s \in Slots : buffer[s] # NULL}
At(labels) == {p \in Producers : pc[p] \in labels}

\* count is the number of items, of producers on their way in or out, and of an
\* item that the consumer has and has not yet subtracted.
CountsAll ==
  count = Cardinality(Filled) + Cardinality(At({"undo", "claim", "check", "store"}))
            + (IF took THEN 1 ELSE 0)

\* No producer gets a slot that is not empty, or one that another is filling: the
\* assertions of mpscq.c hold.
SlotsFree ==
  /\ ~aborted
  /\ \A p, q \in At({"check", "store"}) :
       buffer[Slot(p)] = NULL /\ (Slot(p) = Slot(q) => p = q)

\* What the counters of the queue say of its slots, at every step of every producer.
QueueInv == TypeOK /\ CountsAll /\ SlotsFree

\* Whatever was accepted is received in the end, the slots it used are empty and
\* count is back at zero: a producer that was late does not block the rest for ever.
Drains == <>[](count = 0 /\ Filled = {} /\ At({"claim", "check", "store"}) = {})

-----------------------------------------------------------------------------
\* The places in order: those with an item, and those whose producer is late.
Late(s) == CHOOSE p \in At({"check", "store"}) : Slot(p) = s

Places ==
  [n \in 1 .. Cardinality(Filled) + Cardinality(At({"check", "store"})) |->
     LET s == (tail + n - 1) % Cap IN
       IF buffer[s] # NULL
         THEN [item |-> buffer[s], filled |-> TRUE]
         ELSE [item |-> <<Late(s), nputs[Late(s)]>>, filled |-> FALSE]]

Q == INSTANCE Queue WITH places <- Places

\* The queue is first in, first out, and never has more than Cap items.
IsQueue == Q!Spec
=============================================================================
