-------------------------------- MODULE Stack --------------------------------
(***************************************************************************)
(* What a Pool promises: entries are in the pool or belong to one thread,  *)
(* and change hands one at a time, the one that was added last first.      *)
(***************************************************************************)
EXTENDS Sequences

CONSTANTS Threads, Entries, NULL

VARIABLES
  pool,   \* a sequence of entries
  owned,  \* the entries each thread has
  ret     \* what PoolTake returned to each thread last

PoolOf(s) == {s[n] : n \in DOMAIN s}

Init ==
  /\ pool \in Seq(Entries)
  /\ PoolOf(pool) = Entries
  /\ owned = [t \in Threads |-> {}]
  /\ ret = [t \in Threads |-> NULL]

Add(t) ==
  \E e \in owned[t] :
    /\ pool' = <<e>> \o pool
    /\ owned' = [owned EXCEPT ![t] = @ \ {e}]
    /\ UNCHANGED ret

Take(t) ==
  /\ pool # <<>>
  /\ pool' = Tail(pool)
  /\ owned' = [owned EXCEPT ![t] = @ \cup {Head(pool)}]
  /\ ret' = [ret EXCEPT ![t] = Head(pool)]

\* NULL is returned only when the pool is empty.
TakeNothing(t) ==
  /\ pool = <<>>
  /\ ret' = [ret EXCEPT ![t] = NULL]
  /\ UNCHANGED <<pool, owned>>

Next == \E t \in Threads : Add(t) \/ Take(t) \/ TakeNothing(t)

Spec == Init /\ [][Next]_<<pool, owned, ret>>
=============================================================================
