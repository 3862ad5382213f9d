--------------------------------- MODULE Pool ---------------------------------
(***************************************************************************)
(* The lock-free free list of pkg/rbase/pool: a head with a tag, changed   *)
(* by a compare-and-swap of both words, and a PoolNext in each entry.      *)
(*                                                                         *)
(* Every atomic operation is one step.  The state at the start is the one  *)
(* of pool.c's test, whose main thread has added all entries; a thread     *)
(* then takes entries and adds those it has, at most quota at a time.      *)
(***************************************************************************)
EXTENDS Integers, FiniteSets, Sequences

CONSTANTS Threads,
          First,     \* the entries, in the order they are taken first
          Quotas,    \* how many entries a thread may have at a time
          MaxCalls,  \* bounds the calls of each thread
          TagWrap,   \* 2^64: uintptr_t counts modulo TagWrap
          NULL       \* no entry

Entries == {First[n] : n \in DOMAIN First}

\* While a thread is between the load of the head and its swap, the others change
\* the head fewer times than there are tags.
ASSUME PoolAssumption ==
  /\ IsFiniteSet(Threads)
  /\ First \in Seq(Entries) /\ Cardinality(Entries) = Len(First) /\ Len(First) > 0
  /\ Quotas \subseteq Nat /\ MaxCalls \in Nat
  /\ TagWrap \in Nat \ {0} /\ TagWrap > MaxCalls * (Cardinality(Threads) - 1)
  /\ NULL \notin Entries

VARIABLES
  quota,           \* chosen at the start, for good
  head, PoolNext,  \* the pool
  pc,              \* where each thread is
  currhead,        \* the head it has seen
  next,            \* nexthead.ptr: the entry it wants at the head
  owned,           \* the entries it has
  ret,             \* what PoolTake returned to it last
  ncalls

vars == <<quota, head, PoolNext, pc, currhead, next, owned, ret, ncalls>>

NoHead == [ptr |-> NULL, tag |-> 0]
Heads == [ptr : Entries \cup {NULL}, tag : 0 .. TagWrap - 1]

Init ==
  /\ quota \in Quotas
  /\ head = [ptr |-> First[1], tag |-> Len(First) % TagWrap]
  /\ PoolNext = [e \in Entries |->
                   LET n == CHOOSE n \in DOMAIN First : First[n] = e
                   IN IF n = Len(First) THEN NULL ELSE First[n + 1]]
  /\ pc = [t \in Threads |-> "idle"]
  /\ currhead = [t \in Threads |-> NoHead]
  /\ next = [t \in Threads |-> NULL]
  /\ owned = [t \in Threads |-> {}]
  /\ ret = [t \in Threads |-> NULL]
  /\ ncalls = [t \in Threads |-> 0]

Goto(t, from, to) == pc[t] = from /\ pc' = [pc EXCEPT ![t] = to]

See(t) == currhead' = [currhead EXCEPT ![t] = head]

\* A function that returns leaves nothing in its local variables.
Return(t, from) ==
  /\ Goto(t, from, "idle")
  /\ currhead' = [currhead EXCEPT ![t] = NoHead]
  /\ next' = [next EXCEPT ![t] = NULL]

\* Not the code: the tag stays.
Bump_Never(tag) == tag

Bump(tag) == (tag + 1) % TagWrap

Call(t) ==
  /\ ncalls[t] < MaxCalls
  /\ ncalls' = [ncalls EXCEPT ![t] = @ + 1]

-----------------------------------------------------------------------------
(* PoolAdd.                                                                *)

AddLoad(t) ==
  /\ Call(t)
  /\ \E e \in owned[t] : next' = [next EXCEPT ![t] = e]
  /\ Goto(t, "idle", "link")
  /\ See(t)
  /\ UNCHANGED <<head, PoolNext, owned, ret>>

\* The store of e->PoolNext.
Link(t) ==
  /\ Goto(t, "link", "push")
  /\ PoolNext' = [PoolNext EXCEPT ![next[t]] = currhead[t].ptr]
  /\ UNCHANGED <<head, currhead, next, owned, ret, ncalls>>

Push(t) ==
  /\ head = currhead[t]
  /\ Return(t, "push")
  /\ head' = [ptr |-> next[t], tag |-> Bump(head.tag)]
  /\ owned' = [owned EXCEPT ![t] = @ \ {next[t]}]
  /\ UNCHANGED <<PoolNext, ret, ncalls>>

\* Not the code: the loop repeats the swap only, the link stays.
PushFails_OldLink(t) ==
  /\ head # currhead[t]
  /\ Goto(t, "push", "push")
  /\ See(t)
  /\ UNCHANGED <<head, PoolNext, next, owned, ret, ncalls>>

\* Not the code: the head is not looked at again.
PushFails_OldHead(t) ==
  /\ head # currhead[t]
  /\ Goto(t, "push", "link")
  /\ UNCHANGED <<head, PoolNext, currhead, next, owned, ret, ncalls>>

\* A swap that fails loads the head.
PushFails(t) ==
  /\ head # currhead[t]
  /\ Goto(t, "push", "link")
  /\ See(t)
  /\ UNCHANGED <<head, PoolNext, next, owned, ret, ncalls>>

-----------------------------------------------------------------------------
(* PoolTake.                                                               *)

\* The condition of the loop, on the head that the load or the swap has found.
Found(t, from) ==
  \/ /\ head.ptr # NULL
     /\ Goto(t, from, "follow")
     /\ See(t)
     /\ UNCHANGED <<next, ret>>
  \/ /\ head.ptr = NULL
     /\ Return(t, from)
     /\ ret' = [ret EXCEPT ![t] = NULL]

TakeLoad(t) ==
  /\ Call(t)
  /\ Cardinality(owned[t]) < quota
  /\ Found(t, "idle")
  /\ UNCHANGED <<head, PoolNext, owned>>

\* The load of PoolNext of an entry that may have been taken by another thread.
Follow(t) ==
  /\ Goto(t, "follow", "pop")
  /\ next' = [next EXCEPT ![t] = PoolNext[currhead[t].ptr]]
  /\ UNCHANGED <<head, PoolNext, currhead, owned, ret, ncalls>>

Pop(t) ==
  /\ head = currhead[t]
  /\ Return(t, "pop")
  /\ head' = [ptr |-> next[t], tag |-> Bump(head.tag)]
  /\ owned' = [owned EXCEPT ![t] = @ \cup {head.ptr}]
  /\ ret' = [ret EXCEPT ![t] = head.ptr]
  /\ UNCHANGED <<PoolNext, ncalls>>

\* Not the code: one try only.
PopFails_GivesUp(t) ==
  /\ head # currhead[t]
  /\ Return(t, "pop")
  /\ ret' = [ret EXCEPT ![t] = NULL]
  /\ UNCHANGED <<head, PoolNext, owned, ncalls>>

PopFails(t) ==
  /\ head # currhead[t]
  /\ Found(t, "pop")
  /\ UNCHANGED <<head, PoolNext, owned, ncalls>>

-----------------------------------------------------------------------------
Step(t) ==
  /\ UNCHANGED quota
  /\ Link(t) \/ Push(t) \/ PushFails(t) \/ Follow(t) \/ Pop(t) \/ PopFails(t)

Start(t) == UNCHANGED quota /\ (AddLoad(t) \/ TakeLoad(t))

Next == \E t \in Threads : Start(t) \/ Step(t)

Spec == Init /\ [][Next]_vars

\* A thread in a call is scheduled.
FairSpec == Spec /\ \A t \in Threads : WF_vars(Step(t))

-----------------------------------------------------------------------------
(* Properties.                                                             *)

TypeOK ==
  /\ quota \in Quotas
  /\ head \in Heads
  /\ PoolNext \in [Entries -> Entries \cup {NULL}]
  /\ pc \in [Threads -> {"idle", "link", "push", "follow", "pop"}]
  /\ currhead \in [Threads -> Heads]
  /\ next \in [Threads -> Entries \cup {NULL}]
  /\ owned \in [Threads -> SUBSET Entries]
  /\ ret \in [Threads -> Entries \cup {NULL}]
  /\ ncalls \in [Threads -> 0 .. MaxCalls]

\* The n-th pointer of the list, from the head on.
Walk[n \in 0 .. Len(First)] ==
  IF n = 0 THEN head.ptr
  ELSE IF Walk[n - 1] = NULL THEN NULL ELSE PoolNext[Walk[n - 1]]

Length == Cardinality({n \in DOMAIN Walk : Walk[n] # NULL})
Listed == [n \in 1 .. Length |-> Walk[n - 1]]

\* "each entry should only be referenced in one place" (pool.c's test): it is in
\* the list, once, or one thread has it.
OnePlace ==
  \A e \in Entries :
    Cardinality({n \in DOMAIN Listed : Listed[n] = e})
      + Cardinality({t \in Threads : e \in owned[t]}) = 1

\* PoolTake does not return NULL when the pool cannot be empty: "the same number
\* of entries should be the total of entries taken by all threads".
NeverEmpty ==
  quota * Cardinality(Threads) <= Len(First) =>
    \A t \in Threads : ncalls[t] > 0 /\ pc[t] = "idle" => ret[t] # NULL

\* Entries are neither lost nor given to two threads, also when one comes back to the
\* head between a load and its swap.
PoolInv == TypeOK /\ OnePlace /\ NeverEmpty

\* Every call returns: a swap fails only because another one succeeded.
AllReturn == <>[](\A t \in Threads : pc[t] = "idle")

S == INSTANCE Stack WITH pool <- Listed

\* Taking and adding take effect one at a time, the entry added last is taken
\* first, and NULL is returned only by an empty pool.
IsStack == S!Spec
=============================================================================
