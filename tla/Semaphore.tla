------------------------------ MODULE Semaphore ------------------------------
(***************************************************************************)
(* What a counting semaphore promises.  avail permits are there to take; a *)
(* thread in queue has made up its mind to wait for one.  A call that does *)
(* not wait may fail, and a wait may time out, only if there is not a      *)
(* permit for it besides those the threads in queue wait for.  got says    *)
(* who was told that it has a permit.                                      *)
(***************************************************************************)
EXTENDS Integers, FiniteSets

CONSTANTS Threads, InitCount

VARIABLES avail, queue, got

Init == avail = InitCount /\ queue = {} /\ got = [t \in Threads |-> FALSE]

Post == avail' \in Nat /\ avail' > avail /\ UNCHANGED <<queue, got>>

\* A permit is taken by a thread that waits for it or by one that need not.
Take(t) ==
  /\ avail > 0
  /\ avail' = avail - 1
  /\ queue' = queue \ {t}
  /\ got' = [got EXCEPT ![t] = TRUE]

\* There is none to spare: a thread waits, ...
Join(t) ==
  /\ t \notin queue
  /\ avail <= Cardinality(queue)
  /\ queue' = queue \cup {t}
  /\ UNCHANGED <<avail, got>>

\* ... or does not, ...
Fail(t) ==
  /\ t \notin queue
  /\ avail <= Cardinality(queue)
  /\ got' = [got EXCEPT ![t] = FALSE]
  /\ UNCHANGED <<avail, queue>>

\* ... or no longer.
TimeOut(t) ==
  /\ t \in queue
  /\ avail < Cardinality(queue)
  /\ queue' = queue \ {t}
  /\ got' = [got EXCEPT ![t] = FALSE]
  /\ UNCHANGED avail

Next == Post \/ \E t \in Threads : Take(t) \/ Join(t) \/ Fail(t) \/ TimeOut(t)

Spec == Init /\ [][Next]_<<avail, queue, got>>
=============================================================================
