-------------------------------- MODULE Mutex --------------------------------
(***************************************************************************)
(* What a mutex promises: of the threads that ask for it, one at a time    *)
(* has it, and only that one gives it back.                                *)
(***************************************************************************)
CONSTANTS Threads, NULL

VARIABLES asking, owner

Init == asking = {} /\ owner = NULL

Ask(t) ==
  /\ t \notin asking /\ owner # t
  /\ asking' = asking \cup {t}
  /\ UNCHANGED owner

Acquire(t) ==
  /\ t \in asking
  /\ owner = NULL
  /\ asking' = asking \ {t}
  /\ owner' = t

\* A thread that asks when the mutex is free may have it at once.
Take(t) ==
  /\ t \notin asking
  /\ owner = NULL
  /\ owner' = t
  /\ UNCHANGED asking

Release(t) ==
  /\ owner = t
  /\ owner' = NULL
  /\ UNCHANGED asking

Next == \E t \in Threads : Ask(t) \/ Acquire(t) \/ Take(t) \/ Release(t)

Spec == Init /\ [][Next]_<<asking, owner>>
=============================================================================
