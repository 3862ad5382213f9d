------------------------------- MODULE MCLSema -------------------------------
(***************************************************************************)
(* Instances of LSema for TLC.                                             *)
(***************************************************************************)
EXTENDS LSema

CONSTANTS w1, w2, w3,  \* threads that wait
          p            \* a thread that signals

\* Waits of every kind against a signaller.
Mixed == [t \in Threads |-> IF t = p THEN {"signal"} ELSE {"wait", "trywait", "timedwait"}]
Calls == [t \in Threads |-> IF t \in {w1, p} THEN 2 ELSE 1]
=============================================================================
