-------------------------------- MODULE Queue --------------------------------
(***************************************************************************)
(* What an MPSCQueue promises: a first-in first-out queue in which a       *)
(* producer first gets a place and then fills it.  The consumer gets the   *)
(* items in the order of the places, and none while the first is unfilled. *)
(***************************************************************************)
EXTENDS Naturals, Sequences

CONSTANTS Items, Cap, NULL

VARIABLES
  places,  \* a sequence of records [item, filled]
  ret      \* what the consumer got last

Init == places = <<>> /\ ret = NULL

Reserve(i) ==
  /\ Len(places) < Cap
  /\ \A n \in DOMAIN places : places[n].item # i
  /\ places' = Append(places, [item |-> i, filled |-> FALSE])
  /\ UNCHANGED ret

Fill(n) ==
  /\ ~places[n].filled
  /\ places' = [places EXCEPT ![n] = [item |-> @.item, filled |-> TRUE]]
  /\ UNCHANGED ret

Take ==
  /\ places # <<>>
  /\ Head(places).filled
  /\ ret' = Head(places).item
  /\ places' = Tail(places)

Next ==
  \/ \E i \in Items : Reserve(i)
  \/ \E n \in DOMAIN places : Fill(n)
  \/ Take

Spec == Init /\ [][Next]_<<places, ret>>
=============================================================================
