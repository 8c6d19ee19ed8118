------------------------------ MODULE MCMCClient ------------------------------
(***************************************************************************)
(* Small instances of MCClient for TLC.  The finding runs take Spec.       *)
(*                                                                         *)
(* The run registry looks at one call of Connect with all that can happen  *)
(* to its containers and requests, and at two calls that race over one     *)
(* container (and with Disconnect and a change of the container).          *)
(***************************************************************************)
EXTENDS MCClient

CONSTANT Contested   \* the containers that two calls of Connect race over

OneCall ==
  /\ \A t \in Calls \ {1} : call[t].pc = "idle"
  /\ changes + faults + disconnects <= MaxChanges

RaceOver(S) ==
  /\ running \subseteq S
  /\ \A n \in Containers \ S : servers[n] = 0
  /\ \A t \in Calls : \A c \in call[t].todo : c.name \in S
  /\ \A n \in Containers : title[n] = OwnName
  /\ changes <= 1 /\ faults = 0

Bounded == OneCall \/ RaceOver(Contested)

BoundedSpec == Init /\ [][Next /\ Bounded']_vars /\ Fairness

=============================================================================
