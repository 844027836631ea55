--------------------------- MODULE MCDesktopRunner ---------------------------
(* An instance of DesktopRunner for TLC: either one project with everything   *)
(* that may happen to it and two places, or two projects that compete for one *)
(* place and that nobody touches.                                             *)
EXTENDS DesktopRunner, TLC

CONSTANTS alone, other

Blueprints == alone :> 2 @@ other :> 1

\* Without a crowd, the other project was reset before it opened a page: nothing can be
\* asked of it.
MCInit ==
  /\ Init
  /\ \E crowd \in BOOLEAN :
       /\ project[other] = IF crowd THEN IdleRow ELSE ResetRow
       /\ crowd => project[alone] = IdleRow
       /\ scheduled = [p \in Projects |-> IF project[p] = IdleRow THEN 1 ELSE 0]
       /\ places = IF crowd THEN 1 ELSE 2
       /\ requests = IF crowd THEN MaxRequests ELSE 0
       /\ faults = IF crowd THEN MaxFaults ELSE 0

MCSpec == MCInit /\ [][Next]_vars /\ Fairness
=============================================================================
