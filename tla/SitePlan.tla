------------------------------- MODULE SitePlan -------------------------------
(* What a site project promises its operator, without messages, workers and   *)
(* database rows: its pages are written one at a time and in their order,     *)
(* each after the operator has agreed if the project asks; a page that is     *)
(* written stays written; a project stops only when it was asked to, and is   *)
(* complete when every page was tried and one written.                        *)
(* ProjectCoordinator implements it as long as operators start, retry and     *)
(* reset only a project at rest, and no message is lost or comes twice        *)
(* (MCProjectCoordinator).                                                    *)
EXTENDS Naturals

CONSTANTS
  Last,      \* the pages are 1..Last
  AskFirst   \* is the operator asked before every page, once one is written?

VARIABLES
  phase,     \* the status the operator sees
  outcome,   \* per page: "open", "good" or "bad"
  current,   \* the page that is being written, or 0
  leave,     \* may the next page be begun?
  toStop     \* has the operator asked for a stop?

planVars == <<phase, outcome, current, leave, toStop>>

OpenOnes == {p \in 1..Last : outcome[p] = "open"}
SomeGood == \E p \in 1..Last : outcome[p] = "good"

\* Workers may be at it.
UnderWay == phase \in {"pending", "generating", "failed"} /\ current = 0

PlanInit ==
  /\ phase = "pending" /\ current = 0 /\ leave = FALSE /\ toStop = FALSE
  /\ outcome = [p \in 1..Last |-> "open"]

\* The workers take the project up, or go on after an error.
GoOn ==
  /\ UnderWay /\ phase' = "generating"
  /\ UNCHANGED <<outcome, current, leave, toStop>>

\* No one has to be asked before a page is written.
Permit ==
  /\ phase = "generating" /\ current = 0 /\ (AskFirst => ~SomeGood)
  /\ leave' = TRUE
  /\ UNCHANGED <<phase, outcome, current, toStop>>

AskOperator ==
  /\ UnderWay /\ AskFirst /\ SomeGood /\ OpenOnes # {} /\ ~leave
  /\ phase' = "awaiting_page_approval"
  /\ UNCHANGED <<outcome, current, leave, toStop>>

Agree ==
  /\ phase = "awaiting_page_approval"
  /\ phase' = "generating" /\ leave' = TRUE
  /\ UNCHANGED <<outcome, current, toStop>>

\* A stop or an error comes first.
Withdraw ==
  /\ leave /\ leave' = FALSE
  /\ UNCHANGED <<phase, outcome, current, toStop>>

BeginPage ==
  /\ phase = "generating" /\ current = 0 /\ leave
  /\ current' \in OpenOnes /\ \A p \in OpenOnes : current' <= p
  /\ leave' = FALSE
  /\ UNCHANGED <<phase, outcome, toStop>>

EndPage ==
  /\ current # 0
  /\ \E result \in {"good", "bad"} : outcome' = [outcome EXCEPT ![current] = result]
  /\ current' = 0
  /\ UNCHANGED <<phase, leave, toStop>>

\* The database fails: the page is open again.
CutShort ==
  /\ current # 0
  /\ current' = 0 /\ phase' = "pending"
  /\ UNCHANGED <<outcome, leave, toStop>>

Complete ==
  /\ UnderWay /\ OpenOnes = {} /\ SomeGood
  /\ phase' = "completed" /\ leave' = FALSE
  /\ UNCHANGED <<outcome, current, toStop>>

\* An error, no file for any page, or the operator's reset.
Fail ==
  /\ UnderWay
  /\ phase' = "failed" /\ leave' = FALSE /\ toStop' \in {toStop, FALSE}
  /\ UNCHANGED <<outcome, current>>

AskStop ==
  /\ phase \in {"pending", "generating"}
  /\ toStop' = TRUE
  /\ UNCHANGED <<phase, outcome, current, leave>>

Stop ==
  /\ UnderWay /\ toStop
  /\ phase' = "stopped" /\ leave' = FALSE /\ toStop' = FALSE
  /\ UNCHANGED <<outcome, current>>

Resume ==
  /\ phase = "stopped"
  /\ phase' = "generating" /\ toStop' = FALSE
  /\ UNCHANGED <<outcome, current, leave>>

\* The pages that went wrong are open again.
RetryBad ==
  /\ current = 0 /\ \E p \in 1..Last : outcome[p] = "bad"
  /\ outcome' = [p \in 1..Last |-> IF outcome[p] = "bad" THEN "open" ELSE outcome[p]]
  /\ phase' = "generating" /\ toStop' = FALSE
  /\ UNCHANGED <<current, leave>>

PlanNext ==
  \/ GoOn \/ Permit \/ AskOperator \/ Agree \/ Withdraw \/ BeginPage \/ EndPage \/ CutShort
  \/ Complete \/ Fail \/ AskStop \/ Stop \/ Resume \/ RetryBad

\* A page that is begun ends.
PageLeft == current # 0 ~> current = 0

PlanSpec == PlanInit /\ [][PlanNext]_planVars /\ PageLeft
=============================================================================
