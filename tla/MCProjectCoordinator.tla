------------------------- MODULE MCProjectCoordinator -------------------------
(* The chain of messages implements the plan: what the operator is shown and  *)
(* what becomes of the pages, read off the rows and the messages.             *)
EXTENDS ProjectCoordinator

\* A page is at work from its task to the report; its task is then not done.
AtWork == {job[j].page : j \in {i \in Jobs : job[i].at \in {"run", "running"}}}
PlanCurrent == IF AtWork = {} THEN 0 ELSE CHOOSE p \in AtWork : TRUE
PlanOutcome ==
  [p \in Pages |->
     IF \E t \in DOMAIN tasks : tasks[t].page = p /\ tasks[t].status = "completed" THEN "good"
     ELSE IF p \in DonePages THEN "bad"
     ELSE "open"]
\* The leave is a message: an approved one, or one for a page that no one was asked about.
PlanLeave ==
  \E j \in Jobs :
     \/ job[j].kind = "advance" /\ job[j].approved /\ Chain(j)
     \/ job[j].kind = "page" /\ job[j].at \in {"queued", "open"}

Plan == INSTANCE SitePlan WITH
  Last <- NPages, AskFirst <- Approval,
  phase <- project.status, outcome <- PlanOutcome, current <- PlanCurrent, leave <- PlanLeave,
  toStop <- project.stopping

\* The workers, whose steps are interleaved with those of operators and whose copies of the
\* project are old when they commit, keep to the plan: pages one at a time and in order, each
\* with the operator's leave, a stop only when asked for, completion only when all were tried
\* (tasks.py:91-503).
RunsPlan == Plan!PlanSpec
=============================================================================
