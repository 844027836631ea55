------------------------- MODULE TaskPipelineProofs -------------------------
(* Theorems about TaskPipeline for every plan and every number of           *)
(* deliveries.  In every environment: type correctness, that a pending task *)
(* never loses its message, and that a completed task has an article.  With *)
(* operators who act on a task at rest: one article, and neither work nor   *)
(* an approval is lost.  Without lost workers, too: no review is passed     *)
(* over, and a quiet task waits for an operator or is closed.               *)
EXTENDS TaskPipeline, TLAPS

-----------------------------------------------------------------------------
(* Rows.                                                                     *)

LEMMA NewRowType == NewRow \in Row
BY BoundAssumption DEF NewRow, Row, NewResults, StepResults, NoSteps, StepRec, StepStatus,
   StepAge, TaskStatus, Reasons

\* What a commit leaves in the row is a row.
LEMMA WrittenType ==
  ASSUME db \in Row, NEW old \in Row, NEW new \in Row
  PROVE  Written(old, new) \in Row
BY DEF Written, Row

\* A new step entry leaves the row a row.
LEMMA WithStepType ==
  ASSUME NEW row \in Row, NEW s, NEW st \in StepStatus
  PROVE  /\ WithStep(row, s, st) \in Row
         /\ WithStep(row, s, st).status = row.status
<1>1. WithStep(row, s, st).sr.step \in [Steps -> StepRec]
  BY BoundAssumption DEF WithStep, Row, StepResults, StepRec, StepAge
<1>2. QED
  BY <1>1 DEF WithStep, Row, StepResults

\* Changing the status, or a flag of step_results, leaves the row a row.
LEMMA StatusType ==
  ASSUME NEW row \in Row, NEW status \in TaskStatus
  PROVE  /\ [row EXCEPT !.status = status] \in Row
         /\ [row EXCEPT !.status = status].status = status
BY DEF Row

LEMMA ResultsType ==
  ASSUME NEW row \in Row, NEW sr \in StepResults
  PROVE  /\ [row EXCEPT !.sr = sr] \in Row
         /\ [row EXCEPT !.sr = sr].status = row.status
         /\ row.sr \in StepResults
BY DEF Row

LEMMA AutoApproveType ==
  ASSUME NEW sr \in StepResults, NEW reason
  PROVE  AutoApprove(sr, reason) \in StepResults
BY DEF AutoApprove, StepResults, Reasons

LEMMA OlderType ==
  ASSUME NEW bound \in Nat, NEW age \in 0..(bound + 1)
  PROVE  Older(age, bound) \in 0..(bound + 1)
BY DEF Older

LEMMA OlderStepsType ==
  ASSUME NEW sr \in StepResults
  PROVE  OlderSteps(sr) \in StepResults
<1>1. \A s \in Steps : Older(sr.step[s].age, StepTimeout) \in StepAge
  BY BoundAssumption, OlderType DEF StepResults, StepRec, StepAge
<1>2. OlderSteps(sr).step \in [Steps -> StepRec]
  BY <1>1 DEF OlderSteps, StepResults, StepRec
<1>3. QED
  BY <1>2 DEF OlderSteps, StepResults

-----------------------------------------------------------------------------
(* Type correctness.  A delivery at a step has a step to be at.              *)

AtStep == {"refresh", "exec", "fetched", "save", "after"}
IndexOK == \A j \in Jobs : pc[j] \in AtStep => idx[j] <= Len(Plan)
TypeInv == TypeOK /\ IndexOK

LEMMA PlanType == Len(Plan) \in Nat
BY PlanAssumption

LEMMA RowFacts ==
  ASSUME TypeOK
  PROVE  /\ db \in Row
         /\ \A j \in Jobs : mem[j] \in Row
         /\ mem \in [Jobs -> Row]
BY DEF TypeOK

\* The ways a delivery writes: through its session, ...
LEMMA FlushType ==
  ASSUME TypeOK, NEW j \in Jobs, NEW new \in Row, Flush(j, new)
  PROVE  db' \in Row /\ mem' \in [Jobs -> Row]
BY RowFacts, WrittenType DEF Flush, Commit

LEMMA CommitType ==
  ASSUME TypeOK, NEW j \in Jobs, NEW new \in Row, Commit(j, new)
  PROVE  db' \in Row
BY RowFacts, WrittenType DEF Commit

LEMMA PutStepType ==
  ASSUME TypeOK, NEW j \in Jobs, NEW st \in StepStatus, PutStep(j, st)
  PROVE  /\ db' \in Row
         /\ mem' \in [Jobs -> Row]
         /\ hb' \in [set : BOOLEAN, age : 0..(StaleAfter + 1)]
<1> DEFINE new == WithStep(mem[j], At(j), st)
<1>1. new \in Row
  BY RowFacts, WithStepType
<1>2. new.sr \in StepResults /\ Written(mem[j], new) \in Row
  BY <1>1, RowFacts, WrittenType DEF Row
<1> HIDE DEF new
<1>3. [Written(mem[j], new) EXCEPT !.sr = new.sr] \in Row
  BY <1>2, ResultsType
<1>4. db' = [Written(mem[j], new) EXCEPT !.sr = new.sr] /\ mem' = [mem EXCEPT ![j] = new]
  BY DEF PutStep, new
<1>5. hb' \in [set : BOOLEAN, age : 0..(StaleAfter + 1)]
  BY BoundAssumption DEF PutStep, Pulse
<1>6. QED
  BY <1>1, <1>3, <1>4, <1>5, RowFacts

\* ... or by closing it.
LEMMA CloseType ==
  ASSUME TypeInv, NEW j \in Jobs, NEW label \in {"queued", "done"}, Close(j, label)
  PROVE  /\ pc' \in [Jobs -> Labels]
         /\ mem' \in [Jobs -> Row]
         /\ idx' \in [Jobs -> 1..(Len(Plan) + 1)]
         /\ att' \in [Jobs -> 0..2]
         /\ found' \in [Jobs -> {"none", "row", "gone"}]
         /\ IndexOK'
BY NewRowType, PlanType, BoundAssumption
   DEF TypeInv, TypeOK, IndexOK, AtStep, Close, Goto, Labels, StepAge

LEMMA TouchType ==
  ASSUME TypeOK, Touch
  PROVE  hb' \in [set : BOOLEAN, age : 0..(StaleAfter + 1)]
BY BoundAssumption DEF TypeOK, Touch

\* One step per action of a delivery.
LEMMA WorkType ==
  ASSUME TypeInv, NEW j \in Jobs, Work(j)
  PROVE  TypeInv'
<1> USE BoundAssumption, PlanType, RowFacts, TouchType DEF TypeInv
<1>1. CASE Receive(j)
  BY <1>1 DEF Receive, TypeOK, IndexOK, AtStep, Labels, Reload, Goto
<1>2. CASE Begin(j)
  <2> DEFINE new == [mem[j] EXCEPT !.status = "processing"]
  <2>1. new \in Row
    BY StatusType DEF TaskStatus
  <2>2. db' \in Row /\ mem' \in [Jobs -> Row]
    BY <1>2, <2>1, FlushType DEF Begin
  <2>3. QED
    BY <1>2, <2>2 DEF Begin, TypeOK, IndexOK, AtStep, Labels, Goto
<1>3. CASE EntryPaused(j)
  <2>1. [mem[j] EXCEPT !.status = "paused"] \in Row
    BY StatusType DEF TaskStatus
  <2>2. db' \in Row
    BY <1>3, <2>1, CommitType DEF EntryPaused
  <2>3. QED
    BY <1>3, <2>2, CloseType DEF EntryPaused, TypeOK
<1>4. CASE EntryResume(j)
  <2> DEFINE sr == mem[j].sr
             cleared == IF sr.pause = "none" THEN sr
                        ELSE IF Approved(sr, sr.pause) THEN [sr EXCEPT !.pause = "none"]
                        ELSE AutoApprove(sr, sr.pause)
             new == [mem[j] EXCEPT !.sr = [cleared EXCEPT !.plan = TRUE]]
  <2>1. sr \in StepResults
    BY DEF Row
  <2>2. cleared \in StepResults
    BY <2>1, AutoApproveType DEF StepResults
  <2>3. [cleared EXCEPT !.plan = TRUE] \in StepResults
    <3> HIDE DEF cleared
    <3> QED BY <2>2 DEF StepResults
  <2>4. new \in Row
    BY <2>3, ResultsType
  <2>5. Flush(j, new)
    BY <1>4 DEF EntryResume
  <2> HIDE DEF new
  <2>6. db' \in Row /\ mem' \in [Jobs -> Row]
    BY <2>4, <2>5, FlushType
  <2>7. QED
    BY <1>4, <2>6 DEF EntryResume, TypeOK, IndexOK, AtStep, Labels, Goto
<1>5. CASE SkipCompleted(j)
  BY <1>5 DEF SkipCompleted, TypeOK, IndexOK, AtStep, Labels, Goto
<1>6. CASE StartStep(j)
  <2>1. /\ db' \in Row
        /\ mem' \in [Jobs -> Row]
        /\ hb' \in [set : BOOLEAN, age : 0..(StaleAfter + 1)]
    BY <1>6, PutStepType DEF StartStep, StepStatus
  <2>2. PICK label \in {"refresh", "exec"} : pc' = [pc EXCEPT ![j] = label]
    BY <1>6 DEF StartStep, Goto
  <2>3. pc' \in [Jobs -> Labels] /\ IndexOK'
    BY <1>6, <2>2 DEF StartStep, TypeOK, IndexOK, AtStep, Labels
  <2>4. att' \in [Jobs -> 0..2]
    BY <1>6 DEF StartStep, TypeOK, StepAge
  <2>5. QED
    BY <1>6, <2>1, <2>3, <2>4 DEF StartStep, TypeOK
<1>7. CASE RefreshStep(j)
  BY <1>7 DEF RefreshStep, TypeOK, IndexOK, AtStep, Labels, Goto, Reload
<1>8. CASE SerpFetch(j)
  <2> DEFINE new == [mem[j] EXCEPT !.serp = TRUE]
  <2>1. new \in Row
    BY DEF Row
  <2>2. db' \in Row /\ mem' \in [Jobs -> Row]
    BY <1>8, <2>1, FlushType DEF SerpFetch
  <2>3. QED
    BY <1>8, <2>2 DEF SerpFetch, TypeOK, IndexOK, AtStep, Labels, Goto, Reasons
<1>9. CASE SerpPause(j)
  <2> DEFINE new == [mem[j] EXCEPT !.status = "paused", !.sr.pause = "serp_review"]
  <2>1. new \in Row
    BY ZenonT(30) DEF Row, StepResults, TaskStatus, Reasons
  <2>2. db' \in Row /\ mem' \in [Jobs -> Row]
    BY <1>9, <2>1, FlushType DEF SerpPause
  <2>3. QED
    BY <1>9, <2>2 DEF SerpPause, TypeOK, IndexOK, AtStep, Labels, Goto
<1>10. CASE Scrape(j)
  <2> DEFINE new == [mem[j] EXCEPT !.text = TRUE]
  <2>1. new \in Row
    BY DEF Row
  <2>2. db' \in Row /\ mem' \in [Jobs -> Row]
    BY <1>10, <2>1, FlushType DEF Scrape
  <2>3. QED
    BY <1>10, <2>2 DEF Scrape, TypeOK, IndexOK, AtStep, Labels, Goto
<1>11. CASE MakeImages(j)
  <2> DEFINE new == [mem[j] EXCEPT !.status = "processing", !.sr.pause = "image_review"]
  <2>1. new \in Row
    BY ZenonT(30) DEF Row, StepResults, TaskStatus, Reasons
  <2>2. db' \in Row /\ mem' \in [Jobs -> Row]
    BY <1>11, <2>1, FlushType DEF MakeImages
  <2>3. QED
    BY <1>11, <2>2 DEF MakeImages, TypeOK, IndexOK, AtStep, Labels, Goto, Reasons
<1>12. ASSUME NEW st \in StepStatus, NEW label \in {"after", "fail"}, SaveStep(j, st, label),
              pc[j] \in {"exec", "save"}, unreviewed' \subseteq Reasons
       PROVE  TypeInv'
  <2>1. /\ db' \in Row
        /\ mem' \in [Jobs -> Row]
        /\ hb' \in [set : BOOLEAN, age : 0..(StaleAfter + 1)]
    BY <1>12, PutStepType DEF SaveStep
  <2>2. QED
    BY <1>12, <2>1 DEF SaveStep, TypeOK, IndexOK, AtStep, Labels, Goto
<1>13. CASE ImageKeysMissing(j)
  BY <1>13, <1>12 DEF ImageKeysMissing, StepStatus, TypeOK
<1>14. CASE SaveResult(j)
  <2>1. unreviewed' \subseteq Reasons
    BY <1>14 DEF SaveResult, TypeOK, Reasons
  <2>2. QED
    BY <1>14, <2>1, <1>12 DEF SaveResult, StepStatus, TypeOK
<1>15. CASE SkipStep(j)
  BY <1>15, <1>12 DEF SkipStep, StepStatus, TypeOK
<1>16. CASE TimeOutStep(j)
  BY <1>16, <1>12 DEF TimeOutStep, StepStatus, TypeOK
<1>17. CASE PauseHere(j)
  <2>1. PICK reason \in Reasons :
          Commit(j, IF reason = "test_mode"
                    THEN [mem[j] EXCEPT !.status = "processing", !.sr.pause = reason,
                                        !.sr.waiting = TRUE]
                    ELSE mem[j])
    BY <1>17 DEF PauseHere
  <2> DEFINE sr == [mem[j].sr EXCEPT !.pause = reason, !.waiting = TRUE]
  <2>2. [mem[j] EXCEPT !.status = "processing", !.sr.pause = reason, !.sr.waiting = TRUE] \in Row
    <3>1. sr \in StepResults
      BY DEF Row, StepResults
    <3>2. [mem[j] EXCEPT !.status = "processing", !.sr = sr] \in Row
      BY <3>1 DEF Row, TaskStatus
    <3>3. [mem[j] EXCEPT !.status = "processing", !.sr.pause = reason, !.sr.waiting = TRUE]
            = [mem[j] EXCEPT !.status = "processing", !.sr = sr]
      BY DEF Row
    <3>4. QED
      BY <3>2, <3>3
  <2>3. db' \in Row
    BY <2>1, <2>2, CommitType
  <2>4. QED
    BY <1>17, <2>3, CloseType DEF PauseHere, TypeOK
<1>18. CASE Continue(j)
  <2>1. db' \in Row /\ mem' \in [Jobs -> Row]
    <3>1. CASE UNCHANGED <<db, mem>>
      BY <3>1
    <3>2. ASSUME NEW reason, Flush(j, [mem[j] EXCEPT !.sr = AutoApprove(mem[j].sr, reason)])
          PROVE  db' \in Row /\ mem' \in [Jobs -> Row]
      <4>1. AutoApprove(mem[j].sr, reason) \in StepResults
        BY AutoApproveType DEF Row
      <4>2. [mem[j] EXCEPT !.sr = AutoApprove(mem[j].sr, reason)] \in Row
        BY <4>1, ResultsType
      <4>3. QED
        BY <3>2, <4>2, FlushType
    <3>3. QED
      BY <1>18, <3>1, <3>2 DEF Continue
  <2>2. idx' \in [Jobs -> 1..(Len(Plan) + 1)]
    BY <1>18 DEF Continue, TypeOK, IndexOK, AtStep
  <2>3. pc' \in [Jobs -> Labels] /\ IndexOK'
    BY <1>18 DEF Continue, TypeOK, IndexOK, AtStep, Labels, Goto
  <2>4. unreviewed' \subseteq Reasons
    BY <1>18 DEF Continue, TypeOK
  <2>5. QED
    BY <1>18, <2>1, <2>2, <2>3, <2>4 DEF Continue, TypeOK
<1>19. CASE PhaseEnd(j)
  BY <1>19 DEF PhaseEnd, TypeOK, IndexOK, AtStep, Labels, Goto
<1>20. CASE Assemble(j)
  BY <1>20 DEF Assemble, TypeOK, IndexOK, AtStep, Labels, Goto
<1>21. CASE Upsert(j)
  <2>1. [mem[j] EXCEPT !.status = "completed"] \in Row
    BY StatusType DEF TaskStatus
  <2>2. db' \in Row
    BY <1>21, <2>1, CommitType DEF Upsert
  <2>3. QED
    BY <1>21, <2>2, CloseType DEF Upsert, TypeOK
<1>22. CASE Fail(j)
  <2>1. db' \in Row
    BY <1>22, StatusType DEF Fail, FailRow, TaskStatus
  <2>2. QED
    BY <1>22, <2>1, CloseType DEF Fail, FailRow, TypeOK
<1>23. CASE KillRevoked(j)
  BY <1>23, CloseType DEF KillRevoked, TypeOK, rowVars
<1>24. CASE DropRevoked(j)
  BY <1>24 DEF DropRevoked, TypeOK, IndexOK, AtStep, Labels, Goto, rowVars, workVars
<1>25. QED
  BY <1>1, <1>2, <1>3, <1>4, <1>5, <1>6, <1>7, <1>8, <1>9, <1>10, <1>11, <1>13, <1>14,
     <1>15, <1>16, <1>17, <1>18, <1>19, <1>20, <1>21, <1>22, <1>23, <1>24 DEF Work

LEMMA DisturbType ==
  ASSUME TypeInv, NEW j \in Jobs, Disturb(j)
  PROVE  TypeInv'
<1> USE BoundAssumption, PlanType, RowFacts, TouchType DEF TypeInv
<1>1. CASE TouchHeartbeat(j)
  BY <1>1 DEF TouchHeartbeat, Pulse, TypeOK, IndexOK
<1>2. CASE RetryStep(j)
  <2>1. MaxRetries(At(j)) \in {0, 1, 2} /\ att[j] \in 0..2 /\ att[j] < MaxRetries(At(j))
    BY <1>2 DEF RetryStep, TypeOK, MaxRetries
  <2>2. att' \in [Jobs -> 0..2]
    <3>1. att[j] + 1 \in 0..2
      BY <2>1
    <3>2. att' = [att EXCEPT ![j] = att[j] + 1]
      BY <1>2 DEF RetryStep
    <3>3. QED
      BY <3>1, <3>2 DEF TypeOK
  <2>3. pc' \in [Jobs -> Labels] /\ IndexOK'
    BY <1>2 DEF RetryStep, TypeOK, IndexOK, AtStep, Labels, Goto
  <2>4. mem' \in [Jobs -> Row]
    BY <1>2 DEF RetryStep, Reload
  <2>5. QED
    BY <1>2, <2>2, <2>3, <2>4 DEF RetryStep, TypeOK
<1>3. ASSUME NEW kind, Fault(kind)
      PROVE  faults' \in 0..MaxFaults
  BY <1>3 DEF Fault, TypeOK
<1>4. CASE Crash(j)
  BY <1>4, <1>3, CloseType DEF Crash, TypeOK, rowVars
<1>5. CASE HardLimit(j)
  BY <1>5, <1>3, CloseType DEF HardLimit, TypeOK, rowVars
<1>6. CASE DatabaseError(j)
  <2>1. db' \in Row
    BY <1>6, StatusType DEF DatabaseError, FailRow, TaskStatus
  <2>2. QED
    BY <1>6, <1>3, <2>1, CloseType DEF DatabaseError, FailRow, TypeOK
<1>7. QED
  BY <1>1, <1>2, <1>4, <1>5, <1>6 DEF Disturb

LEMMA QueueType ==
  ASSUME TypeInv, NEW j \in Jobs, Queue(j)
  PROVE  /\ pc' \in [Jobs -> Labels]
         /\ auto' \in [Jobs -> BOOLEAN]
         /\ unsent' \in BOOLEAN
         /\ faults' \in 0..MaxFaults
         /\ idx' = idx => IndexOK'
BY DEF TypeInv, TypeOK, IndexOK, AtStep, Queue, Goto, Labels

\* A handler that writes a row and sends a message.
LEMMA RequeueType ==
  ASSUME TypeInv, NEW row \in Row, Requeue(row),
         articles' \in Nat, unreviewed' \subseteq Reasons,
         found' \in [Jobs -> {"none", "row", "gone"}]
  PROVE  TypeInv'
<1>1. db' \in Row
  BY StatusType DEF Requeue, TaskStatus
<1>2. hb' \in [set : BOOLEAN, age : 0..(StaleAfter + 1)]
  BY TouchType DEF Requeue, TypeInv
<1>3. CASE \E j \in Jobs : Queue(j) /\ celeryId' = j
  BY <1>1, <1>2, <1>3, QueueType DEF Requeue, TypeInv, TypeOK
<1>4. CASE Fault("broker") /\ unsent' = TRUE /\ UNCHANGED <<pc, auto, celeryId>>
  BY <1>1, <1>2, <1>4, BoundAssumption DEF Requeue, Fault, TypeInv, TypeOK, IndexOK
<1>5. QED
  BY <1>3, <1>4 DEF Requeue, Enqueue

\* The handlers that send the task back to work.
SendsBack ==
  \/ Retry \/ ApproveTest \/ ApproveSerp \/ ApproveImages
  \/ \E s \in Steps, cascade \in BOOLEAN : Rerun(s, cascade)

LEMMA RewoundType ==
  ASSUME TypeInv, NEW s \in Steps, NEW cascade \in BOOLEAN
  PROVE  Rewound(s, cascade) \in Row
<1> USE BoundAssumption, RowFacts DEF TypeInv
<1> DEFINE step == [t \in Steps |-> IF t \in Invalidated(s, cascade)
                                    THEN NoSteps[t] ELSE db.sr.step[t]]
           sr == [db.sr EXCEPT !.step = step]
<1>1. step \in [Steps -> StepRec]
  BY DEF Row, StepResults, NoSteps, StepRec, StepStatus, StepAge
<1>2. sr \in StepResults
  <2> HIDE DEF step
  <2> QED BY <1>1 DEF Row, StepResults
<1>3. Rewound(s, cascade) = [db EXCEPT !.sr = sr,
                                       !.serp = @ /\ s # SERP,
                                       !.text = @ /\ s \notin {SERP, SCRAPING}]
  BY DEF Rewound, Row, StepResults
<1>4. QED
  <2> HIDE DEF sr
  <2> QED BY <1>2, <1>3 DEF Row

\* Each of them rewrites the row, and what it requeues is a row.
LEMMA RequeuedRow ==
  ASSUME TypeInv, SendsBack
  PROVE  \E row \in Row : Requeue(row)
<1> USE RowFacts DEF TypeInv
<1>1. CASE Retry
  BY <1>1 DEF Retry, TypeOK
<1>2. CASE ApproveTest
  <2>1. [db EXCEPT !.sr.waiting = FALSE, !.sr.testOk = TRUE] \in Row
    BY DEF Row, StepResults
  <2>2. QED
    BY <1>2, <2>1 DEF ApproveTest
<1>3. CASE ApproveSerp
  <2> DEFINE sr == [db.sr EXCEPT !.pause = "none", !.serpOk = TRUE]
  <2>1. sr \in StepResults
    BY DEF Row, StepResults
  <2>2. [db EXCEPT !.serp = TRUE, !.sr = sr] \in Row
    BY <2>1 DEF Row
  <2>3. [db EXCEPT !.serp = TRUE, !.sr.pause = "none", !.sr.serpOk = TRUE]
          = [db EXCEPT !.serp = TRUE, !.sr = sr]
    BY DEF Row
  <2>4. QED
    BY <1>3, <2>2, <2>3 DEF ApproveSerp
<1>4. CASE ApproveImages
  <2>1. [db EXCEPT !.sr.pause = "none", !.sr.imagesOk = TRUE] \in Row
    BY DEF Row, StepResults
  <2>2. QED
    BY <1>4, <2>1 DEF ApproveImages
<1>5. ASSUME NEW s \in Steps, NEW cascade \in BOOLEAN, Rerun(s, cascade)
      PROVE  \E row \in Row : Requeue(row)
  BY <1>5, RewoundType DEF Rerun
<1>6. QED
  BY <1>1, <1>2, <1>3, <1>4, <1>5 DEF SendsBack

LEMMA OperatorType ==
  ASSUME TypeInv, Operator
  PROVE  TypeInv'
<1> USE BoundAssumption, RowFacts, TouchType DEF TypeInv
<1>1. CASE StartNext
  BY <1>1, QueueType DEF StartNext, TypeOK, workVars
<1>2. CASE StartAll
  BY <1>2, QueueType DEF StartAll, TypeOK, workVars, rowVars
<1>3. CASE SendsBack
  <2>1. PICK row \in Row : Requeue(row)
    BY <1>3, RequeuedRow
  <2>2. unreviewed' \subseteq Reasons
    BY <1>3 DEF SendsBack, Retry, ApproveTest, ApproveSerp, ApproveImages, Rerun, TypeOK
  <2>3. articles' \in Nat /\ found' \in [Jobs -> {"none", "row", "gone"}]
    <3>1. CASE UNCHANGED <<articles, found>>
      BY <3>1 DEF TypeOK
    <3>2. CASE DeleteArticle
      BY <3>2 DEF DeleteArticle, TypeOK
    <3>3. QED
      BY <1>3, <3>1, <3>2 DEF SendsBack, Retry, ApproveTest, ApproveSerp, ApproveImages, Rerun
  <2>4. QED
    BY <2>1, <2>2, <2>3, RequeueType
<1>4. CASE ForceFail
  <2>1. db' \in Row
    BY <1>4, StatusType DEF ForceFail, TaskStatus
  <2>2. QED
    BY <1>4, <2>1 DEF ForceFail, TypeOK, IndexOK, workVars
<1>5. CASE ForceComplete
  <2>1. db' \in Row
    BY <1>5, StatusType DEF ForceComplete, TaskStatus
  <2>2. QED
    BY <1>5, <2>1 DEF ForceComplete, TypeOK, IndexOK, workVars
<1>6. QED
  BY <1>1, <1>2, <1>3, <1>4, <1>5 DEF Operator, SendsBack

LEMMA BeatType ==
  ASSUME TypeInv, Beat
  PROVE  TypeInv'
<1> USE BoundAssumption, RowFacts, TouchType DEF TypeInv
<1>1. CASE Tick
  <2>1. \A row \in Row : [row EXCEPT !.sr = OlderSteps(@)] \in Row
    BY OlderStepsType DEF Row
  <2>2. db' \in Row /\ mem' \in [Jobs -> Row]
    BY <1>1, <2>1 DEF Tick
  <2>3. hb' \in [set : BOOLEAN, age : 0..(StaleAfter + 1)]
    BY <1>1, OlderType DEF Tick, TypeOK
  <2>4. QED
    BY <1>1, <2>2, <2>3 DEF Tick, TypeOK, IndexOK
<1>2. CASE BeatScan
  BY <1>2 DEF BeatScan, TypeOK, IndexOK, rowVars, workVars
<1>3. CASE BeatCommit
  <2>1. db' \in Row
    BY <1>3, StatusType DEF BeatCommit, TaskStatus
  <2>2. QED
    BY <1>3, <2>1 DEF BeatCommit, TypeOK, IndexOK, workVars
<1>4. QED
  BY <1>1, <1>2, <1>3 DEF Beat

LEMMA TypeInit == Init => TypeInv
<1> SUFFICES ASSUME Init PROVE TypeInv
  OBVIOUS
<1>1. /\ celeryId \in Jobs \cup {None}
      /\ pc \in [Jobs -> {"unused", "queued"}]
      /\ auto \in [Jobs -> BOOLEAN]
  BY ModeAssumption DEF Init
<1>2. /\ db \in Row
      /\ mem \in [Jobs -> Row]
      /\ idx \in [Jobs -> 1..(Len(Plan) + 1)]
      /\ unsent \in BOOLEAN
  BY NewRowType, PlanType, BoundAssumption, ModeAssumption DEF Init, StepAge
<1>3. QED
  BY <1>1, <1>2, BoundAssumption DEF Init, TypeInv, TypeOK, IndexOK, AtStep, Labels

LEMMA TypeNext == TypeInv /\ [Next]_vars => TypeInv'
<1> SUFFICES ASSUME TypeInv, [Next]_vars PROVE TypeInv'
  OBVIOUS
<1>1. CASE UNCHANGED vars
  BY <1>1 DEF vars, TypeInv, TypeOK, IndexOK
<1>2. QED
  BY <1>1, WorkType, DisturbType, OperatorType, BeatType DEF Next

\* Every state of the model is well typed: statuses, step entries, ages and labels
\* stay in their ranges, and a delivery at a step has a step of the plan to be at.
THEOREM TypeCorrect == Spec => []TypeOK
<1>1. TypeInv => TypeOK
  BY DEF TypeInv
<1>2. QED
  BY <1>1, TypeInit, TypeNext, PTL DEF Spec

-----------------------------------------------------------------------------
(* A pending task has its message.  The invariant is made inductive by saying *)
(* that the ids the workers may be told to revoke belong to messages already  *)
(* sent: a fresh message is never revoked before it exists.                   *)

SentIds ==
  /\ \A j \in revoked : pc[j] # "unused"
  /\ celeryId \in Jobs => pc[celeryId] # "unused"
  /\ beat.id \in Jobs => pc[beat.id] # "unused"
JobInv == PendingHasJob /\ SentIds

\* A commit makes the status st only if the session changed it to st.
LEMMA WrittenStatus ==
  ASSUME NEW old, NEW new, NEW st, new.status # st \/ new.status = old.status
  PROVE  Written(old, new).status = st => db.status = st
BY DEF Written

LEMMA CommitStatus ==
  ASSUME NEW j \in Jobs, NEW new, Commit(j, new), NEW status, new.status = status,
         status = mem[j].status \/ status \notin {"pending", "completed"}
  PROVE  \A st \in {"pending", "completed"} : db'.status = st => db.status = st
<1> SUFFICES ASSUME NEW st \in {"pending", "completed"}
             PROVE  db'.status = st => db.status = st
  OBVIOUS
<1>1. Written(mem[j], new).status = st => db.status = st
  BY WrittenStatus
<1>2. QED
  BY <1>1 DEF Commit

LEMMA PutStepStatus ==
  ASSUME TypeOK, NEW j \in Jobs, NEW step \in StepStatus, PutStep(j, step), NEW st
  PROVE  db'.status = st => db.status = st
<1>1. WithStep(mem[j], At(j), step).status = mem[j].status
  BY RowFacts, WithStepType
<1>2. Written(mem[j], WithStep(mem[j], At(j), step)).status = st => db.status = st
  BY <1>1, WrittenStatus
<1>3. QED
  BY <1>2 DEF PutStep, Written

\* What a step of delivery j leaves alone: it makes no row pending or completed,
\* it sends nothing, revokes nothing and touches no other delivery.
Keeps(j) ==
  /\ \A st \in {"pending", "completed"} : db'.status = st => db.status = st
  /\ pc[j] # "unused" /\ pc'[j] # "unused"
  /\ \A k \in Jobs \ {j} : pc'[k] = pc[k] /\ mem'[k] = mem[k]
  /\ celeryId' \in {celeryId, j}
  /\ revoked' = revoked /\ beat' = beat /\ unsent' = unsent
  /\ Carries(j) /\ db'.status = "pending" => Carries(j)'

LEMMA KeepsJobInv ==
  ASSUME TypeInv, JobInv, NEW j \in Jobs, Keeps(j)
  PROVE  JobInv'
<1>1. SentIds'
  BY DEF JobInv, SentIds, Keeps, TypeInv, TypeOK
<1>2. ASSUME db'.status = "pending", ~unsent'
      PROVE  \E k \in Jobs : Carries(k)'
  <2>1. PICK k \in Jobs : Carries(k)
    BY <1>2 DEF JobInv, PendingHasJob, Keeps
  <2>2. Carries(k)'
    BY <1>2, <2>1 DEF Keeps, Carries
  <2>3. QED
    BY <2>2
<1>3. QED
  BY <1>1, <1>2 DEF JobInv, PendingHasJob

\* Closing a session that wrote nothing, or wrote a status that is not pending.
LEMMA CloseKeeps ==
  ASSUME TypeInv, NEW j \in Jobs, NEW label \in {"queued", "done"}, Close(j, label),
         pc[j] # "unused",
         \A st \in {"pending", "completed"} : db'.status = st => db.status = st,
         UNCHANGED <<celeryId, revoked, beat, unsent>>,
         label = "done" => (j \in revoked \/ pc[j] \notin {"queued", "begin"}
                            \/ db'.status # "pending")
  PROVE  Keeps(j)
BY DEF Keeps, Close, Goto, Carries, TypeInv, TypeOK

LEMMA WorkKeeps ==
  ASSUME TypeInv, NEW j \in Jobs, Work(j), ~Upsert(j)
  PROVE  Keeps(j) /\ articles' = articles
<1> USE RowFacts DEF TypeInv
<1> DEFINE Quieter == \A st \in {"pending", "completed"} : db'.status = st => db.status = st
<1>1. CASE Receive(j)
  BY <1>1 DEF Receive, Keeps, Carries, Reload, Goto, TypeOK
<1>2. CASE Begin(j)
  <2>1. Quieter
    <3> DEFINE new == [mem[j] EXCEPT !.status = "processing"]
    <3>1. Commit(j, new)
      BY <1>2 DEF Begin, Flush
    <3>2. new.status = "processing"
      BY StatusType DEF TaskStatus
    <3> HIDE DEF new
    <3>3. QED
      BY <3>1, <3>2, CommitStatus
  <2>2. Carries(j) => db'.status # "pending"
    BY <1>2, StatusType DEF Begin, Flush, Commit, Written, Carries, TaskStatus
  <2>3. QED
    BY <1>2, <2>1, <2>2 DEF Begin, Flush, Keeps, Goto, TypeOK
<1>3. CASE EntryPaused(j)
  <2>1. Quieter
    <3> DEFINE new == IF mem[j].sr.pause = "serp_review"
                      THEN [mem[j] EXCEPT !.status = "paused"] ELSE mem[j]
    <3>1. Commit(j, new)
      BY <1>3 DEF EntryPaused
    <3>2. new.status = mem[j].status \/ new.status = "paused"
      BY StatusType DEF TaskStatus
    <3> HIDE DEF new
    <3>3. QED
      BY <3>1, <3>2, CommitStatus
  <2>2. QED
    BY <1>3, <2>1, CloseKeeps DEF EntryPaused
<1>4. CASE EntryResume(j)
  <2>1. PICK sr : Flush(j, [mem[j] EXCEPT !.sr = sr])
    BY <1>4 DEF EntryResume
  <2> DEFINE new == [mem[j] EXCEPT !.sr = sr]
  <2>2. Commit(j, new)
    BY <2>1 DEF Flush
  <2>3. Quieter
    <3>1. new.status = mem[j].status
      BY DEF Row
    <3> HIDE DEF new
    <3>2. QED
      BY <2>2, <3>1, CommitStatus
  <2>4. QED
    BY <1>4, <2>1, <2>3 DEF EntryResume, Flush, Keeps, Goto, Carries, TypeOK
<1>5. CASE SkipCompleted(j)
  BY <1>5 DEF SkipCompleted, Keeps, Goto, Carries, TypeOK
<1>6. CASE StartStep(j)
  <2>1. Quieter
    BY <1>6, PutStepStatus DEF StartStep, StepStatus
  <2>2. PICK label \in {"refresh", "exec"} : pc' = [pc EXCEPT ![j] = label]
    BY <1>6 DEF StartStep, Goto
  <2>3. QED
    BY <1>6, <2>1, <2>2 DEF StartStep, PutStep, Keeps, Carries, TypeOK
<1>7. CASE RefreshStep(j)
  BY <1>7 DEF RefreshStep, Keeps, Reload, Goto, Carries, TypeOK
<1>8. CASE SerpFetch(j)
  <2> DEFINE new == [mem[j] EXCEPT !.serp = TRUE]
  <2>1. Commit(j, new)
    BY <1>8 DEF SerpFetch, Flush
  <2>2. Quieter
    <3>1. new.status = mem[j].status
      BY DEF Row
    <3> HIDE DEF new
    <3>2. QED
      BY <2>1, <3>1, CommitStatus
  <2>3. QED
    BY <1>8, <2>2 DEF SerpFetch, Flush, Keeps, Goto, Carries, TypeOK
<1>9. CASE SerpPause(j)
  <2> DEFINE new == [mem[j] EXCEPT !.status = "paused", !.sr.pause = "serp_review"]
  <2>1. Commit(j, new)
    BY <1>9 DEF SerpPause, Flush
  <2>2. Quieter
    <3>1. new.status = "paused"
      BY DEF Row
    <3> HIDE DEF new
    <3>2. QED
      BY <2>1, <3>1, CommitStatus
  <2>3. QED
    BY <1>9, <2>2 DEF SerpPause, Flush, Keeps, Goto, Carries, TypeOK
<1>10. CASE Scrape(j)
  <2> DEFINE new == [mem[j] EXCEPT !.text = TRUE]
  <2>1. Commit(j, new)
    BY <1>10 DEF Scrape, Flush
  <2>2. Quieter
    <3>1. new.status = mem[j].status
      BY DEF Row
    <3> HIDE DEF new
    <3>2. QED
      BY <2>1, <3>1, CommitStatus
  <2>3. QED
    BY <1>10, <2>2 DEF Scrape, Flush, Keeps, Goto, Carries, TypeOK
<1>11. CASE MakeImages(j)
  <2> DEFINE new == [mem[j] EXCEPT !.status = "processing", !.sr.pause = "image_review"]
  <2>1. Commit(j, new)
    BY <1>11 DEF MakeImages, Flush
  <2>2. Quieter
    <3>1. new.status = "processing"
      BY DEF Row
    <3> HIDE DEF new
    <3>2. QED
      BY <2>1, <3>1, CommitStatus
  <2>3. QED
    BY <1>11, <2>2 DEF MakeImages, Flush, Keeps, Goto, Carries, TypeOK
<1>12. ASSUME NEW step \in StepStatus, NEW label \in {"after", "fail"},
              SaveStep(j, step, label), pc[j] \in {"exec", "save"}
       PROVE  Keeps(j) /\ articles' = articles
  <2>1. Quieter
    BY <1>12, PutStepStatus DEF SaveStep
  <2>2. QED
    BY <1>12, <2>1 DEF SaveStep, PutStep, Keeps, Goto, Carries, TypeOK
<1>13. CASE ImageKeysMissing(j) \/ SaveResult(j) \/ SkipStep(j) \/ TimeOutStep(j)
  BY <1>12, <1>13 DEF ImageKeysMissing, SaveResult, SkipStep, TimeOutStep, StepStatus
<1>14. CASE PauseHere(j)
  <2> DEFINE tested(reason) == [mem[j] EXCEPT !.status = "processing", !.sr.pause = reason,
                                              !.sr.waiting = TRUE]
  <2>1. \/ Commit(j, mem[j])
        \/ \E reason \in Reasons : Commit(j, tested(reason))
    BY <1>14 DEF PauseHere
  <2>2. Quieter
    <3>1. ASSUME NEW reason \in Reasons, Commit(j, tested(reason))
          PROVE  Quieter
      <4>1. tested(reason).status = "processing"
        BY DEF Row
      <4> DEFINE new == tested(reason)
      <4>2. new.status = "processing" /\ Commit(j, new)
        BY <3>1, <4>1
      <4> HIDE DEF new, tested
      <4>3. QED
        BY <4>2, CommitStatus
    <3>2. CASE Commit(j, mem[j])
      BY <3>2, CommitStatus
    <3>3. QED
      BY <2>1, <3>1, <3>2
  <2>3. QED
    BY <1>14, <2>2, CloseKeeps DEF PauseHere
<1>15. CASE Continue(j)
  <2>1. Quieter /\ \A k \in Jobs \ {j} : mem'[k] = mem[k]
    <3>1. ASSUME NEW sr, Flush(j, [mem[j] EXCEPT !.sr = sr])
          PROVE  Quieter /\ \A k \in Jobs \ {j} : mem'[k] = mem[k]
      <4> DEFINE new == [mem[j] EXCEPT !.sr = sr]
      <4>1. Commit(j, new)
        BY <3>1 DEF Flush
      <4>2. Quieter
        <5>1. new.status = mem[j].status
          BY DEF Row
        <5> HIDE DEF new
        <5>2. QED
          BY <4>1, <5>1, CommitStatus
      <4>3. QED
        BY <3>1, <4>2 DEF Flush
    <3>2. QED
      BY <1>15, <3>1 DEF Continue
  <2>2. QED
    BY <1>15, <2>1 DEF Continue, Keeps, Goto, Carries, TypeOK
<1>16. CASE PhaseEnd(j)
  BY <1>16 DEF PhaseEnd, Keeps, Goto, Carries, TypeOK
<1>17. CASE Assemble(j)
  BY <1>17 DEF Assemble, Keeps, Goto, Carries, TypeOK
<1>18. ASSUME FailRow(j), pc[j] \notin {"unused", "queued"}
       PROVE  Keeps(j) /\ articles' = articles
  <2>1. db'.status = "failed"
    BY <1>18, StatusType DEF FailRow, TaskStatus
  <2>2. QED
    BY <1>18, <2>1, CloseKeeps DEF FailRow
<1>19. CASE Fail(j)
  BY <1>18, <1>19 DEF Fail
<1>20. CASE KillRevoked(j)
  BY <1>20, CloseKeeps DEF KillRevoked, Running, rowVars
<1>21. CASE DropRevoked(j)
  BY <1>21 DEF DropRevoked, Keeps, Goto, Carries, TypeOK, rowVars, workVars
<1>22. QED
  BY <1>1, <1>2, <1>3, <1>4, <1>5, <1>6, <1>7, <1>8, <1>9, <1>10, <1>11, <1>13, <1>14,
     <1>15, <1>16, <1>17, <1>19, <1>20, <1>21 DEF Work

LEMMA DisturbKeeps ==
  ASSUME TypeInv, NEW j \in Jobs, Disturb(j)
  PROVE  Keeps(j) /\ articles' = articles
<1> USE DEF TypeInv
<1>1. CASE TouchHeartbeat(j)
  BY <1>1 DEF TouchHeartbeat, Keeps, Carries
<1>2. CASE RetryStep(j)
  BY <1>2 DEF RetryStep, Keeps, Reload, Goto, Carries, TypeOK
<1>3. CASE Crash(j)
  BY <1>3, CloseKeeps DEF Crash, Running, rowVars
<1>4. CASE HardLimit(j)
  BY <1>4, CloseKeeps DEF HardLimit, rowVars
<1>5. CASE DatabaseError(j)
  <2>1. db'.status = "failed"
    BY <1>5, StatusType DEF DatabaseError, FailRow, TaskStatus, TypeOK
  <2>2. QED
    BY <1>5, <2>1, CloseKeeps DEF DatabaseError, FailRow, Running
<1>6. QED
  BY <1>1, <1>2, <1>3, <1>4, <1>5 DEF Disturb

\* The last step of a delivery may complete the task, and sends nothing.
LEMMA UpsertCompletes ==
  ASSUME TypeInv, NEW j \in Jobs, Upsert(j)
  PROVE  /\ db'.status \in {"completed", db.status}
         /\ db'.status = "pending" => Keeps(j)
<1> USE RowFacts DEF TypeInv
<1> DEFINE new == [mem[j] EXCEPT !.status = "completed"]
<1>1. Commit(j, new) /\ new.status = "completed"
  BY StatusType DEF Upsert, TaskStatus
<1>2. db'.status \in {"completed", db.status}
  <2> HIDE DEF new
  <2>1. QED
    BY <1>1 DEF Commit, Written
<1>3. ASSUME db'.status = "pending"
      PROVE  Keeps(j)
  <2>1. db.status = "pending"
    BY <1>2, <1>3
  <2>2. QED
    BY <1>3, <2>1, CloseKeeps DEF Upsert
<1>4. QED
  BY <1>2, <1>3

\* A status other than "pending" asks for no message.
LEMMA NotPending ==
  ASSUME TypeInv, JobInv, db'.status # "pending",
         \A k \in Jobs : pc[k] # "unused" => pc'[k] # "unused",
         celeryId' \in Jobs /\ celeryId' # celeryId => pc'[celeryId'] # "unused",
         beat'.id \in {beat.id, celeryId, None},
         revoked' \subseteq revoked \cup ({celeryId, beat.id} \ {None}),
         pc' \in [Jobs -> Labels]
  PROVE  JobInv'
<1>1. PendingHasJob'
  BY DEF PendingHasJob
<1>2. SentIds'
  BY NoneAssumption DEF JobInv, SentIds, TypeInv, TypeOK
<1>3. QED
  BY <1>1, <1>2 DEF JobInv

\* A handler that queues a message, or learns that it could not.
LEMMA EnqueueJobInv ==
  ASSUME TypeInv, JobInv, UNCHANGED <<revoked, beat, mem>>,
         \/ \E j \in Jobs : Queue(j) /\ celeryId' \in {celeryId, j}
         \/ unsent' = TRUE /\ UNCHANGED <<pc, celeryId>>
  PROVE  JobInv'
<1> USE DEF TypeInv
<1>1. ASSUME NEW j \in Jobs, Queue(j), celeryId' \in {celeryId, j}
      PROVE  JobInv'
  <2>1. pc' = [pc EXCEPT ![j] = "queued"] /\ j \notin revoked
    BY <1>1 DEF Queue, Goto, JobInv, SentIds
  <2>2. Carries(j)'
    BY <2>1 DEF Carries, TypeOK
  <2>3. SentIds'
    BY <1>1, <2>1 DEF JobInv, SentIds, TypeOK
  <2>4. QED
    BY <2>2, <2>3 DEF JobInv, PendingHasJob
<1>2. ASSUME unsent' = TRUE, UNCHANGED <<pc, celeryId>>
      PROVE  JobInv'
  BY <1>2 DEF JobInv, PendingHasJob, SentIds
<1>3. QED
  BY <1>1, <1>2

LEMMA RequeueJobInv ==
  ASSUME TypeInv, JobInv, NEW row, Requeue(row)
  PROVE  JobInv'
<1>1. \/ \E j \in Jobs : Queue(j) /\ celeryId' \in {celeryId, j}
      \/ unsent' = TRUE /\ UNCHANGED <<pc, celeryId>>
  BY DEF Requeue, Enqueue
<1>2. UNCHANGED <<revoked, beat, mem>>
  BY DEF Requeue, workVars
<1>3. QED
  BY <1>1, <1>2, EnqueueJobInv

LEMMA OperatorJobInv == TypeInv /\ JobInv /\ Operator => JobInv'
<1> SUFFICES ASSUME TypeInv, JobInv, Operator PROVE JobInv'
  OBVIOUS
<1>1. CASE StartNext \/ StartAll
  BY <1>1, EnqueueJobInv DEF StartNext, StartAll, rowVars, workVars
<1>2. CASE SendsBack
  BY <1>2, RequeuedRow, RequeueJobInv
<1>3. CASE ForceFail \/ ForceComplete
  <2>1. db'.status # "pending"
    BY <1>3, StatusType DEF ForceFail, ForceComplete, TypeInv, TypeOK, TaskStatus
  <2>2. QED
    BY <1>3, <2>1, NotPending DEF ForceFail, ForceComplete, TypeInv, TypeOK
<1>4. QED
  BY <1>1, <1>2, <1>3 DEF Operator, SendsBack

LEMMA BeatJobInv == TypeInv /\ JobInv /\ Beat => JobInv'
<1> SUFFICES ASSUME TypeInv, JobInv, Beat PROVE JobInv'
  OBVIOUS
<1> USE DEF TypeInv
<1>1. CASE Tick
  <2>1. db'.status = db.status
    BY <1>1 DEF Tick, TypeOK, Row
  <2>2. \A j \in Jobs : mem'[j].status = mem[j].status
    BY <1>1 DEF Tick, TypeOK, Row
  <2>3. pc' = pc /\ revoked' = revoked /\ beat' = beat /\ celeryId' = celeryId
        /\ unsent' = unsent
    BY <1>1 DEF Tick
  <2>4. QED
    BY <2>1, <2>2, <2>3 DEF JobInv, PendingHasJob, SentIds, Carries
<1>2. CASE BeatScan
  <2>1. db'.status # "pending"
    BY <1>2 DEF BeatScan, rowVars
  <2>2. QED
    BY <1>2, <2>1, NotPending DEF BeatScan, rowVars, TypeOK
<1>3. CASE BeatCommit
  <2>1. db'.status # "pending"
    BY <1>3, StatusType DEF BeatCommit, TypeOK, TaskStatus
  <2>2. QED
    BY <1>3, <2>1, NotPending DEF BeatCommit, TypeOK
<1>4. QED
  BY <1>1, <1>2, <1>3 DEF Beat

LEMMA UpsertJobInv ==
  ASSUME TypeInv, JobInv, NEW j \in Jobs, Upsert(j)
  PROVE  JobInv'
<1>1. CASE db'.status = "pending"
  BY <1>1, UpsertCompletes, KeepsJobInv
<1>2. CASE db'.status # "pending"
  BY <1>2, NotPending DEF Upsert, Close, Goto, TypeInv, TypeOK, Labels
<1>3. QED
  BY <1>1, <1>2

LEMMA JobInit == Init => JobInv
<1> SUFFICES ASSUME Init PROVE JobInv
  OBVIOUS
<1>1. SentIds
  BY NoneAssumption DEF Init, SentIds
<1>2. PendingHasJob
  <2>1. CASE SequentialMode
    BY <2>1 DEF Init, PendingHasJob
  <2>2. CASE ~SequentialMode
    BY <2>2 DEF Init, PendingHasJob, Carries
  <2>3. QED
    BY <2>1, <2>2
<1>3. QED
  BY <1>1, <1>2 DEF JobInv

LEMMA JobNext == TypeInv /\ JobInv /\ [Next]_vars => JobInv'
<1> SUFFICES ASSUME TypeInv, JobInv, [Next]_vars PROVE JobInv'
  OBVIOUS
<1>1. CASE UNCHANGED vars
  BY <1>1 DEF vars, JobInv, PendingHasJob, SentIds, Carries
<1>2. ASSUME NEW j \in Jobs, Work(j) \/ Disturb(j)
      PROVE  JobInv'
  BY <1>2, UpsertJobInv, WorkKeeps, DisturbKeeps, KeepsJobInv
<1>3. QED
  BY <1>1, <1>2, OperatorJobInv, BeatJobInv DEF Next

\* For every plan, any number of deliveries and any mix of operators, crashes and
\* revocations, a task that waits as "pending" has a message the workers will act
\* on, unless the broker refused it or the task was created in SEQUENTIAL_MODE.
THEOREM PendingNeverLost == Spec => []PendingHasJob
<1>1. JobInv => PendingHasJob
  BY DEF JobInv
<1>2. QED
  BY <1>1, TypeInit, TypeNext, JobInit, JobNext, PTL DEF Spec

-----------------------------------------------------------------------------
(* Completing a task without an article.  The invariant behind it: an article *)
(* a delivery found is there until a rerun deletes it.                        *)

FoundBacked == \A j \in Jobs : found[j] = "row" => articles > 0

LEMMA BackedWork ==
  ASSUME TypeInv, FoundBacked, NEW j \in Jobs, Work(j) \/ Disturb(j)
  PROVE  FoundBacked'
<1> USE DEF TypeInv
<1>1. articles \in Nat
  BY DEF TypeOK
<1>2. ASSUME NEW label, Close(j, label), articles' \in {articles, articles + 1}
      PROVE  FoundBacked'
  BY <1>1, <1>2 DEF Close, FoundBacked, TypeOK
<1>3. CASE Upsert(j)
  BY <1>1, <1>2, <1>3 DEF Upsert
<1>4. CASE Assemble(j)
  BY <1>1, <1>4 DEF Assemble, FoundBacked, TypeOK
<1>5. CASE EntryPaused(j) \/ PauseHere(j) \/ Fail(j) \/ KillRevoked(j)
           \/ Crash(j) \/ HardLimit(j) \/ DatabaseError(j)
  BY <1>1, <1>2, <1>5 DEF EntryPaused, PauseHere, Fail, FailRow, KillRevoked, Crash,
     HardLimit, DatabaseError, rowVars
<1>6. CASE UNCHANGED <<articles, found>>
  BY <1>6 DEF FoundBacked
<1>7. Work(j) => \/ Upsert(j) \/ Assemble(j) \/ UNCHANGED <<articles, found>>
                 \/ EntryPaused(j) \/ PauseHere(j) \/ Fail(j) \/ KillRevoked(j)
  BY DEF Work, Receive, Begin, EntryResume, SkipCompleted, StartStep, RefreshStep, SerpFetch,
     SerpPause, Scrape, MakeImages, ImageKeysMissing, SaveResult, SkipStep, TimeOutStep,
     SaveStep, Continue, PhaseEnd, DropRevoked, rowVars, workVars
<1>8. Disturb(j) => \/ UNCHANGED <<articles, found>>
                    \/ Crash(j) \/ HardLimit(j) \/ DatabaseError(j)
  BY DEF Disturb, TouchHeartbeat, RetryStep
<1>9. QED
  BY <1>3, <1>4, <1>5, <1>6, <1>7, <1>8

LEMMA BackedNext == TypeInv /\ FoundBacked /\ [Next]_vars => FoundBacked'
<1> SUFFICES ASSUME TypeInv, FoundBacked, [Next]_vars PROVE FoundBacked'
  OBVIOUS
<1>1. CASE UNCHANGED <<articles, found>>
  BY <1>1 DEF FoundBacked
<1>2. CASE DeleteArticle
  BY <1>2 DEF DeleteArticle, FoundBacked, TypeInv, TypeOK
<1>3. Operator => DeleteArticle \/ UNCHANGED <<articles, found>>
  BY DEF Operator, StartNext, StartAll, Retry, ApproveTest, ApproveSerp, ApproveImages,
     ForceFail, ForceComplete, Rerun, rowVars, workVars
<1>4. Beat => UNCHANGED <<articles, found>>
  BY DEF Beat, Tick, BeatScan, BeatCommit, rowVars, workVars
<1>5. QED
  BY <1>1, <1>2, <1>3, <1>4, BackedWork DEF Next, vars

\* The ways a completed task can be left without its article.
Emptied ==
  \/ db.status = "completed" /\ articles = 0
  \/ ForceComplete
  \/ \E j \in Jobs : pc[j] = "upsert" /\ found[j] = "gone" /\ pc'[j] = "done"

LEMMA EmptiedNext ==
  ASSUME TypeInv, FoundBacked, [Next]_vars, db'.status = "completed", articles' = 0
  PROVE  Emptied \/ UNCHANGED vars
<1> USE DEF Emptied
<1>1. ASSUME NEW j \in Jobs, Work(j) \/ Disturb(j)
      PROVE  Emptied
  <2>1. CASE Upsert(j)
    <3>1. articles \in Nat /\ found[j] \in {"none", "row", "gone"}
      BY DEF TypeInv, TypeOK
    <3>2. found[j] = "gone"
      BY <2>1, <3>1 DEF Upsert, FoundBacked
    <3>3. pc[j] = "upsert" /\ pc'[j] = "done"
      BY <2>1 DEF Upsert, Close, Goto, TypeInv, TypeOK
    <3>4. QED
      BY <3>2, <3>3
  <2>2. CASE ~Upsert(j)
    <3>1. Keeps(j) /\ articles' = articles
      BY <1>1, <2>2, WorkKeeps, DisturbKeeps
    <3>2. QED
      BY <3>1 DEF Keeps
  <2>3. QED
    BY <2>1, <2>2
<1>2. CASE Operator
  <2>1. ASSUME NEW row \in Row, Requeue(row)
        PROVE  FALSE
    BY <2>1, StatusType DEF Requeue, TaskStatus
  <2>2. CASE StartNext \/ StartAll
    BY <2>2 DEF StartNext, StartAll, rowVars
  <2>3. CASE ForceFail
    BY <2>3, StatusType DEF ForceFail, TypeInv, TypeOK, TaskStatus
  <2>4. CASE SendsBack
    BY <2>1, <2>4, RequeuedRow
  <2>5. QED
    BY <1>2, <2>2, <2>3, <2>4 DEF Operator, SendsBack
<1>3. CASE Beat
  <2>1. CASE Tick
    BY <2>1 DEF Tick, TypeInv, TypeOK, Row
  <2>2. CASE BeatScan
    BY <2>2 DEF BeatScan, rowVars
  <2>3. CASE BeatCommit
    BY <2>3, StatusType DEF BeatCommit, TypeInv, TypeOK, TaskStatus
  <2>4. QED
    BY <1>3, <2>1, <2>2, <2>3 DEF Beat
<1>4. QED
  BY <1>1, <1>2, <1>3 DEF Next

\* Two deliveries may finish together, and operators may rerun, fail and retry the task
\* under them: no step leaves it "completed" without its article, but a forced status and
\* the commit of a delivery whose article a cascading rerun deleted after its query.
THEOREM CompletionsBacked == Spec => ArticleBehindStatus
<1>1. Init => FoundBacked
  BY DEF Init, FoundBacked
<1>2. TypeInv /\ FoundBacked /\ [Next]_vars =>
        [db'.status = "completed" /\ articles' = 0 =>
           \/ db.status = "completed" /\ articles = 0
           \/ ForceComplete
           \/ \E j \in Jobs : pc[j] = "upsert" /\ found[j] = "gone" /\ pc'[j] = "done"]_vars
  BY EmptiedNext DEF Emptied
<1>3. QED
  BY <1>1, <1>2, BackedNext, TypeInit, TypeNext, PTL DEF Spec, ArticleBehindStatus

-----------------------------------------------------------------------------
(* Careful operators act only on a task at rest.  Then one delivery is live   *)
(* at a time, and the copy of the row it works on is the row but for the      *)
(* status, which beat may change under it.                                    *)

OneLive == \A j, k \in Jobs : Live(j) /\ Live(k) => j = k
SameWork(a, b) == a.sr = b.sr /\ a.serp = b.serp /\ a.text = b.text
Copies == \A j \in Jobs : Running(j) => SameWork(mem[j], db)

\* The row shows the step a delivery is in as running.
StepShown == \A j \in Jobs : InStep(j) => StepOf(db, At(j)) = "running"

\* A delivery that has found no article is the only one who could have made one.
OneArticle ==
  /\ articles <= 1
  /\ \A j \in Jobs : pc[j] = "upsert" /\ found[j] = "none" => articles = 0

CarefulInv == OneLive /\ Copies /\ StepShown /\ OneArticle

\* What is done and approved in one version of step_results is so in the next.
Grows(old, new) ==
  /\ \A s \in Steps : old.step[s].st = "completed" => new.step[s].st = "completed"
  /\ \A reason \in Reasons : Approved(old, reason) => Approved(new, reason)

LEMMA GrowsSame == \A sr : Grows(sr, sr)
BY DEF Grows

LEMMA GrowsFlags ==
  ASSUME NEW old, NEW new, new.step = old.step,
         old.serpOk => new.serpOk, old.imagesOk => new.imagesOk, old.testOk => new.testOk
  PROVE  Grows(old, new)
BY DEF Grows, Approved

LEMMA AtSteps ==
  ASSUME TypeInv, NEW j \in Jobs, idx[j] <= Len(Plan)
  PROVE  At(j) \in Steps
<1>1. idx[j] \in 1..Len(Plan)
  BY PlanType DEF TypeInv, TypeOK
<1>2. QED
  BY <1>1 DEF At, Steps

\* A commit of a copy that is the row writes what the session has.
LEMMA CommitWork ==
  ASSUME NEW j \in Jobs, NEW new, SameWork(mem[j], db), Commit(j, new)
  PROVE  SameWork(db', new)
BY DEF Commit, Written, SameWork

LEMMA FlushWork ==
  ASSUME TypeInv, NEW j \in Jobs, NEW new \in Row, SameWork(mem[j], db), Flush(j, new)
  PROVE  /\ mem'[j] = new /\ SameWork(mem'[j], db')
         /\ db'.sr = new.sr /\ db'.serp = new.serp /\ db'.text = new.text
<1>1. mem'[j] = new /\ Commit(j, new)
  BY DEF Flush, TypeInv, TypeOK
<1>2. SameWork(db', new)
  BY <1>1, CommitWork
<1>3. QED
  BY <1>1, <1>2 DEF SameWork

\* Only the entry of the step, and its status, differ in step_results.
LEMMA WithStepWork ==
  ASSUME NEW row \in Row, NEW s \in Steps, NEW st \in StepStatus
  PROVE  LET new == WithStep(row, s, st) IN
         /\ new.sr.step[s].st = st
         /\ \A t \in Steps \ {s} : new.sr.step[t] = row.sr.step[t]
         /\ new.serp = row.serp /\ new.text = row.text
         /\ new.sr.pause = row.sr.pause /\ new.sr.waiting = row.sr.waiting
         /\ new.sr.serpOk = row.sr.serpOk /\ new.sr.imagesOk = row.sr.imagesOk
         /\ new.sr.testOk = row.sr.testOk
BY DEF WithStep, Row, StepResults, StepRec

LEMMA PutStepWork ==
  ASSUME TypeInv, NEW j \in Jobs, idx[j] <= Len(Plan), NEW st \in StepStatus,
         SameWork(mem[j], db), PutStep(j, st)
  PROVE  /\ SameWork(mem'[j], db')
         /\ StepOf(db', At(j)) = st
         /\ \A s \in Steps \ {At(j)} : StepOf(db', s) = StepOf(db, s)
         /\ db'.serp = db.serp
         /\ db'.sr.pause = db.sr.pause /\ db'.sr.waiting = db.sr.waiting
         /\ db'.sr.serpOk = db.sr.serpOk /\ db'.sr.imagesOk = db.sr.imagesOk
         /\ db'.sr.testOk = db.sr.testOk
<1> DEFINE new == WithStep(mem[j], At(j), st)
<1>1. mem[j] \in Row /\ At(j) \in Steps
  BY RowFacts, AtSteps DEF TypeInv
<1>2. /\ new.sr.step[At(j)].st = st
      /\ \A t \in Steps \ {At(j)} : new.sr.step[t] = mem[j].sr.step[t]
      /\ new.serp = mem[j].serp /\ new.text = mem[j].text
      /\ new.sr.pause = mem[j].sr.pause /\ new.sr.waiting = mem[j].sr.waiting
      /\ new.sr.serpOk = mem[j].sr.serpOk /\ new.sr.imagesOk = mem[j].sr.imagesOk
      /\ new.sr.testOk = mem[j].sr.testOk
  BY <1>1, WithStepWork
<1>3. /\ db' = [Written(mem[j], new) EXCEPT !.sr = new.sr]
      /\ mem' = [mem EXCEPT ![j] = new]
  BY DEF PutStep
<1> HIDE DEF new
<1>4. db'.sr = new.sr /\ db'.serp = db.serp /\ db'.text = db.text
  BY <1>2, <1>3 DEF Written
<1>5. mem'[j] = new
  BY <1>3, RowFacts DEF TypeInv
<1>6. QED
  BY <1>2, <1>4, <1>5 DEF SameWork, StepOf

\* Steps of the one delivery that is live.
LEMMA SoloCareful ==
  ASSUME TypeInv, CarefulInv, NEW j \in Jobs, Live(j),
         \A k \in Jobs \ {j} : pc'[k] = pc[k],
         Running(j)' => SameWork(mem'[j], db'),
         InStep(j)' => StepOf(db', At(j)') = "running",
         articles' <= 1,
         pc'[j] = "upsert" /\ found'[j] = "none" => articles' = 0
  PROVE  CarefulInv'
<1>1. \A k \in Jobs \ {j} : pc'[k] \in {"unused", "done"}
  BY DEF CarefulInv, OneLive, Live
<1>2. OneLive'
  BY <1>1 DEF OneLive, Live
<1>3. Copies'
  BY <1>1 DEF Copies, Running
<1>4. StepShown'
  BY <1>1 DEF StepShown, InStep
<1>5. OneArticle'
  BY <1>1 DEF OneArticle
<1>6. QED
  BY <1>2, <1>3, <1>4, <1>5 DEF CarefulInv

\* A session that is closed knows nothing.
LEMMA SoloClose ==
  ASSUME TypeInv, CarefulInv, NEW j \in Jobs, Live(j), NEW label \in {"queued", "done"},
         Close(j, label), articles' <= 1
  PROVE  CarefulInv'
<1>1. pc'[j] = label /\ \A k \in Jobs \ {j} : pc'[k] = pc[k]
  BY DEF Close, Goto, TypeInv, TypeOK
<1>2. QED
  BY <1>1, SoloCareful DEF Running, InStep

\* Within one delivery, what a step leaves to be shown.
LEMMA SoloGoto ==
  ASSUME TypeInv, CarefulInv, NEW j \in Jobs, Live(j), NEW label, Goto(j, label),
         label # "queued" => SameWork(mem'[j], db'),
         label \in {"refresh", "exec", "fetched", "save"} => StepOf(db', At(j)') = "running",
         articles' = articles, label # "upsert"
  PROVE  CarefulInv'
<1>1. pc'[j] = label /\ \A k \in Jobs \ {j} : pc'[k] = pc[k]
  BY DEF Goto, TypeInv, TypeOK
<1>2. QED
  BY <1>1, SoloCareful DEF Running, InStep, CarefulInv, OneArticle

\* A step's result, whatever it is, ends the step.
LEMMA SaveCareful ==
  ASSUME TypeInv, CarefulInv, NEW j \in Jobs, pc[j] \in {"exec", "save"},
         NEW st \in StepStatus, NEW label \in {"after", "fail"}, SaveStep(j, st, label)
  PROVE  CarefulInv' /\ Grows(db.sr, db'.sr)
<1>1. Live(j) /\ InStep(j) /\ Running(j) /\ idx[j] <= Len(Plan)
  BY DEF Live, InStep, Running, TypeInv, IndexOK, AtStep
<1>2. SameWork(mem[j], db) /\ StepOf(db, At(j)) = "running"
  BY <1>1 DEF CarefulInv, Copies, StepShown
<1>3. PutStep(j, st) /\ Goto(j, label) /\ articles' = articles
  BY DEF SaveStep
<1>4. /\ SameWork(mem'[j], db')
      /\ \A s \in Steps \ {At(j)} : StepOf(db', s) = StepOf(db, s)
      /\ db'.sr.serpOk = db.sr.serpOk /\ db'.sr.imagesOk = db.sr.imagesOk
      /\ db'.sr.testOk = db.sr.testOk
  BY <1>1, <1>2, <1>3, PutStepWork
<1>5. CarefulInv'
  BY <1>1, <1>3, <1>4, SoloGoto
<1>6. Grows(db.sr, db'.sr)
  BY <1>2, <1>4 DEF Grows, Approved, StepOf
<1>7. QED
  BY <1>5, <1>6

\* A session that writes through without touching a step or an approval.
LEMMA FlushCareful ==
  ASSUME TypeInv, CarefulInv, NEW j \in Jobs, Running(j), NEW new \in Row, Flush(j, new),
         NEW label, Goto(j, label), label \notin {"queued", "upsert"},
         label \in {"refresh", "exec", "fetched", "save"} =>
           InStep(j) /\ idx' = idx,
         new.sr.step = mem[j].sr.step,
         mem[j].sr.serpOk => new.sr.serpOk, mem[j].sr.imagesOk => new.sr.imagesOk,
         mem[j].sr.testOk => new.sr.testOk,
         articles' = articles
  PROVE  CarefulInv' /\ Grows(db.sr, db'.sr)
<1>1. SameWork(mem[j], db) /\ Live(j)
  BY DEF CarefulInv, Copies, Running, Live
<1>2. SameWork(mem'[j], db') /\ db'.sr = new.sr
  BY <1>1, FlushWork
<1>3. ASSUME label \in {"refresh", "exec", "fetched", "save"}
      PROVE  StepOf(db', At(j)') = "running"
  <2>1. StepOf(db, At(j)) = "running" /\ At(j)' = At(j)
    BY <1>3 DEF CarefulInv, StepShown, At
  <2>2. QED
    BY <1>1, <1>2, <2>1 DEF StepOf, SameWork
<1>4. CarefulInv'
  BY <1>1, <1>2, <1>3, SoloGoto
<1>5. Grows(db.sr, db'.sr)
  BY <1>1, <1>2, GrowsFlags DEF SameWork
<1>6. QED
  BY <1>4, <1>5

\* A session that commits and is closed.
LEMMA CloseCareful ==
  ASSUME TypeInv, CarefulInv, NEW j \in Jobs, Running(j), NEW new \in Row, Commit(j, new),
         Close(j, "done"), articles' <= 1,
         new.sr.step = mem[j].sr.step,
         mem[j].sr.serpOk => new.sr.serpOk, mem[j].sr.imagesOk => new.sr.imagesOk,
         mem[j].sr.testOk => new.sr.testOk
  PROVE  CarefulInv' /\ Grows(db.sr, db'.sr)
<1>1. SameWork(mem[j], db) /\ Live(j)
  BY DEF CarefulInv, Copies, Running, Live
<1>2. db'.sr = new.sr
  BY <1>1, CommitWork DEF SameWork
<1>3. CarefulInv'
  BY <1>1, SoloClose
<1>4. Grows(db.sr, db'.sr)
  BY <1>1, <1>2, GrowsFlags DEF SameWork
<1>5. QED
  BY <1>3, <1>4

\* What fails or is lost leaves step_results as it was.
LEMMA LostCareful ==
  ASSUME TypeInv, CarefulInv, NEW j \in Jobs, Live(j), NEW label \in {"queued", "done"},
         Close(j, label), articles' = articles, db'.sr = db.sr
  PROVE  CarefulInv' /\ Grows(db.sr, db'.sr)
BY SoloClose, GrowsSame DEF CarefulInv, OneArticle

\* auto_mode only adds approvals.
LEMMA AutoApproveWork ==
  ASSUME NEW sr \in StepResults, NEW reason
  PROVE  LET new == AutoApprove(sr, reason) IN
         /\ new.step = sr.step
         /\ sr.serpOk => new.serpOk
         /\ sr.imagesOk => new.imagesOk
         /\ sr.testOk => new.testOk
BY DEF AutoApprove, StepResults

\* The steps of the one live delivery: what is completed and approved in the row
\* stays so, and the row goes on showing what the delivery is doing.
LEMMA WorkCareful ==
  ASSUME TypeInv, CarefulInv, NEW j \in Jobs, Work(j)
  PROVE  CarefulInv' /\ Grows(db.sr, db'.sr)
<1> USE RowFacts DEF TypeInv
<1> DEFINE Good == CarefulInv' /\ Grows(db.sr, db'.sr)
<1>1. CASE Receive(j)
  <2>1. SameWork(mem'[j], db') /\ articles' = articles /\ Goto(j, "begin") /\ Live(j)
    BY <1>1 DEF Receive, Reload, SameWork, TypeOK, Live
  <2>2. QED
    BY <1>1, <2>1, SoloGoto, GrowsSame DEF Receive
<1>2. CASE Begin(j)
  <2> DEFINE new == [mem[j] EXCEPT !.status = "processing"]
  <2>1. new \in Row /\ Flush(j, new) /\ new.sr = mem[j].sr
    <3>1. Flush(j, new)
      BY <1>2 DEF Begin
    <3>2. new \in Row
      BY StatusType DEF TaskStatus
    <3>3. new.sr = mem[j].sr
      BY DEF Row
    <3>4. QED
      BY <3>1, <3>2, <3>3
  <2>2. Running(j) /\ Goto(j, "entry") /\ articles' = articles
    BY <1>2 DEF Begin, Running
  <2> HIDE DEF new
  <2>3. QED
    BY <2>1, <2>2, FlushCareful
<1>3. CASE EntryPaused(j)
  <2> DEFINE new == IF mem[j].sr.pause = "serp_review"
                    THEN [mem[j] EXCEPT !.status = "paused"] ELSE mem[j]
  <2>1. new \in Row /\ Commit(j, new) /\ new.sr = mem[j].sr
    <3>1. Commit(j, new)
      BY <1>3 DEF EntryPaused
    <3>2. new \in Row
      BY StatusType DEF TaskStatus
    <3>3. new.sr = mem[j].sr
      BY DEF Row
    <3>4. QED
      BY <3>1, <3>2, <3>3
  <2>2. Running(j) /\ Close(j, "done") /\ articles' <= 1
    BY <1>3 DEF EntryPaused, Running, CarefulInv, OneArticle
  <2> HIDE DEF new
  <2>3. QED
    BY <2>1, <2>2, CloseCareful
<1>4. CASE EntryResume(j)
  <2> DEFINE sr == mem[j].sr
             cleared == IF sr.pause = "none" THEN sr
                        ELSE IF Approved(sr, sr.pause) THEN [sr EXCEPT !.pause = "none"]
                        ELSE AutoApprove(sr, sr.pause)
             whole == [cleared EXCEPT !.plan = TRUE]
             new == [mem[j] EXCEPT !.sr = whole]
  <2>1. sr \in StepResults
    BY DEF Row
  <2>2. /\ cleared \in StepResults
        /\ cleared.step = sr.step
        /\ sr.serpOk => cleared.serpOk
        /\ sr.imagesOk => cleared.imagesOk
        /\ sr.testOk => cleared.testOk
    <3>1. [sr EXCEPT !.pause = "none"] \in StepResults
      BY <2>1 DEF StepResults
    <3>2. QED
      BY <2>1, <3>1, AutoApproveType, AutoApproveWork DEF StepResults
  <2>3. /\ whole \in StepResults
        /\ whole.step = sr.step
        /\ sr.serpOk => whole.serpOk
        /\ sr.imagesOk => whole.imagesOk
        /\ sr.testOk => whole.testOk
    <3> HIDE DEF cleared
    <3> QED BY <2>2 DEF StepResults
  <2>4. Flush(j, new) /\ Running(j) /\ Goto(j, "phase") /\ articles' = articles
    BY <1>4 DEF EntryResume, Running
  <2> HIDE DEF whole
  <2>5. new \in Row /\ new.sr = whole
    BY <2>3, ResultsType DEF Row
  <2> HIDE DEF new
  <2>6. QED
    BY <2>3, <2>4, <2>5, FlushCareful
<1>5. CASE SkipCompleted(j)
  <2>1. Live(j) /\ Running(j) /\ Goto(j, "after") /\ articles' = articles
    BY <1>5 DEF SkipCompleted, Live, Running
  <2>2. SameWork(mem'[j], db')
    BY <1>5, <2>1 DEF SkipCompleted, CarefulInv, Copies
  <2>3. QED
    BY <1>5, <2>1, <2>2, SoloGoto, GrowsSame DEF SkipCompleted
<1>6. CASE StartStep(j)
  <2>1. /\ Live(j) /\ Running(j) /\ idx[j] <= Len(Plan)
        /\ PutStep(j, "running") /\ articles' = articles /\ idx' = idx
        /\ StepOf(mem[j], At(j)) # "completed"
    BY <1>6 DEF StartStep, Live, Running
  <2>2. SameWork(mem[j], db)
    BY <2>1 DEF CarefulInv, Copies
  <2>3. "running" \in StepStatus
    BY DEF StepStatus
  <2>4. /\ SameWork(mem'[j], db')
        /\ StepOf(db', At(j)) = "running"
        /\ \A s \in Steps \ {At(j)} : StepOf(db', s) = StepOf(db, s)
        /\ db'.sr.serpOk = db.sr.serpOk /\ db'.sr.imagesOk = db.sr.imagesOk
        /\ db'.sr.testOk = db.sr.testOk
    BY <2>1, <2>2, <2>3, PutStepWork
  <2>5. At(j)' = At(j)
    BY <2>1 DEF At
  <2>6. PICK label \in {"refresh", "exec"} : Goto(j, label)
    BY <1>6 DEF StartStep
  <2>7. CarefulInv'
    BY <2>1, <2>4, <2>5, <2>6, SoloGoto
  <2>8. Grows(db.sr, db'.sr)
    BY <2>1, <2>2, <2>4 DEF Grows, Approved, StepOf, SameWork
  <2>9. QED
    BY <2>7, <2>8
<1>7. CASE RefreshStep(j)
  <2>1. SameWork(mem'[j], db') /\ articles' = articles /\ Goto(j, "exec") /\ Live(j)
    BY <1>7 DEF RefreshStep, Reload, SameWork, TypeOK, Live
  <2>2. StepOf(db', At(j)') = "running"
    BY <1>7 DEF RefreshStep, CarefulInv, StepShown, InStep, At
  <2>3. QED
    BY <1>7, <2>1, <2>2, SoloGoto, GrowsSame DEF RefreshStep
<1>8. CASE SerpFetch(j)
  <2> DEFINE new == [mem[j] EXCEPT !.serp = TRUE]
  <2>1. new \in Row /\ Flush(j, new) /\ new.sr = mem[j].sr
    BY <1>8 DEF SerpFetch, Row
  <2>2. Running(j) /\ InStep(j) /\ idx' = idx /\ articles' = articles
    BY <1>8 DEF SerpFetch, Running, InStep
  <2>3. PICK label \in {"save", "fetched"} : Goto(j, label)
    BY <1>8 DEF SerpFetch
  <2> HIDE DEF new
  <2>4. QED
    BY <2>1, <2>2, <2>3, FlushCareful
<1>9. CASE SerpPause(j)
  <2> DEFINE new == [mem[j] EXCEPT !.status = "paused", !.sr.pause = "serp_review"]
  <2>1. new \in Row /\ Flush(j, new)
    <3> DEFINE sr == [mem[j].sr EXCEPT !.pause = "serp_review"]
    <3>1. Flush(j, new)
      BY <1>9 DEF SerpPause
    <3>2. sr \in StepResults
      BY DEF Row, StepResults, Reasons
    <3>3. new = [mem[j] EXCEPT !.status = "paused", !.sr = sr]
      BY DEF Row
    <3>4. new \in Row
      BY <3>2, <3>3 DEF Row, TaskStatus
    <3>5. QED
      BY <3>1, <3>4
  <2>2. /\ new.sr.step = mem[j].sr.step /\ new.sr.serpOk = mem[j].sr.serpOk
        /\ new.sr.imagesOk = mem[j].sr.imagesOk /\ new.sr.testOk = mem[j].sr.testOk
    BY DEF Row, StepResults
  <2>3. Running(j) /\ InStep(j) /\ idx' = idx /\ articles' = articles /\ Goto(j, "save")
    BY <1>9 DEF SerpPause, Running, InStep
  <2> HIDE DEF new
  <2>4. QED
    BY <2>1, <2>2, <2>3, FlushCareful
<1>10. CASE Scrape(j)
  <2> DEFINE new == [mem[j] EXCEPT !.text = TRUE]
  <2>1. new \in Row /\ Flush(j, new) /\ new.sr = mem[j].sr
    BY <1>10 DEF Scrape, Row
  <2>2. Running(j) /\ InStep(j) /\ idx' = idx /\ articles' = articles /\ Goto(j, "save")
    BY <1>10 DEF Scrape, Running, InStep
  <2> HIDE DEF new
  <2>3. QED
    BY <2>1, <2>2, FlushCareful
<1>11. CASE MakeImages(j)
  <2> DEFINE new == [mem[j] EXCEPT !.status = "processing", !.sr.pause = "image_review"]
  <2>1. new \in Row /\ Flush(j, new)
    <3>1. Flush(j, new)
      BY <1>11 DEF MakeImages
    <3>2. new \in Row
      BY ZenonT(30) DEF Row, StepResults, TaskStatus, Reasons
    <3>3. QED
      BY <3>1, <3>2
  <2>2. /\ new.sr.step = mem[j].sr.step /\ new.sr.serpOk = mem[j].sr.serpOk
        /\ new.sr.imagesOk = mem[j].sr.imagesOk /\ new.sr.testOk = mem[j].sr.testOk
    BY DEF Row, StepResults
  <2>3. Running(j) /\ InStep(j) /\ idx' = idx /\ articles' = articles /\ Goto(j, "save")
    BY <1>11 DEF MakeImages, Running, InStep
  <2> HIDE DEF new
  <2>4. QED
    BY <2>1, <2>2, <2>3, FlushCareful
<1>12. CASE ImageKeysMissing(j) \/ SaveResult(j) \/ SkipStep(j) \/ TimeOutStep(j)
  BY <1>12, SaveCareful DEF ImageKeysMissing, SaveResult, SkipStep, TimeOutStep, StepStatus
<1>13. CASE PauseHere(j)
  <2>1. PICK reason \in Reasons :
          Commit(j, IF reason = "test_mode"
                    THEN [mem[j] EXCEPT !.status = "processing", !.sr.pause = reason,
                                        !.sr.waiting = TRUE]
                    ELSE mem[j])
    BY <1>13, ZenonT(30) DEF PauseHere
  <2> DEFINE sr == [mem[j].sr EXCEPT !.pause = reason, !.waiting = TRUE]
             tested == [mem[j] EXCEPT !.status = "processing", !.sr = sr]
             new == IF reason = "test_mode" THEN tested ELSE mem[j]
  <2>2. /\ sr \in StepResults /\ sr.step = mem[j].sr.step
        /\ sr.serpOk = mem[j].sr.serpOk /\ sr.imagesOk = mem[j].sr.imagesOk
        /\ sr.testOk = mem[j].sr.testOk
    BY DEF Row, StepResults
  <2>3. [mem[j] EXCEPT !.status = "processing", !.sr.pause = reason, !.sr.waiting = TRUE]
          = tested
    BY DEF Row
  <2> HIDE DEF sr
  <2>4. tested \in Row /\ tested.sr = sr
    BY <2>2 DEF Row, TaskStatus
  <2>5. Commit(j, new)
    BY <2>1, <2>3
  <2> HIDE DEF tested
  <2>6. /\ new \in Row /\ new.sr.step = mem[j].sr.step
        /\ new.sr.serpOk = mem[j].sr.serpOk /\ new.sr.imagesOk = mem[j].sr.imagesOk
        /\ new.sr.testOk = mem[j].sr.testOk
    BY <2>2, <2>4
  <2>7. Running(j) /\ Close(j, "done") /\ articles' <= 1
    BY <1>13 DEF PauseHere, Running, CarefulInv, OneArticle
  <2> HIDE DEF new
  <2>8. QED
    BY <2>5, <2>6, <2>7, CloseCareful
<1>14. CASE Continue(j)
  <2>1. Running(j) /\ Live(j) /\ Goto(j, "phase") /\ articles' = articles
    BY <1>14 DEF Continue, Running, Live
  <2>2. CASE UNCHANGED <<db, mem>>
    <3>1. SameWork(mem'[j], db')
      BY <2>1, <2>2 DEF CarefulInv, Copies
    <3>2. QED
      BY <2>1, <2>2, <3>1, SoloGoto, GrowsSame
  <2>3. ASSUME NEW reason, Flush(j, [mem[j] EXCEPT !.sr = AutoApprove(mem[j].sr, reason)])
        PROVE  Good
    <3> DEFINE sr == AutoApprove(mem[j].sr, reason)
               new == [mem[j] EXCEPT !.sr = sr]
    <3>1. mem[j].sr \in StepResults
      BY DEF Row
    <3>2. /\ sr \in StepResults /\ sr.step = mem[j].sr.step
          /\ mem[j].sr.serpOk => sr.serpOk
          /\ mem[j].sr.imagesOk => sr.imagesOk
          /\ mem[j].sr.testOk => sr.testOk
      BY <3>1, AutoApproveType, AutoApproveWork
    <3> HIDE DEF sr
    <3>3. new \in Row /\ new.sr = sr
      BY <3>2, ResultsType DEF Row
    <3>4. Flush(j, new)
      BY <2>3 DEF sr
    <3> HIDE DEF new
    <3>5. QED
      BY <2>1, <3>2, <3>3, <3>4, FlushCareful
  <2>4. QED
    BY <1>14, <2>2, <2>3 DEF Continue
<1>15. CASE PhaseEnd(j)
  <2>1. Live(j) /\ Running(j) /\ Goto(j, "final") /\ articles' = articles
    BY <1>15 DEF PhaseEnd, Live, Running
  <2>2. SameWork(mem'[j], db')
    BY <1>15, <2>1 DEF PhaseEnd, CarefulInv, Copies
  <2>3. QED
    BY <1>15, <2>1, <2>2, SoloGoto, GrowsSame DEF PhaseEnd
<1>16. CASE Assemble(j)
  <2>1. Live(j) /\ Running(j) /\ articles' = articles /\ articles' <= 1
    BY <1>16 DEF Assemble, Live, Running, CarefulInv, OneArticle
  <2>2. pc'[j] = "upsert" /\ \A k \in Jobs \ {j} : pc'[k] = pc[k]
    BY <1>16 DEF Assemble, Goto, TypeOK
  <2>3. SameWork(mem'[j], db')
    BY <1>16, <2>1 DEF Assemble, CarefulInv, Copies
  <2>4. found'[j] = "none" => articles' = 0
    <3>1. found'[j] = IF articles > 0 THEN "row" ELSE "none"
      BY <1>16 DEF Assemble, TypeOK
    <3>2. articles \in Nat /\ articles' = articles
      BY <1>16 DEF Assemble, TypeOK
    <3>3. QED
      BY <3>1, <3>2
  <2>5. CarefulInv'
    BY <2>1, <2>2, <2>3, <2>4, SoloCareful DEF InStep
  <2>6. QED
    BY <1>16, <2>5, GrowsSame DEF Assemble
<1>17. CASE Upsert(j)
  <2> DEFINE new == [mem[j] EXCEPT !.status = "completed"]
  <2>1. new \in Row /\ Commit(j, new) /\ new.sr = mem[j].sr
    <3>1. Commit(j, new)
      BY <1>17 DEF Upsert
    <3>2. new \in Row
      BY StatusType DEF TaskStatus
    <3>3. new.sr = mem[j].sr
      BY DEF Row
    <3>4. QED
      BY <3>1, <3>2, <3>3
  <2>2. Running(j) /\ Close(j, "done") /\ articles' <= 1
    BY <1>17 DEF Upsert, Running, CarefulInv, OneArticle, TypeOK
  <2> HIDE DEF new
  <2>3. QED
    BY <2>1, <2>2, CloseCareful
<1>18. CASE Fail(j)
  <2>1. Live(j) /\ Close(j, "done") /\ articles' = articles /\ db'.sr = db.sr
    BY <1>18 DEF Fail, FailRow, Live, Row
  <2>2. QED
    BY <2>1, LostCareful
<1>19. CASE KillRevoked(j)
  <2>1. Live(j) /\ Close(j, "done") /\ articles' = articles /\ db'.sr = db.sr
    BY <1>19 DEF KillRevoked, Running, Live, rowVars
  <2>2. QED
    BY <2>1, LostCareful
<1>20. CASE DropRevoked(j)
  <2>1. /\ Live(j) /\ articles' = articles /\ db'.sr = db.sr
        /\ pc'[j] = "done" /\ \A k \in Jobs \ {j} : pc'[k] = pc[k]
    BY <1>20 DEF DropRevoked, Goto, Live, rowVars, TypeOK
  <2>2. CarefulInv'
    BY <2>1, SoloCareful DEF Running, InStep, CarefulInv, OneArticle
  <2>3. QED
    BY <2>1, <2>2, GrowsSame
<1>21. QED
  BY <1>1, <1>2, <1>3, <1>4, <1>5, <1>6, <1>7, <1>8, <1>9, <1>10, <1>11, <1>12, <1>13,
     <1>14, <1>15, <1>16, <1>17, <1>18, <1>19, <1>20 DEF Work

LEMMA DisturbCareful ==
  ASSUME TypeInv, CarefulInv, NEW j \in Jobs, Disturb(j)
  PROVE  CarefulInv' /\ Grows(db.sr, db'.sr)
<1> USE RowFacts DEF TypeInv
<1>1. CASE TouchHeartbeat(j)
  <2>1. UNCHANGED <<db, pc, idx, mem, found, articles>>
    BY <1>1 DEF TouchHeartbeat
  <2>2. CarefulInv'
    BY <2>1 DEF CarefulInv, OneLive, Live, Copies, Running, StepShown, InStep, At, OneArticle
  <2>3. QED
    BY <2>1, <2>2, GrowsSame
<1>2. CASE RetryStep(j)
  <2>1. SameWork(mem'[j], db') /\ articles' = articles /\ Goto(j, "exec") /\ Live(j)
    BY <1>2 DEF RetryStep, Reload, SameWork, TypeOK, Live
  <2>2. StepOf(db', At(j)') = "running"
    BY <1>2 DEF RetryStep, CarefulInv, StepShown, InStep, At
  <2>3. QED
    BY <1>2, <2>1, <2>2, SoloGoto, GrowsSame DEF RetryStep
<1>3. CASE Crash(j)
  <2>1. Live(j) /\ Close(j, "queued") /\ articles' = articles /\ db'.sr = db.sr
    BY <1>3 DEF Crash, Running, Live, rowVars
  <2>2. QED
    BY <2>1, LostCareful
<1>4. CASE HardLimit(j)
  <2>1. Live(j) /\ Close(j, "done") /\ articles' = articles /\ db'.sr = db.sr
    BY <1>4 DEF HardLimit, Live, rowVars
  <2>2. QED
    BY <2>1, LostCareful
<1>5. CASE DatabaseError(j)
  <2>1. Live(j) /\ Close(j, "done") /\ articles' = articles /\ db'.sr = db.sr
    BY <1>5 DEF DatabaseError, FailRow, Running, Live, Row
  <2>2. QED
    BY <2>1, LostCareful
<1>6. QED
  BY <1>1, <1>2, <1>3, <1>4, <1>5 DEF Disturb

\* A task at rest that gets a message, or nothing, is at rest but for the message.
LEMMA RestCareful ==
  ASSUME TypeInv, Idle, articles' <= 1,
         \/ UNCHANGED pc
         \/ \E j \in Jobs : Queue(j)
  PROVE  CarefulInv'
<1>1. PICK who : \A j \in Jobs : IF j = who THEN pc'[j] \in {"queued", "unused", "done"}
                                ELSE pc'[j] \in {"unused", "done"}
  BY DEF Queue, Goto, Idle, Live, TypeInv, TypeOK
<1>2. OneLive'
  BY <1>1 DEF OneLive, Live
<1>3. Copies' /\ StepShown'
  BY <1>1 DEF Copies, Running, StepShown, InStep
<1>4. OneArticle'
  BY <1>1 DEF OneArticle
<1>5. QED
  BY <1>2, <1>3, <1>4 DEF CarefulInv

\* A handler that writes a row and sends a message, on a task at rest.
LEMMA RequeueCareful ==
  ASSUME TypeInv, CarefulInv, Idle, NEW row \in Row, Requeue(row),
         articles' \in Nat, articles' <= articles
  PROVE  CarefulInv' /\ db'.sr = row.sr
<1>1. db'.sr = row.sr
  BY DEF Requeue, Row
<1>2. UNCHANGED pc \/ \E j \in Jobs : Queue(j)
  BY DEF Requeue, Enqueue
<1>3. articles' <= 1
  <2>1. articles <= 1 /\ articles \in Nat
    BY DEF CarefulInv, OneArticle, TypeInv, TypeOK
  <2>2. QED
    BY <2>1
<1>4. QED
  BY <1>1, <1>2, <1>3, RestCareful

\* The handlers at rest: only a rerun takes back a completed step, none takes
\* back an approval.
LEMMA OperatorCareful ==
  ASSUME Careful, TypeInv, CarefulInv, Operator
  PROVE  /\ CarefulInv'
         /\ \A reason \in Reasons : Approved(db.sr, reason) => Approved(db'.sr, reason)
         /\ \/ Grows(db.sr, db'.sr)
            \/ \E s \in Steps, cascade \in BOOLEAN : Rerun(s, cascade)
<1> USE RowFacts DEF TypeInv
<1> DEFINE Kept == CarefulInv' /\ Grows(db.sr, db'.sr)
<1>0. Idle
  BY DEF Operator, StartNext, StartAll, Retry, ApproveTest, ApproveSerp, ApproveImages,
     ForceFail, ForceComplete, Rerun, Op
<1>1. articles \in Nat /\ articles <= 1
  BY DEF TypeOK, CarefulInv, OneArticle
<1>2. CASE StartNext \/ StartAll
  <2>1. db' = db /\ articles' = articles /\ \E j \in Jobs : Queue(j)
    BY <1>2 DEF StartNext, StartAll, rowVars
  <2>2. QED
    BY <1>0, <1>1, <2>1, RestCareful, GrowsSame DEF Grows
<1>3. CASE Retry
  <2>1. Requeue(db) /\ articles' = articles
    BY <1>3 DEF Retry
  <2>2. CarefulInv' /\ db'.sr = db.sr
    BY <1>0, <1>1, <2>1, RequeueCareful
  <2>3. QED
    BY <2>2, GrowsSame DEF Grows
<1>4. CASE ApproveTest
  <2> DEFINE row == [db EXCEPT !.sr.waiting = FALSE, !.sr.testOk = TRUE]
             sr == [db.sr EXCEPT !.waiting = FALSE, !.testOk = TRUE]
  <2>1. Requeue(row) /\ articles' = articles
    BY <1>4 DEF ApproveTest
  <2>2. row = [db EXCEPT !.sr = sr]
    BY DEF Row
  <2>3. /\ sr \in StepResults /\ sr.step = db.sr.step /\ sr.testOk
        /\ sr.serpOk = db.sr.serpOk /\ sr.imagesOk = db.sr.imagesOk
    BY DEF Row, StepResults
  <2> HIDE DEF sr
  <2>4. row \in Row /\ row.sr = sr
    BY <2>2, <2>3, ResultsType DEF Row
  <2> HIDE DEF row
  <2>5. CarefulInv' /\ db'.sr = sr
    BY <1>0, <1>1, <2>1, <2>4, RequeueCareful
  <2>6. Grows(db.sr, db'.sr)
    BY <2>3, <2>5, GrowsFlags
  <2>7. QED
    BY <2>5, <2>6 DEF Grows
<1>5. CASE ApproveSerp
  <2> DEFINE row == [db EXCEPT !.serp = TRUE, !.sr.pause = "none", !.sr.serpOk = TRUE]
             sr == [db.sr EXCEPT !.pause = "none", !.serpOk = TRUE]
  <2>1. Requeue(row) /\ articles' = articles
    BY <1>5 DEF ApproveSerp
  <2>2. row = [db EXCEPT !.serp = TRUE, !.sr = sr]
    BY DEF Row
  <2>3. /\ sr \in StepResults /\ sr.step = db.sr.step /\ sr.serpOk
        /\ sr.testOk = db.sr.testOk /\ sr.imagesOk = db.sr.imagesOk
    BY DEF Row, StepResults
  <2> HIDE DEF sr
  <2>4. row \in Row /\ row.sr = sr
    BY <2>2, <2>3 DEF Row
  <2> HIDE DEF row
  <2>5. CarefulInv' /\ db'.sr = sr
    BY <1>0, <1>1, <2>1, <2>4, RequeueCareful
  <2>6. Grows(db.sr, db'.sr)
    BY <2>3, <2>5, GrowsFlags
  <2>7. QED
    BY <2>5, <2>6 DEF Grows
<1>6. CASE ApproveImages
  <2> DEFINE row == [db EXCEPT !.sr.pause = "none", !.sr.imagesOk = TRUE]
             sr == [db.sr EXCEPT !.pause = "none", !.imagesOk = TRUE]
  <2>1. Requeue(row) /\ articles' = articles
    BY <1>6 DEF ApproveImages
  <2>2. row = [db EXCEPT !.sr = sr]
    BY DEF Row
  <2>3. /\ sr \in StepResults /\ sr.step = db.sr.step /\ sr.imagesOk
        /\ sr.testOk = db.sr.testOk /\ sr.serpOk = db.sr.serpOk
    BY DEF Row, StepResults
  <2> HIDE DEF sr
  <2>4. row \in Row /\ row.sr = sr
    BY <2>2, <2>3, ResultsType DEF Row
  <2> HIDE DEF row
  <2>5. CarefulInv' /\ db'.sr = sr
    BY <1>0, <1>1, <2>1, <2>4, RequeueCareful
  <2>6. Grows(db.sr, db'.sr)
    BY <2>3, <2>5, GrowsFlags
  <2>7. QED
    BY <2>5, <2>6 DEF Grows
<1>7. CASE ForceFail
  <2>1. db'.sr = db.sr /\ articles' = articles /\ pc' = pc
    BY <1>7 DEF ForceFail, Row
  <2>2. QED
    BY <1>0, <1>1, <2>1, RestCareful, GrowsSame DEF Grows
<1>8. CASE ForceComplete
  <2>1. db'.sr = db.sr /\ articles' = articles /\ pc' = pc
    BY <1>8 DEF ForceComplete, Row
  <2>2. QED
    BY <1>0, <1>1, <2>1, RestCareful, GrowsSame DEF Grows
<1>9. ASSUME NEW s \in Steps, NEW cascade \in BOOLEAN, Rerun(s, cascade)
      PROVE  /\ CarefulInv'
             /\ \A reason \in Reasons : Approved(db.sr, reason) => Approved(db'.sr, reason)
  <2> DEFINE row == Rewound(s, cascade)
  <2>1. row \in Row /\ Requeue(row)
    BY <1>9, RewoundType DEF Rerun
  <2>2. articles' \in Nat /\ articles' <= articles
    BY <1>1, <1>9 DEF Rerun, DeleteArticle
  <2>3. CarefulInv' /\ db'.sr = row.sr
    BY <1>0, <2>1, <2>2, RequeueCareful
  <2>4. /\ row.sr.serpOk = db.sr.serpOk /\ row.sr.imagesOk = db.sr.imagesOk
        /\ row.sr.testOk = db.sr.testOk
    BY DEF Rewound, Row, StepResults
  <2>5. QED
    BY <2>3, <2>4 DEF Approved
<1>10. QED
  BY <1>2, <1>3, <1>4, <1>5, <1>6, <1>7, <1>8, <1>9 DEF Operator

\* The clock ages the entries of running steps in the row and in every copy alike,
\* and changes no status of a step.
LEMMA OlderStepsWork ==
  ASSUME NEW sr \in StepResults
  PROVE  /\ \A s \in Steps : OlderSteps(sr).step[s].st = sr.step[s].st
         /\ OlderSteps(sr).pause = sr.pause
         /\ OlderSteps(sr).waiting = sr.waiting
         /\ OlderSteps(sr).serpOk = sr.serpOk
         /\ OlderSteps(sr).imagesOk = sr.imagesOk
         /\ OlderSteps(sr).testOk = sr.testOk
BY DEF OlderSteps, StepResults, StepRec

\* Beat changes statuses of the task only.
LEMMA BeatCareful ==
  ASSUME TypeInv, CarefulInv, Beat
  PROVE  CarefulInv' /\ Grows(db.sr, db'.sr)
<1> USE RowFacts DEF TypeInv
<1>1. CASE Tick
  <2>1. /\ db' = [db EXCEPT !.sr = OlderSteps(db.sr)]
        /\ \A j \in Jobs : mem'[j] = [mem[j] EXCEPT !.sr = OlderSteps(mem[j].sr)]
        /\ UNCHANGED <<pc, idx, found, articles>>
    BY <1>1 DEF Tick
  <2>2. db'.sr = OlderSteps(db.sr) /\ db'.serp = db.serp /\ db'.text = db.text
    BY <2>1 DEF Row
  <2>3. \A j \in Jobs : /\ mem'[j].sr = OlderSteps(mem[j].sr)
                        /\ mem'[j].serp = mem[j].serp /\ mem'[j].text = mem[j].text
    BY <2>1 DEF Row
  <2>4. db.sr \in StepResults
    BY DEF Row
  <2>5. Copies'
    BY <2>1, <2>2, <2>3 DEF CarefulInv, Copies, SameWork, Running
  <2>6. Grows(db.sr, db'.sr)
    BY <2>2, <2>4, OlderStepsWork DEF Grows, Approved
  <2>7. StepShown'
    <3> SUFFICES ASSUME NEW j \in Jobs, InStep(j)'
                 PROVE  StepOf(db', At(j)') = "running"
      BY DEF StepShown
    <3>1. InStep(j) /\ At(j)' = At(j)
      BY <2>1 DEF InStep, At
    <3>2. StepOf(db, At(j)) = "running" /\ At(j) \in Steps
      BY <3>1, AtSteps DEF CarefulInv, StepShown, IndexOK, AtStep, InStep
    <3>3. QED
      BY <2>2, <2>4, <3>1, <3>2, OlderStepsWork DEF StepOf
  <2>8. OneLive' /\ OneArticle'
    BY <2>1 DEF CarefulInv, OneLive, Live, OneArticle
  <2>9. QED
    BY <2>5, <2>6, <2>7, <2>8 DEF CarefulInv
<1>2. CASE BeatScan \/ BeatCommit
  <2>1. /\ db'.sr = db.sr /\ db'.serp = db.serp /\ db'.text = db.text
        /\ UNCHANGED <<pc, idx, mem, found, articles>>
    BY <1>2 DEF BeatScan, BeatCommit, rowVars, workVars, Row
  <2>2. CarefulInv'
    BY <2>1 DEF CarefulInv, OneLive, Live, Copies, Running, SameWork, StepShown, InStep, At,
       StepOf, OneArticle
  <2>3. QED
    BY <2>1, <2>2, GrowsSame
<1>3. QED
  BY <1>1, <1>2 DEF Beat

LEMMA CarefulInit == Init => CarefulInv
<1> SUFFICES ASSUME Init PROVE CarefulInv
  OBVIOUS
<1>1. OneLive
  BY DEF Init, OneLive, Live
<1>2. Copies /\ StepShown /\ OneArticle
  BY DEF Init, Copies, Running, StepShown, InStep, OneArticle
<1>3. QED
  BY <1>1, <1>2 DEF CarefulInv

\* What a step of the whole system may do to the row.
LEMMA CarefulNext ==
  ASSUME Careful
  PROVE  TypeInv /\ CarefulInv /\ [Next]_vars =>
         /\ CarefulInv'
         /\ \A reason \in Reasons : Approved(db.sr, reason) => Approved(db'.sr, reason)
         /\ \/ Grows(db.sr, db'.sr)
            \/ \E s \in Steps, cascade \in BOOLEAN : Rerun(s, cascade)
<1> SUFFICES ASSUME TypeInv, CarefulInv, [Next]_vars
             PROVE  /\ CarefulInv'
                    /\ \A reason \in Reasons :
                         Approved(db.sr, reason) => Approved(db'.sr, reason)
                    /\ \/ Grows(db.sr, db'.sr)
                       \/ \E s \in Steps, cascade \in BOOLEAN : Rerun(s, cascade)
  OBVIOUS
<1>1. CASE UNCHANGED vars
  <2>1. CarefulInv'
    BY <1>1 DEF vars, CarefulInv, OneLive, Live, Copies, Running, SameWork, StepShown, InStep,
       At, StepOf, OneArticle
  <2>2. QED
    BY <1>1, <2>1, GrowsSame DEF vars
<1>2. ASSUME NEW j \in Jobs, Work(j) \/ Disturb(j)
      PROVE  CarefulInv' /\ Grows(db.sr, db'.sr)
  BY <1>2, WorkCareful, DisturbCareful
<1>3. CASE Beat
  BY <1>3, BeatCareful DEF Grows
<1>4. CASE Operator
  BY <1>4, OperatorCareful
<1>5. ASSUME CarefulInv', Grows(db.sr, db'.sr)
      PROVE  \A reason \in Reasons : Approved(db.sr, reason) => Approved(db'.sr, reason)
  BY <1>5 DEF Grows
<1>6. QED
  BY <1>1, <1>2, <1>3, <1>4, <1>5 DEF Next

\* finalize_article asks for an article before _upsert_article inserts one, and the
\* two are not one statement.  As long as the task page offers no operation on a
\* task at work, no crash, redelivery or clean-up between them makes a second one.
THEOREM OneArticleKept ==
  ASSUME Careful
  PROVE  Spec => []AtMostOneArticle
<1>1. CarefulInv => AtMostOneArticle
  BY DEF CarefulInv, OneArticle, AtMostOneArticle
<1>2. TypeInv /\ CarefulInv /\ [Next]_vars => CarefulInv'
  BY CarefulNext
<1>3. QED
  BY <1>1, <1>2, TypeInit, TypeNext, CarefulInit, PTL DEF Spec

\* save_step_result writes all of step_results from the session's copy: a step that
\* was completed stays so all the same, through failures, crashes, the clean-up and
\* retries, and only rerun-step takes it back.
THEOREM WorkNeverLost ==
  ASSUME Careful
  PROVE  Spec => WorkKept
<1>1. TypeInv /\ CarefulInv /\ [Next]_vars =>
        [\/ \A s \in Steps : StepOf(db, s) = "completed" => StepOf(db, s)' = "completed"
         \/ \E s \in Steps, cascade \in BOOLEAN : Rerun(s, cascade)]_vars
  BY CarefulNext DEF Grows, StepOf
<1>2. TypeInv /\ CarefulInv /\ [Next]_vars => CarefulInv'
  BY CarefulNext
<1>3. QED
  BY <1>1, <1>2, TypeInit, TypeNext, CarefulInit, PTL DEF Spec, WorkKept

\* The approve endpoints write a flag into the same column a delivery writes from
\* its copy: no delivery, no clean-up and no other endpoint takes the flag back.
THEOREM ApprovalNeverLost ==
  ASSUME Careful
  PROVE  Spec => ApprovalKept
<1>1. TypeInv /\ CarefulInv /\ [Next]_vars =>
        [\A reason \in Reasons : Approved(db.sr, reason) => Approved(db'.sr, reason)]_vars
  BY CarefulNext
<1>2. TypeInv /\ CarefulInv /\ [Next]_vars => CarefulInv'
  BY CarefulNext
<1>3. QED
  BY <1>1, <1>2, TypeInit, TypeNext, CarefulInit, PTL DEF Spec, ApprovalKept

-----------------------------------------------------------------------------
(* Reviews.  They are respected when no worker is killed and the database     *)
(* answers: a crash between SerpStep's two commits skips the SERP review, and *)
(* so does a rerun with the approvals of the first time still in the row.     *)

Attended ==
  /\ Careful
  /\ Faults \cap {"crash", "hard_limit", "database"} = {}
  /\ Requests \cap {"beat", "rerun"} = {}

\* Each preset of pipeline_presets.py has one generating step.
OnePrimary == \A s, t \in Steps \cap Primary : s = t

Outside == {"unused", "queued", "begin", "entry", "done"}
Waits(reason) == db.sr.pause = reason /\ ~Approved(db.sr, reason)

\* Past its entry a delivery carries a pause only from the step that asked for it to
\* the stop after it, and the pause is not approved.
Held(j) ==
  pc[j] \notin Outside /\ db.sr.pause # "none" =>
    /\ pc[j] \in {"save", "after", "fail"}
    /\ idx[j] <= Len(Plan)
    /\ \/ db.sr.pause = "serp_review" /\ At(j) = SERP /\ ~db.sr.serpOk
       \/ db.sr.pause = "image_review" /\ At(j) = IMAGE_GEN /\ ~db.sr.imagesOk

\* What the row shows of a step that has ended, and of a fetch not yet announced.
Shown(j) ==
  /\ pc[j] = "after" => \/ StepOf(db, At(j)) = "completed"
                        \/ At(j) \in FactChecks
                        \/ At(j) = IMAGE_GEN /\ db.sr.pause = "none"
  /\ pc[j] = "fail" => idx[j] <= Len(Plan) /\ StepOf(db, At(j)) = "timed_out"
  /\ pc[j] = "fetched" => At(j) = SERP /\ ~auto[j] /\ ~db.sr.serpOk

\* A project page is the first delivery: it finds no pause and makes no review due.
PageFirst(j) ==
  auto[j] => /\ unreviewed = {}
             /\ db.sr.pause # "serp_review" /\ ~db.sr.waiting
             /\ pc[j] \in Outside => db.sr.pause = "none"

\* Where a delivery may be that has made output nobody has approved: ...
AtGate(j, reason) ==
  /\ ~auto[j] /\ idx[j] <= Len(Plan) /\ At(j) \in GateOf(reason)
  /\ \/ reason = "serp_review" /\ pc[j] = "fetched"
     \/ reason # "test_mode" /\ pc[j] \in {"save", "after", "fail"} /\ Waits(reason)
     \/ reason = "test_mode" /\ pc[j] = "after" /\ ~db.sr.testOk /\ TestMode

\* ... at the gate itself, or where it will be turned away.
Guarded(j) ==
  \A reason \in unreviewed : AtGate(j, reason) \/ (pc[j] \in Outside /\ Waits(reason))

ReviewJob(j) == Held(j) /\ Shown(j) /\ PageFirst(j) /\ Guarded(j)

\* An approval, or a request for one, speaks of output that is there.
Earned ==
  /\ db.sr.serpOk => db.serp
  /\ db.sr.imagesOk => IMAGE_GEN \in Steps /\ StepOf(db, IMAGE_GEN) = "completed"
  /\ db.sr.pause = "image_review" => IMAGE_GEN \in Steps /\ StepOf(db, IMAGE_GEN) # "failed"
  /\ db.sr.testOk \/ db.sr.waiting => \E s \in Primary \cap Steps : StepOf(db, s) = "completed"
  /\ db.sr.waiting => db.sr.pause = "test_mode" /\ ~db.sr.testOk

RevokedDone == \A j \in revoked : pc[j] = "done"

ReviewInv ==
  /\ Earned /\ RevokedDone
  /\ \A j \in Jobs : Live(j) => ReviewJob(j)
  /\ Idle => \A reason \in unreviewed : Waits(reason)

\* Steps of the one delivery that is live.
LEMMA SoloReview ==
  ASSUME TypeInv, CarefulInv, ReviewInv, NEW j \in Jobs, Live(j),
         \A k \in Jobs \ {j} : pc'[k] = pc[k],
         revoked' = revoked, Earned',
         Live(j)' => ReviewJob(j)',
         ~Live(j)' => \A reason \in unreviewed' : Waits(reason)'
  PROVE  ReviewInv'
<1>1. \A k \in Jobs \ {j} : ~Live(k)'
  BY DEF CarefulInv, OneLive, Live
<1>2. RevokedDone'
  BY DEF ReviewInv, RevokedDone, Live, TypeInv, TypeOK
<1>3. \A k \in Jobs : Live(k)' => ReviewJob(k)'
  BY <1>1
<1>4. Idle' => \A reason \in unreviewed' : Waits(reason)'
  BY DEF Idle
<1>5. QED
  BY <1>2, <1>3, <1>4 DEF ReviewInv

\* A task at rest that gets a message, or nothing.
LEMMA RestReview ==
  ASSUME TypeInv, ReviewInv, Idle, Earned',
         \A reason \in unreviewed' : Waits(reason)',
         \/ UNCHANGED pc
         \/ revoked' = revoked /\ \E j \in Jobs : Queue(j),
         \A j \in revoked' : j \in revoked \/ pc[j] = "done"
  PROVE  ReviewInv'
<1>1. CASE UNCHANGED pc
  <2>1. RevokedDone'
    BY <1>1 DEF ReviewInv, RevokedDone
  <2>2. \A j \in Jobs : ~Live(j)'
    BY <1>1 DEF Idle, Live
  <2>3. QED
    BY <2>1, <2>2 DEF ReviewInv
<1>2. ASSUME revoked' = revoked, NEW j \in Jobs, Queue(j)
      PROVE  ReviewInv'
  <2>1. /\ pc' = [pc EXCEPT ![j] = "queued"] /\ pc[j] = "unused"
        /\ auto' = [auto EXCEPT ![j] = FALSE]
    BY <1>2 DEF Queue, Goto
  <2>2. RevokedDone'
    BY <1>2, <2>1 DEF ReviewInv, RevokedDone, TypeInv, TypeOK
  <2>3. pc'[j] = "queued" /\ ~auto'[j] /\ \A k \in Jobs \ {j} : ~Live(k)'
    BY <2>1 DEF Idle, Live, TypeInv, TypeOK
  <2>4. ReviewJob(j)'
    BY <2>3 DEF ReviewJob, Held, Shown, PageFirst, Guarded, Outside
  <2>5. QED
    BY <2>2, <2>3, <2>4 DEF ReviewInv, Idle, Live
<1>3. QED
  BY <1>1, <1>2

LEMMA GateFacts ==
  /\ GateOf("serp_review") = {SERP}
  /\ GateOf("image_review") = {IMAGE_GEN}
  /\ GateOf("test_mode") = Primary
  /\ SERP \notin Primary /\ IMAGE_GEN \notin Primary /\ SERP # IMAGE_GEN
  /\ {SERP, IMAGE_GEN} \cap FactChecks = {} /\ Primary \cap FactChecks = {}
BY DEF GateOf, SERP, IMAGE_GEN, Primary, FactChecks

\* Nothing of step_results changes, and the delivery does not pass a gate.
LEMMA MoveReview ==
  ASSUME TypeInv, CarefulInv, ReviewInv, NEW j \in Jobs, Live(j),
         \A k \in Jobs \ {j} : pc'[k] = pc[k],
         UNCHANGED <<revoked, auto, unreviewed>>, idx' = idx \/ ~Live(j)' \/ unreviewed = {},
         db'.sr = db.sr, db.serp => db'.serp,
         pc[j] \in Outside \/ unreviewed = {},
         pc'[j] \in Outside \/ pc'[j] \in {"phase", "refresh", "exec", "save", "final", "upsert"},
         pc'[j] \notin Outside => db.sr.pause = "none",
         pc[j] \notin Outside /\ Live(j)' => pc'[j] \notin Outside
  PROVE  ReviewInv'
<1>1. Earned'
  BY DEF ReviewInv, Earned, StepOf
<1>2. ReviewJob(j)
  BY DEF ReviewInv
<1>3. ~Live(j)' => \A reason \in unreviewed' : Waits(reason)'
  BY <1>2 DEF ReviewJob, Guarded, AtGate, Waits, Outside, Live
<1>4. Live(j)' => ReviewJob(j)'
  <2> SUFFICES ASSUME Live(j)' PROVE ReviewJob(j)'
    OBVIOUS
  <2>1. Held(j)' /\ Shown(j)'
    BY DEF Held, Shown, Outside
  <2>2. PageFirst(j)'
    BY <1>2 DEF ReviewJob, PageFirst
  <2>3. Guarded(j)'
    <3>1. CASE unreviewed = {}
      BY <3>1 DEF Guarded
    <3>2. CASE unreviewed # {}
      <4>1. pc[j] \in Outside /\ \A reason \in unreviewed : Waits(reason)
        BY <1>2, <3>2 DEF ReviewJob, Guarded, AtGate, Outside
      <4>2. db.sr.pause # "none"
        <5>1. PICK reason \in unreviewed : db.sr.pause = reason
          BY <3>2, <4>1 DEF Waits
        <5>2. QED
          BY <5>1 DEF TypeInv, TypeOK, Reasons
      <4>3. pc'[j] \in Outside
        BY <4>2
      <4>4. QED
        BY <4>1, <4>3 DEF Guarded, Waits
    <3>3. QED
      BY <3>1, <3>2
  <2>4. QED
    BY <2>1, <2>2, <2>3 DEF ReviewJob
<1>5. QED
  BY <1>1, <1>3, <1>4, SoloReview

\* Between the entry and the first gate, and between two gates, nothing is due.
LEMMA NothingDue ==
  ASSUME TypeInv, ReviewInv, NEW j \in Jobs,
         pc[j] \in {"phase", "refresh", "exec", "final", "upsert"}
  PROVE  /\ Live(j) /\ Running(j) /\ ReviewJob(j)
         /\ unreviewed = {} /\ db.sr.pause = "none" /\ ~db.sr.waiting
<1>1. Live(j) /\ Running(j) /\ ReviewJob(j)
  BY DEF Live, Running, ReviewInv
<1>2. unreviewed = {}
  BY <1>1 DEF ReviewJob, Guarded, AtGate, Outside
<1>3. db.sr.pause = "none"
  BY <1>1 DEF ReviewJob, Held, Outside
<1>4. QED
  BY <1>1, <1>2, <1>3 DEF ReviewInv, Earned

LEMMA GotoFacts ==
  ASSUME TypeInv, NEW j \in Jobs, NEW label, Goto(j, label)
  PROVE  pc'[j] = label /\ \A k \in Jobs \ {j} : pc'[k] = pc[k]
BY DEF Goto, TypeInv, TypeOK

LEMMA CloseFacts ==
  ASSUME TypeInv, NEW j \in Jobs, NEW label, Close(j, label)
  PROVE  pc'[j] = label /\ \A k \in Jobs \ {j} : pc'[k] = pc[k]
BY GotoFacts DEF Close

\* The steps of a delivery that change nothing a review looks at.
LEMMA QuietReview ==
  ASSUME TypeInv, CarefulInv, ReviewInv, NEW j \in Jobs,
         \/ Receive(j) \/ Begin(j) \/ RefreshStep(j) \/ Scrape(j) \/ PhaseEnd(j)
         \/ Assemble(j) \/ Upsert(j) \/ RetryStep(j) \/ TouchHeartbeat(j)
  PROVE  ReviewInv'
<1> USE RowFacts DEF TypeInv
<1>1. CASE Receive(j)
  <2>1. Live(j) /\ pc[j] = "queued" /\ Goto(j, "begin") /\ db' = db
        /\ UNCHANGED <<revoked, auto, unreviewed, idx>>
    BY <1>1 DEF Receive, Live
  <2>2. QED
    BY <2>1, GotoFacts, MoveReview DEF Outside
<1>2. CASE Begin(j)
  <2> DEFINE new == [mem[j] EXCEPT !.status = "processing"]
  <2>1. /\ Live(j) /\ Running(j) /\ pc[j] = "begin" /\ Goto(j, "entry") /\ Commit(j, new)
        /\ UNCHANGED <<revoked, auto, unreviewed, idx>>
    BY <1>2 DEF Begin, Flush, Live, Running
  <2>2. new.sr = mem[j].sr /\ new.serp = mem[j].serp
    BY DEF Row
  <2>3. SameWork(mem[j], db)
    BY <2>1 DEF CarefulInv, Copies
  <2> HIDE DEF new
  <2>4. db'.sr = db.sr /\ db'.serp = db.serp
    BY <2>1, <2>2, <2>3, CommitWork DEF SameWork
  <2>5. QED
    BY <2>1, <2>4, GotoFacts, MoveReview DEF Outside
<1>3. CASE RefreshStep(j)
  <2>1. /\ pc[j] = "refresh" /\ Goto(j, "exec") /\ db' = db
        /\ UNCHANGED <<revoked, auto, unreviewed, idx>>
    BY <1>3 DEF RefreshStep
  <2>2. QED
    BY <2>1, NothingDue, GotoFacts, MoveReview DEF Outside
<1>4. CASE Scrape(j)
  <2> DEFINE new == [mem[j] EXCEPT !.text = TRUE]
  <2>1. /\ pc[j] = "exec" /\ Goto(j, "save") /\ Commit(j, new)
        /\ UNCHANGED <<revoked, auto, unreviewed, idx>>
    BY <1>4 DEF Scrape, Flush
  <2>2. new.sr = mem[j].sr /\ new.serp = mem[j].serp
    BY DEF Row
  <2>3. SameWork(mem[j], db)
    BY <2>1 DEF CarefulInv, Copies, Running
  <2> HIDE DEF new
  <2>4. db'.sr = db.sr /\ db'.serp = db.serp
    BY <2>1, <2>2, <2>3, CommitWork DEF SameWork
  <2>5. QED
    BY <2>1, <2>4, NothingDue, GotoFacts, MoveReview DEF Outside
<1>5. CASE PhaseEnd(j)
  <2>1. /\ pc[j] = "phase" /\ Goto(j, "final") /\ db' = db
        /\ UNCHANGED <<revoked, auto, unreviewed, idx>>
    BY <1>5 DEF PhaseEnd
  <2>2. QED
    BY <2>1, NothingDue, GotoFacts, MoveReview DEF Outside
<1>6. CASE Assemble(j)
  <2>1. /\ pc[j] = "final" /\ Goto(j, "upsert") /\ db' = db
        /\ UNCHANGED <<revoked, auto, unreviewed, idx>>
    BY <1>6 DEF Assemble
  <2>2. QED
    BY <2>1, NothingDue, GotoFacts, MoveReview DEF Outside
<1>7. CASE Upsert(j)
  <2> DEFINE new == [mem[j] EXCEPT !.status = "completed"]
  <2>1. /\ pc[j] = "upsert" /\ Close(j, "done") /\ Commit(j, new)
        /\ UNCHANGED <<revoked, auto, unreviewed>>
    BY <1>7 DEF Upsert
  <2>2. new.sr = mem[j].sr /\ new.serp = mem[j].serp
    BY DEF Row
  <2>3. SameWork(mem[j], db)
    BY <2>1 DEF CarefulInv, Copies, Running
  <2> HIDE DEF new
  <2>4. db'.sr = db.sr /\ db'.serp = db.serp
    BY <2>1, <2>2, <2>3, CommitWork DEF SameWork
  <2>5. QED
    BY <2>1, <2>4, NothingDue, CloseFacts, MoveReview DEF Live, Outside
<1>8. CASE RetryStep(j)
  <2>1. /\ pc[j] = "exec" /\ Goto(j, "exec") /\ db' = db
        /\ UNCHANGED <<revoked, auto, unreviewed, idx>>
    BY <1>8 DEF RetryStep
  <2>2. QED
    BY <2>1, NothingDue, GotoFacts, MoveReview DEF Outside
<1>9. CASE TouchHeartbeat(j)
  <2>1. /\ pc[j] = "exec" /\ pc' = pc /\ db' = db
        /\ UNCHANGED <<revoked, auto, unreviewed, idx>>
    BY <1>9 DEF TouchHeartbeat
  <2>2. QED
    BY <2>1, NothingDue, MoveReview DEF Outside
<1>10. QED
  BY <1>1, <1>2, <1>3, <1>4, <1>5, <1>6, <1>7, <1>8, <1>9

\* The entry: whoever passes it finds every review done, and leaves no pause.
LEMMA EntryReview ==
  ASSUME TypeInv, CarefulInv, ReviewInv, NEW j \in Jobs, EntryPaused(j) \/ EntryResume(j)
  PROVE  ReviewInv'
<1> USE RowFacts DEF TypeInv
<1> DEFINE sr == db.sr
<1>1. /\ pc[j] = "entry" /\ Live(j) /\ Running(j) /\ ReviewJob(j) /\ SameWork(mem[j], db)
      /\ sr \in StepResults
  BY DEF EntryPaused, EntryResume, Live, Running, ReviewInv, CarefulInv, Copies, Row
<1>2. CASE EntryPaused(j)
  <2> DEFINE new == IF mem[j].sr.pause = "serp_review"
                    THEN [mem[j] EXCEPT !.status = "paused"] ELSE mem[j]
  <2>1. Commit(j, new) /\ Close(j, "done") /\ UNCHANGED <<revoked, auto, unreviewed>>
    BY <1>2 DEF EntryPaused
  <2>2. new.sr = mem[j].sr /\ new.serp = mem[j].serp
    BY DEF Row
  <2> HIDE DEF new
  <2>3. db'.sr = db.sr /\ db'.serp = db.serp
    BY <1>1, <2>1, <2>2, CommitWork DEF SameWork
  <2>4. QED
    BY <1>1, <2>1, <2>3, CloseFacts, MoveReview DEF Outside, Live
<1>3. CASE EntryResume(j)
  <2> DEFINE cleared == IF sr.pause = "none" THEN sr
                        ELSE IF Approved(sr, sr.pause) THEN [sr EXCEPT !.pause = "none"]
                        ELSE AutoApprove(sr, sr.pause)
             whole == [cleared EXCEPT !.plan = TRUE]
             new == [mem[j] EXCEPT !.sr = whole]
  <2>1. /\ sr.pause = "none" \/ Approved(sr, sr.pause) \/ auto[j]
        /\ Goto(j, "phase") /\ idx' = idx /\ UNCHANGED <<revoked, auto>>
        /\ unreviewed' \subseteq unreviewed
    BY <1>1, <1>3 DEF EntryResume, SameWork
  <2>2. auto[j] => unreviewed = {} /\ sr.pause = "none"
    BY <1>1 DEF ReviewJob, PageFirst, Outside
  <2>3. unreviewed = {}
    <3> SUFFICES ASSUME NEW reason \in unreviewed PROVE FALSE
      OBVIOUS
    <3>1. Waits(reason) /\ ~auto[j]
      BY <1>1, <2>2 DEF ReviewJob, Guarded, AtGate
    <3>2. sr.pause # "none"
      BY <3>1 DEF Waits, TypeOK, Reasons
    <3>3. QED
      BY <2>1, <3>1, <3>2 DEF Waits
  <2>4. /\ whole.step = sr.step /\ whole.pause = "none" /\ whole.waiting = sr.waiting
        /\ whole.serpOk = sr.serpOk /\ whole.imagesOk = sr.imagesOk
        /\ whole.testOk = sr.testOk
        /\ whole \in StepResults
    <3>1. sr.pause = "none" \/ Approved(sr, sr.pause)
      BY <2>1, <2>2
    <3>2. QED
      BY <1>1, <3>1 DEF StepResults
  <2>5. Flush(j, new)
    BY <1>1, <1>3 DEF EntryResume, SameWork
  <2> HIDE DEF whole
  <2>6. new \in Row /\ new.sr = whole /\ new.serp = mem[j].serp
    BY <2>4, ResultsType DEF Row
  <2> HIDE DEF new
  <2>7. db'.sr = whole /\ db'.serp = db.serp
    BY <1>1, <2>5, <2>6, FlushWork DEF SameWork
  <2>8. ~sr.waiting
    <3>1. sr.waiting => sr.pause = "test_mode" /\ ~sr.testOk
      BY DEF ReviewInv, Earned
    <3>2. QED
      BY <2>1, <2>2, <3>1 DEF Approved
  <2>9. Earned'
    BY <2>4, <2>7, <2>8 DEF ReviewInv, Earned, StepOf
  <2>10. unreviewed' = {} /\ pc'[j] = "phase" /\ \A k \in Jobs \ {j} : pc'[k] = pc[k]
    BY <2>1, <2>3, GotoFacts
  <2>11. ReviewJob(j)'
    BY <2>4, <2>7, <2>8, <2>10 DEF ReviewJob, Held, Shown, PageFirst, Guarded, Outside
  <2>12. QED
    BY <1>1, <2>1, <2>9, <2>10, <2>11, SoloReview
<1>4. QED
  BY <1>2, <1>3

\* A step is begun, or passed because it is done already.
LEMMA BeginStepReview ==
  ASSUME TypeInv, CarefulInv, ReviewInv, NEW j \in Jobs, SkipCompleted(j) \/ StartStep(j)
  PROVE  ReviewInv'
<1> USE DEF TypeInv
<1>1. /\ pc[j] = "phase" /\ Live(j) /\ Running(j) /\ ReviewJob(j) /\ idx[j] <= Len(Plan)
      /\ unreviewed = {} /\ db.sr.pause = "none" /\ ~db.sr.waiting
      /\ SameWork(mem[j], db) /\ At(j) \in Steps
  BY NothingDue, AtSteps DEF SkipCompleted, StartStep, CarefulInv, Copies
<1>2. CASE SkipCompleted(j)
  <2>1. /\ pc'[j] = "after" /\ \A k \in Jobs \ {j} : pc'[k] = pc[k]
        /\ UNCHANGED <<db, idx, revoked, auto, unreviewed>>
        /\ StepOf(db, At(j)) = "completed"
    BY <1>1, <1>2, GotoFacts DEF SkipCompleted, SameWork, StepOf
  <2>2. Earned'
    BY <2>1 DEF ReviewInv, Earned, StepOf
  <2>3. ReviewJob(j)'
    BY <1>1, <2>1 DEF ReviewJob, Held, Shown, PageFirst, Guarded, At, StepOf, Outside
  <2>4. QED
    BY <1>1, <2>1, <2>2, <2>3, SoloReview DEF Live
<1>3. CASE StartStep(j)
  <2>1. /\ PutStep(j, "running") /\ UNCHANGED <<idx, revoked, auto, unreviewed>>
        /\ StepOf(db, At(j)) # "completed"
    BY <1>1, <1>3 DEF StartStep, SameWork, StepOf
  <2>2. PICK label \in {"refresh", "exec"} : Goto(j, label)
    BY <1>3 DEF StartStep
  <2>3. pc'[j] = label /\ \A k \in Jobs \ {j} : pc'[k] = pc[k]
    BY <2>2, GotoFacts
  <2>4. "running" \in StepStatus
    BY DEF StepStatus
  <2>5. /\ StepOf(db', At(j)) = "running"
        /\ \A s \in Steps \ {At(j)} : StepOf(db', s) = StepOf(db, s)
        /\ db'.serp = db.serp
        /\ db'.sr.pause = db.sr.pause /\ db'.sr.waiting = db.sr.waiting
        /\ db'.sr.serpOk = db.sr.serpOk /\ db'.sr.imagesOk = db.sr.imagesOk
        /\ db'.sr.testOk = db.sr.testOk
    BY <1>1, <2>1, <2>4, PutStepWork
  <2>6. Earned'
    BY <1>1, <2>1, <2>5 DEF ReviewInv, Earned
  <2>7. ReviewJob(j)'
    BY <1>1, <2>1, <2>3, <2>5 DEF ReviewJob, Held, Shown, PageFirst, Guarded, Outside
  <2>8. QED
    BY <1>1, <2>1, <2>3, <2>6, <2>7, SoloReview DEF Live
<1>4. QED
  BY <1>2, <1>3

\* The steps that ask for a review: the data is there before the pause is.
LEMMA AskReview ==
  ASSUME TypeInv, CarefulInv, ReviewInv, NEW j \in Jobs,
         SerpFetch(j) \/ SerpPause(j) \/ MakeImages(j)
  PROVE  ReviewInv'
<1> USE RowFacts DEF TypeInv
<1>1. /\ Live(j) /\ Running(j) /\ InStep(j) /\ ReviewJob(j) /\ idx[j] <= Len(Plan)
      /\ SameWork(mem[j], db) /\ At(j) \in Steps /\ StepOf(db, At(j)) = "running"
      /\ mem[j].sr \in StepResults
  BY AtSteps DEF SerpFetch, SerpPause, MakeImages, Live, Running, InStep, ReviewInv,
     CarefulInv, Copies, StepShown, IndexOK, AtStep, Row
<1>2. CASE SerpFetch(j)
  <2> DEFINE new == [mem[j] EXCEPT !.serp = TRUE]
  <2>1. /\ pc[j] = "exec" /\ At(j) = SERP /\ ~mem[j].serp /\ Flush(j, new)
        /\ unreviewed' = IF auto[j] THEN unreviewed ELSE unreviewed \cup {"serp_review"}
        /\ Goto(j, IF auto[j] THEN "save" ELSE "fetched")
        /\ UNCHANGED <<idx, revoked, auto>>
    BY <1>2 DEF SerpFetch
  <2>2. new \in Row /\ new.sr = mem[j].sr /\ new.serp
    BY DEF Row
  <2> HIDE DEF new
  <2>3. db'.sr = db.sr /\ db'.serp
    BY <1>1, <2>1, <2>2, FlushWork DEF SameWork
  <2>4. /\ pc'[j] = (IF auto[j] THEN "save" ELSE "fetched")
        /\ \A k \in Jobs \ {j} : pc'[k] = pc[k]
    BY <2>1, GotoFacts
  <2>5. unreviewed = {} /\ db.sr.pause = "none" /\ ~db.sr.waiting /\ ~db.sr.serpOk
    BY <1>1, <2>1, NothingDue DEF ReviewInv, Earned, SameWork
  <2>6. Earned'
    BY <2>3 DEF ReviewInv, Earned, StepOf
  <2>7. Held(j)' /\ Shown(j)' /\ PageFirst(j)'
    BY <1>1, <2>1, <2>3, <2>4, <2>5 DEF ReviewJob, Held, Shown, PageFirst, At, Outside
  <2>8. Guarded(j)'
    <3>1. CASE auto[j]
      BY <2>1, <2>5, <3>1 DEF Guarded
    <3>2. CASE ~auto[j]
      <4>1. unreviewed' = {"serp_review"} /\ pc'[j] = "fetched" /\ ~auto'[j] /\ idx' = idx
        BY <2>1, <2>4, <2>5, <3>2
      <4>2. At(j)' = SERP
        BY <2>1, <4>1 DEF At
      <4>3. QED
        BY <1>1, <4>1, <4>2, GateFacts DEF Guarded, AtGate, Waits, Approved
    <3>3. QED
      BY <3>1, <3>2
  <2>9. QED
    BY <1>1, <2>1, <2>4, <2>6, <2>7, <2>8, SoloReview DEF Live, ReviewJob
<1>3. CASE SerpPause(j)
  <2> DEFINE new == [mem[j] EXCEPT !.status = "paused", !.sr.pause = "serp_review"]
             sr == [mem[j].sr EXCEPT !.pause = "serp_review"]
  <2>1. /\ pc[j] = "fetched" /\ Flush(j, new) /\ Goto(j, "save")
        /\ UNCHANGED <<idx, revoked, auto, unreviewed>>
    BY <1>3 DEF SerpPause
  <2>2. /\ sr \in StepResults /\ sr.step = mem[j].sr.step /\ sr.pause = "serp_review"
        /\ sr.waiting = mem[j].sr.waiting /\ sr.serpOk = mem[j].sr.serpOk
        /\ sr.imagesOk = mem[j].sr.imagesOk /\ sr.testOk = mem[j].sr.testOk
    BY <1>1 DEF StepResults, Reasons
  <2>3. new = [mem[j] EXCEPT !.status = "paused", !.sr = sr]
    BY DEF Row
  <2> HIDE DEF sr
  <2>4. new \in Row /\ new.sr = sr /\ new.serp = mem[j].serp
    BY <2>2, <2>3 DEF Row, TaskStatus
  <2> HIDE DEF new
  <2>5. db'.sr = sr /\ db'.serp = db.serp
    BY <1>1, <2>1, <2>4, FlushWork DEF SameWork
  <2>6. pc'[j] = "save" /\ \A k \in Jobs \ {j} : pc'[k] = pc[k]
    BY <2>1, GotoFacts
  <2>7. db.sr.pause = "none" /\ ~db.sr.waiting /\ At(j) = SERP /\ ~auto[j] /\ ~db.sr.serpOk
    BY <1>1, <2>1 DEF ReviewJob, Held, Shown, Outside, ReviewInv, Earned
  <2>8. unreviewed \subseteq {"serp_review"}
    BY <1>1, <2>1, GateFacts DEF ReviewJob, Guarded, AtGate, Outside
  <2>9. db'.sr.serpOk = db.sr.serpOk /\ db'.sr.waiting = db.sr.waiting /\ At(j)' = At(j)
    BY <1>1, <2>1, <2>2, <2>5 DEF SameWork, At
  <2>10. Earned'
    BY <1>1, <2>2, <2>5, <2>7 DEF ReviewInv, Earned, StepOf, SameWork
  <2>11. Held(j)' /\ Shown(j)' /\ PageFirst(j)'
    BY <1>1, <2>1, <2>2, <2>5, <2>6, <2>7, <2>9 DEF Held, Shown, PageFirst, Outside
  <2>12. Guarded(j)'
    BY <1>1, <2>1, <2>2, <2>5, <2>6, <2>7, <2>8, <2>9, GateFacts
       DEF Guarded, AtGate, Waits, Approved
  <2>13. QED
    BY <1>1, <2>1, <2>6, <2>10, <2>11, <2>12, SoloReview DEF Live, ReviewJob
<1>4. CASE MakeImages(j)
  <2> DEFINE new == [mem[j] EXCEPT !.status = "processing", !.sr.pause = "image_review"]
             sr == [mem[j].sr EXCEPT !.pause = "image_review"]
  <2>1. /\ pc[j] = "exec" /\ At(j) = IMAGE_GEN /\ Flush(j, new) /\ Goto(j, "save")
        /\ unreviewed' = IF auto[j] THEN unreviewed ELSE unreviewed \cup {"image_review"}
        /\ UNCHANGED <<idx, revoked, auto>>
    BY <1>4 DEF MakeImages
  <2>2. /\ sr \in StepResults /\ sr.step = mem[j].sr.step /\ sr.pause = "image_review"
        /\ sr.waiting = mem[j].sr.waiting /\ sr.serpOk = mem[j].sr.serpOk
        /\ sr.imagesOk = mem[j].sr.imagesOk /\ sr.testOk = mem[j].sr.testOk
    BY <1>1 DEF StepResults, Reasons
  <2>3. new = [mem[j] EXCEPT !.status = "processing", !.sr = sr]
    BY DEF Row
  <2> HIDE DEF sr
  <2>4. new \in Row /\ new.sr = sr /\ new.serp = mem[j].serp
    BY <2>2, <2>3 DEF Row, TaskStatus
  <2> HIDE DEF new
  <2>5. db'.sr = sr /\ db'.serp = db.serp
    BY <1>1, <2>1, <2>4, FlushWork DEF SameWork
  <2>6. pc'[j] = "save" /\ \A k \in Jobs \ {j} : pc'[k] = pc[k]
    BY <2>1, GotoFacts
  <2>7. unreviewed = {} /\ db.sr.pause = "none" /\ ~db.sr.waiting /\ ~db.sr.imagesOk
    BY <1>1, <2>1, NothingDue DEF ReviewInv, Earned
  <2>8. db'.sr.imagesOk = db.sr.imagesOk /\ db'.sr.waiting = db.sr.waiting /\ At(j)' = At(j)
    BY <1>1, <2>1, <2>2, <2>5 DEF SameWork, At
  <2>9. Earned'
    BY <1>1, <2>1, <2>2, <2>5, <2>7 DEF ReviewInv, Earned, StepOf, SameWork
  <2>10. Held(j)' /\ Shown(j)' /\ PageFirst(j)'
    BY <1>1, <2>1, <2>2, <2>5, <2>6, <2>7, <2>8 DEF Held, Shown, PageFirst, Outside
  <2>11. Guarded(j)'
    BY <1>1, <2>1, <2>2, <2>5, <2>6, <2>7, <2>8, GateFacts
       DEF Guarded, AtGate, Waits, Approved
  <2>12. QED
    BY <1>1, <2>1, <2>6, <2>9, <2>10, <2>11, SoloReview DEF Live, ReviewJob
<1>5. QED
  BY <1>2, <1>3, <1>4

\* The result of a step.  The gate of a step that made output is not passed with it.
LEMMA ResultReview ==
  ASSUME TypeInv, CarefulInv, ReviewInv, OnePrimary, NEW j \in Jobs,
         ImageKeysMissing(j) \/ SaveResult(j) \/ SkipStep(j) \/ TimeOutStep(j)
  PROVE  ReviewInv'
<1> USE DEF TypeInv
<1>1. /\ pc[j] \in {"exec", "save"} /\ Live(j) /\ ReviewJob(j) /\ idx[j] <= Len(Plan)
      /\ SameWork(mem[j], db) /\ At(j) \in Steps /\ StepOf(db, At(j)) = "running"
  BY AtSteps DEF ImageKeysMissing, SaveResult, SkipStep, TimeOutStep, Live, Running, InStep,
     ReviewInv, CarefulInv, Copies, StepShown, IndexOK, AtStep
<1>2. PICK st \in StepStatus, label \in {"after", "fail"} :
        /\ SaveStep(j, st, label)
        /\ \/ st = "completed" /\ label = "after"
           \/ st = "skipped" /\ label = "after" /\ pc[j] = "exec" /\ At(j) \in FactChecks
           \/ st = "failed" /\ label = "after" /\ pc[j] = "exec" /\ At(j) = IMAGE_GEN
           \/ st = "timed_out" /\ label = "fail"
        /\ \/ unreviewed' = unreviewed
           \/ /\ label = "after"
              /\ unreviewed' = unreviewed \cup {"test_mode"}
              /\ At(j) \in Primary /\ TestMode /\ ~auto[j]
  BY DEF ImageKeysMissing, SaveResult, SkipStep, TimeOutStep, SkipOn, StepStatus
<1>3. /\ PutStep(j, st) /\ UNCHANGED <<idx, revoked, auto>>
      /\ pc'[j] = label /\ \A k \in Jobs \ {j} : pc'[k] = pc[k]
      /\ At(j)' = At(j)
  BY <1>2, GotoFacts DEF SaveStep, At
<1>4. /\ StepOf(db', At(j)) = st
      /\ \A s \in Steps \ {At(j)} : StepOf(db', s) = StepOf(db, s)
      /\ db'.serp = db.serp
      /\ db'.sr.pause = db.sr.pause /\ db'.sr.waiting = db.sr.waiting
      /\ db'.sr.serpOk = db.sr.serpOk /\ db'.sr.imagesOk = db.sr.imagesOk
      /\ db'.sr.testOk = db.sr.testOk
  BY <1>1, <1>3, PutStepWork
<1>5. pc[j] = "exec" => unreviewed = {} /\ db.sr.pause = "none"
  BY NothingDue
<1>6. Earned'
  <2>1. st = "failed" => db.sr.pause # "image_review"
    BY <1>2, <1>5
  <2>2. QED
    BY <1>1, <1>4, <2>1 DEF ReviewInv, Earned
<1>7. Held(j)'
  BY <1>1, <1>2, <1>3, <1>4, <1>5 DEF ReviewJob, Held, Outside
<1>8. Shown(j)'
  BY <1>1, <1>2, <1>3, <1>4, <1>5 DEF Shown
<1>9. PageFirst(j)'
  BY <1>1, <1>2, <1>3, <1>4 DEF ReviewJob, PageFirst, Outside
<1>10. At(j) \in Primary => ~db.sr.testOk
  BY <1>1 DEF ReviewInv, Earned, OnePrimary
<1>11. Guarded(j)'
  <2>1. \A reason \in unreviewed :
          /\ ~auto[j] /\ At(j) \in GateOf(reason) /\ reason # "test_mode"
          /\ db.sr.pause = reason /\ ~Approved(db.sr, reason)
    <3>1. CASE pc[j] = "exec"
      BY <1>5, <3>1
    <3>2. CASE pc[j] = "save"
      BY <1>1, <3>2 DEF ReviewJob, Guarded, AtGate, Waits, Outside
    <3>3. QED
      BY <1>1, <3>1, <3>2
  <2>2. \A reason \in unreviewed' :
          /\ ~auto[j] /\ At(j) \in GateOf(reason)
          /\ \/ reason # "test_mode" /\ db.sr.pause = reason /\ ~Approved(db.sr, reason)
             \/ reason = "test_mode" /\ pc'[j] = "after" /\ ~db.sr.testOk /\ TestMode
    BY <1>2, <1>3, <1>10, <2>1, GateFacts
  <2>3. QED
    BY <1>1, <1>2, <1>3, <1>4, <2>2 DEF Guarded, AtGate, Waits, Approved
<1>12. QED
  BY <1>1, <1>2, <1>3, <1>6, <1>7, <1>8, <1>9, <1>11, SoloReview DEF Live, ReviewJob

\* The stop after a step: the pause is in the row before the delivery ends.
LEMMA PauseReview ==
  ASSUME TypeInv, CarefulInv, ReviewInv, NEW j \in Jobs, PauseHere(j)
  PROVE  /\ ReviewInv'
         /\ db'.sr.pause \in Reasons /\ ~Approved(db'.sr, db'.sr.pause)
         /\ db'.sr.pause = "test_mode" => db'.sr.waiting
         /\ db'.sr.pause = "image_review" =>
              IMAGE_GEN \in Steps /\ StepOf(db', IMAGE_GEN) = "completed"
<1> USE RowFacts DEF TypeInv
<1>1. /\ pc[j] = "after" /\ ~auto[j] /\ Close(j, "done")
      /\ UNCHANGED <<revoked, auto, unreviewed>>
  BY DEF PauseHere
<1>2. PICK reason \in Reasons :
        /\ PauseDue(j, reason)
        /\ Commit(j, IF reason = "test_mode"
                     THEN [mem[j] EXCEPT !.status = "processing", !.sr.pause = reason,
                                         !.sr.waiting = TRUE]
                     ELSE mem[j])
  BY ZenonT(30) DEF PauseHere
<1>3. /\ Live(j) /\ ReviewJob(j) /\ SameWork(mem[j], db) /\ idx[j] <= Len(Plan)
      /\ At(j) \in Steps /\ mem[j].sr = db.sr
  BY <1>1, AtSteps DEF Live, Running, ReviewInv, CarefulInv, Copies, IndexOK, AtStep, SameWork
<1>4. /\ ~Live(j)' /\ \A k \in Jobs \ {j} : pc'[k] = pc[k]
  BY <1>1, CloseFacts DEF Live
<1>5. CASE reason # "test_mode"
  <2>1. Commit(j, mem[j])
    BY <1>2, <1>5
  <2>2. db'.sr = db.sr /\ db'.serp = db.serp
    BY <1>3, <2>1, CommitWork DEF SameWork
  <2>3. Earned'
    BY <2>2 DEF ReviewInv, Earned, StepOf
  <2>4. db.sr.pause = reason /\ ~Approved(db.sr, reason)
    BY <1>2, <1>3, <1>5 DEF PauseDue, Reasons
  <2>5. \A due \in unreviewed : due = reason
    <3>1. ASSUME NEW due \in unreviewed
          PROVE  due = reason
      <4>1. AtGate(j, due)
        BY <1>1, <1>3 DEF ReviewJob, Guarded, Outside
      <4>2. CASE due # "test_mode"
        BY <1>1, <2>4, <4>1, <4>2 DEF AtGate, Waits
      <4>3. CASE due = "test_mode"
        BY <1>2, <1>5, <4>1, <4>3, GateFacts DEF AtGate, PauseDue
      <4>4. QED
        BY <4>2, <4>3
    <3>2. QED
      BY <3>1
  <2>6. \A due \in unreviewed' : Waits(due)'
    BY <1>1, <2>2, <2>4, <2>5 DEF Waits
  <2>7. ReviewInv'
    BY <1>1, <1>3, <1>4, <2>3, <2>6, SoloReview
  <2>8. db.sr.pause = "image_review" => StepOf(db, IMAGE_GEN) = "completed" /\ IMAGE_GEN \in Steps
    BY <1>1, <1>2, <1>3, <2>4, GateFacts DEF ReviewJob, Held, Shown, Outside
  <2>9. QED
    BY <1>5, <2>2, <2>4, <2>7, <2>8 DEF Waits, StepOf
<1>6. CASE reason = "test_mode"
  <2> DEFINE sr == [mem[j].sr EXCEPT !.pause = "test_mode", !.waiting = TRUE]
             new == [mem[j] EXCEPT !.status = "processing", !.sr = sr]
  <2>1. At(j) \in Primary /\ TestMode /\ ~db.sr.testOk
    BY <1>2, <1>3, <1>6 DEF PauseDue, Approved
  <2>2. /\ sr \in StepResults /\ sr.step = db.sr.step /\ sr.pause = "test_mode" /\ sr.waiting
        /\ sr.serpOk = db.sr.serpOk /\ sr.imagesOk = db.sr.imagesOk
        /\ sr.testOk = db.sr.testOk
    BY <1>3 DEF Row, StepResults, Reasons
  <2>3. [mem[j] EXCEPT !.status = "processing", !.sr.pause = reason, !.sr.waiting = TRUE]
          = new
    BY <1>6 DEF Row
  <2>4. Commit(j, new)
    BY <1>2, <1>6, <2>3
  <2> HIDE DEF sr
  <2>5. new.sr = sr /\ new.serp = mem[j].serp
    BY DEF Row
  <2> HIDE DEF new
  <2>6. db'.sr = sr /\ db'.serp = db.serp
    BY <1>3, <2>4, <2>5, CommitWork DEF SameWork
  <2>7. StepOf(db, At(j)) = "completed"
    BY <1>1, <1>3, <2>1, GateFacts DEF ReviewJob, Shown
  <2>8. Earned'
    BY <1>3, <2>1, <2>2, <2>6, <2>7 DEF ReviewInv, Earned, StepOf
  <2>9. \A due \in unreviewed : due = "test_mode"
    <3>1. \A due \in unreviewed : At(j) \in GateOf(due) /\ due \in Reasons
      BY <1>1, <1>3 DEF ReviewJob, Guarded, AtGate, Outside, TypeOK
    <3>2. QED
      BY <2>1, <3>1, GateFacts DEF Reasons
  <2>10. \A due \in unreviewed' : Waits(due)'
    BY <1>1, <2>1, <2>2, <2>6, <2>9 DEF Waits, Approved
  <2>11. ReviewInv'
    BY <1>1, <1>3, <1>4, <2>8, <2>10, SoloReview
  <2>12. QED
    BY <2>1, <2>2, <2>6, <2>11 DEF Waits, Approved, Reasons
<1>7. QED
  BY <1>5, <1>6

\* The loop goes on: a page approves for itself, a single task has nothing due.
LEMMA ContinueReview ==
  ASSUME TypeInv, CarefulInv, ReviewInv, NEW j \in Jobs, Continue(j)
  PROVE  ReviewInv'
<1> USE RowFacts DEF TypeInv
<1> DEFINE due == {reason \in Reasons \ {"serp_review"} : PauseDue(j, reason)}
<1>1. /\ pc[j] = "after" /\ Goto(j, "phase") /\ UNCHANGED <<revoked, auto>>
      /\ auto[j] \/ \A reason \in Reasons : ~PauseDue(j, reason)
      /\ unreviewed' \subseteq unreviewed
  BY DEF Continue
<1>2. /\ Live(j) /\ ReviewJob(j) /\ SameWork(mem[j], db) /\ idx[j] <= Len(Plan)
      /\ At(j) \in Steps /\ mem[j].sr = db.sr /\ db.sr \in StepResults
  BY <1>1, AtSteps DEF Live, Running, ReviewInv, CarefulInv, Copies, IndexOK, AtStep, SameWork,
     Row
<1>3. pc'[j] = "phase" /\ \A k \in Jobs \ {j} : pc'[k] = pc[k]
  BY <1>1, GotoFacts
<1>4. unreviewed = {}
  <2> SUFFICES ASSUME NEW reason \in unreviewed PROVE FALSE
    OBVIOUS
  <2>1. ~auto[j] /\ AtGate(j, reason) /\ reason \in Reasons
    BY <1>1, <1>2 DEF ReviewJob, PageFirst, Guarded, Outside, TypeOK
  <2>2. PauseDue(j, reason)
    BY <1>1, <1>2, <2>1, GateFacts DEF AtGate, Waits, PauseDue, Approved, Reasons
  <2>3. QED
    BY <1>1, <2>1, <2>2
<1>5. db.sr.pause \in {"none", "image_review"} /\ ~db.sr.waiting
  <2>1. db.sr.pause # "test_mode" /\ ~db.sr.waiting
    BY <1>1, <1>2 DEF ReviewJob, Held, Outside, ReviewInv, Earned
  <2>2. db.sr.pause # "serp_review"
    <3>1. CASE auto[j]
      BY <1>2, <3>1 DEF ReviewJob, PageFirst
    <3>2. ASSUME ~auto[j], db.sr.pause = "serp_review"
          PROVE  FALSE
      <4>1. PauseDue(j, "serp_review")
        BY <1>1, <1>2, <3>2 DEF ReviewJob, Held, Outside, PauseDue, Approved
      <4>2. QED
        BY <1>1, <3>2, <4>1 DEF Reasons
    <3>3. QED
      BY <3>1, <3>2
  <2>3. QED
    BY <1>2, <2>1, <2>2 DEF StepResults, Reasons
<1>6. db.sr.pause = "image_review" => PauseDue(j, "image_review")
  BY <1>1, <1>2 DEF ReviewJob, Held, Outside, PauseDue, Approved
<1>7. /\ db'.sr.pause = "none" /\ ~db'.sr.waiting /\ Earned'
  <2>1. CASE due = {} /\ UNCHANGED <<db, mem>>
    <3>1. db.sr.pause = "none"
      BY <1>5, <1>6, <2>1 DEF Reasons
    <3>2. QED
      BY <1>5, <2>1, <3>1 DEF ReviewInv, Earned, StepOf
  <2>2. ASSUME NEW reason \in due,
               Flush(j, [mem[j] EXCEPT !.sr = AutoApprove(mem[j].sr, reason)])
        PROVE  /\ db'.sr.pause = "none" /\ ~db'.sr.waiting /\ Earned'
    <3> DEFINE sr == AutoApprove(mem[j].sr, reason)
               new == [mem[j] EXCEPT !.sr = sr]
    <3>1. /\ reason = "image_review" \/ reason = "test_mode"
          /\ PauseDue(j, reason)
      BY DEF Reasons
    <3>2. /\ sr \in StepResults /\ sr.step = db.sr.step /\ sr.pause = "none"
          /\ sr.serpOk = db.sr.serpOk /\ ~sr.waiting
          /\ reason = "image_review" => sr.imagesOk /\ sr.testOk = db.sr.testOk
          /\ reason = "test_mode" => sr.testOk /\ sr.imagesOk = db.sr.imagesOk
      BY <1>2, <1>5, <3>1 DEF AutoApprove, StepResults, Reasons
    <3> HIDE DEF sr
    <3>3. new \in Row /\ new.sr = sr /\ new.serp = mem[j].serp
      BY <3>2, ResultsType DEF Row
    <3>4. Flush(j, new)
      BY <2>2 DEF sr
    <3> HIDE DEF new
    <3>5. db'.sr = sr /\ db'.serp = db.serp
      BY <1>2, <3>3, <3>4, FlushWork DEF SameWork
    <3>6. /\ reason = "image_review" => At(j) = IMAGE_GEN /\ db.sr.pause = "image_review"
          /\ reason = "test_mode" => At(j) \in Primary
      BY <1>2, <3>1 DEF PauseDue
    <3>7. StepOf(db, At(j)) = "completed"
      BY <1>1, <1>2, <3>1, <3>6, GateFacts DEF ReviewJob, Shown
    <3>8. Earned'
      BY <1>2, <3>1, <3>2, <3>5, <3>6, <3>7 DEF ReviewInv, Earned, StepOf
    <3>9. QED
      BY <3>2, <3>5, <3>8
  <2>3. QED
    BY <2>1, <2>2 DEF Continue
<1>8. ReviewJob(j)'
  BY <1>1, <1>3, <1>4, <1>7 DEF ReviewJob, Held, Shown, PageFirst, Guarded, Outside
<1>9. QED
  BY <1>1, <1>2, <1>3, <1>7, <1>8, SoloReview DEF Live

\* A failure leaves a pause that nobody has approved in the row.
LEMMA FailReview ==
  ASSUME TypeInv, CarefulInv, ReviewInv, NEW j \in Jobs, Fail(j)
  PROVE  ReviewInv'
<1> USE RowFacts DEF TypeInv
<1>1. /\ pc[j] \in {"exec", "save", "fail", "final", "upsert"} /\ Close(j, "done")
      /\ UNCHANGED <<revoked, auto, unreviewed>>
      /\ db'.sr = db.sr /\ db'.serp = db.serp
  BY DEF Fail, FailRow, Row
<1>2. Live(j) /\ ReviewJob(j)
  BY <1>1 DEF Live, ReviewInv
<1>3. \A reason \in unreviewed : Waits(reason)
  BY <1>1, <1>2 DEF ReviewJob, Guarded, AtGate, Outside
<1>4. ~Live(j)' /\ \A k \in Jobs \ {j} : pc'[k] = pc[k]
  BY <1>1, CloseFacts DEF Live
<1>5. Earned'
  BY <1>1 DEF ReviewInv, Earned, StepOf
<1>6. \A reason \in unreviewed' : Waits(reason)'
  BY <1>1, <1>3 DEF Waits
<1>7. QED
  BY <1>1, <1>2, <1>4, <1>5, <1>6, SoloReview

LEMMA DeliveryReview ==
  ASSUME Attended, OnePrimary, TypeInv, CarefulInv, ReviewInv, NEW j \in Jobs,
         Work(j) \/ Disturb(j)
  PROVE  ReviewInv'
<1>1. ~KillRevoked(j) /\ ~DropRevoked(j)
  BY DEF ReviewInv, RevokedDone, KillRevoked, DropRevoked, Running
<1>2. ~Crash(j) /\ ~HardLimit(j) /\ ~DatabaseError(j)
  BY DEF Attended, Crash, HardLimit, DatabaseError, Fault
<1>3. CASE SkipCompleted(j) \/ StartStep(j)
  BY <1>3, BeginStepReview
<1>4. CASE EntryPaused(j) \/ EntryResume(j)
  BY <1>4, EntryReview
<1>5. CASE SerpFetch(j) \/ SerpPause(j) \/ MakeImages(j)
  BY <1>5, AskReview
<1>6. CASE ImageKeysMissing(j) \/ SaveResult(j) \/ SkipStep(j) \/ TimeOutStep(j)
  BY <1>6, ResultReview
<1>7. CASE PauseHere(j)
  BY <1>7, PauseReview
<1>8. CASE Continue(j)
  BY <1>8, ContinueReview
<1>9. CASE Fail(j)
  BY <1>9, FailReview
<1>10. CASE \/ Receive(j) \/ Begin(j) \/ RefreshStep(j) \/ Scrape(j) \/ PhaseEnd(j)
            \/ Assemble(j) \/ Upsert(j) \/ RetryStep(j) \/ TouchHeartbeat(j)
  BY <1>10, QuietReview
<1>11. QED
  BY <1>1, <1>2, <1>3, <1>4, <1>5, <1>6, <1>7, <1>8, <1>9, <1>10 DEF Work, Disturb

\* A handler that sends a task at rest back to work.
LEMMA RequeueReview ==
  ASSUME TypeInv, ReviewInv, Idle, NEW row \in Row, Requeue(row), Earned',
         \A reason \in unreviewed' : Waits(reason)'
  PROVE  ReviewInv'
<1>1. \/ UNCHANGED pc
      \/ revoked' = revoked /\ \E j \in Jobs : Queue(j)
  BY DEF Requeue, Enqueue
<1>2. revoked' = revoked
  BY DEF Requeue
<1>3. QED
  BY <1>1, <1>2, RestReview

\* At rest every review that is due has its pause, so there is one at most; and the
\* endpoint that ends it is the one its pause asks for.
LEMMA OperatorReview ==
  ASSUME Attended, TypeInv, JobInv, ReviewInv, Operator
  PROVE  ReviewInv'
<1> USE RowFacts DEF TypeInv
<1>1. Idle /\ "rerun" \notin Requests
  BY DEF Attended, Operator, StartNext, StartAll, Retry, ApproveTest, ApproveSerp,
     ApproveImages, ForceFail, ForceComplete, Rerun, Op
<1>2. \A reason \in unreviewed : Waits(reason)
  BY <1>1 DEF ReviewInv
<1>3. CASE StartNext \/ StartAll
  <2>1. /\ db' = db /\ UNCHANGED <<revoked, unreviewed>> /\ \E j \in Jobs : Queue(j)
    BY <1>3 DEF StartNext, StartAll, rowVars
  <2>2. Earned' /\ \A reason \in unreviewed' : Waits(reason)'
    BY <1>2, <2>1 DEF ReviewInv, Earned, StepOf, Waits
  <2>3. QED
    BY <1>1, <2>1, <2>2, RestReview
<1>4. CASE Retry
  <2>1. Requeue(db) /\ unreviewed' = unreviewed
    BY <1>4 DEF Retry
  <2>2. db'.sr = db.sr /\ db'.serp = db.serp
    BY <2>1 DEF Requeue, Row
  <2>3. Earned' /\ \A reason \in unreviewed' : Waits(reason)'
    BY <1>2, <2>1, <2>2 DEF ReviewInv, Earned, StepOf, Waits
  <2>4. QED
    BY <1>1, <2>1, <2>3, RequeueReview
<1>5. CASE ApproveTest
  <2> DEFINE row == [db EXCEPT !.sr.waiting = FALSE, !.sr.testOk = TRUE]
             sr == [db.sr EXCEPT !.waiting = FALSE, !.testOk = TRUE]
  <2>1. Requeue(row) /\ unreviewed' = unreviewed \ {"test_mode"} /\ db.sr.waiting
    BY <1>5 DEF ApproveTest
  <2>2. row = [db EXCEPT !.sr = sr]
    BY DEF Row
  <2>3. /\ sr \in StepResults /\ sr.step = db.sr.step /\ sr.testOk /\ ~sr.waiting
        /\ sr.serpOk = db.sr.serpOk /\ sr.imagesOk = db.sr.imagesOk
        /\ sr.pause = db.sr.pause
    BY DEF Row, StepResults
  <2> HIDE DEF sr
  <2>4. row \in Row /\ row.sr = sr /\ row.serp = db.serp
    BY <2>2, <2>3, ResultsType DEF Row
  <2> HIDE DEF row
  <2>5. db'.sr = sr /\ db'.serp = db.serp
    BY <2>1, <2>4 DEF Requeue, Row
  <2>6. Earned'
    BY <2>1, <2>3, <2>5 DEF ReviewInv, Earned, StepOf
  <2>7. unreviewed' = {}
    BY <1>2, <2>1 DEF Waits, ReviewInv, Earned
  <2>8. QED
    BY <1>1, <2>1, <2>4, <2>6, <2>7, RequeueReview
<1>6. CASE ApproveSerp
  <2> DEFINE row == [db EXCEPT !.serp = TRUE, !.sr.pause = "none", !.sr.serpOk = TRUE]
             sr == [db.sr EXCEPT !.pause = "none", !.serpOk = TRUE]
  <2>1. /\ Requeue(row) /\ unreviewed' = unreviewed \ {"serp_review"}
        /\ db.sr.pause = "serp_review"
    BY <1>6 DEF ApproveSerp
  <2>2. row = [db EXCEPT !.serp = TRUE, !.sr = sr]
    BY DEF Row
  <2>3. /\ sr \in StepResults /\ sr.step = db.sr.step /\ sr.serpOk /\ sr.pause = "none"
        /\ sr.testOk = db.sr.testOk /\ sr.imagesOk = db.sr.imagesOk
        /\ sr.waiting = db.sr.waiting
    BY DEF Row, StepResults
  <2> HIDE DEF sr
  <2>4. row \in Row /\ row.sr = sr /\ row.serp
    BY <2>2, <2>3 DEF Row
  <2> HIDE DEF row
  <2>5. db'.sr = sr /\ db'.serp
    BY <2>1, <2>4 DEF Requeue, Row
  <2>6. Earned'
    BY <2>1, <2>3, <2>5 DEF ReviewInv, Earned, StepOf
  <2>7. unreviewed' = {}
    BY <1>2, <2>1 DEF Waits
  <2>8. QED
    BY <1>1, <2>1, <2>4, <2>6, <2>7, RequeueReview
<1>7. CASE ApproveImages
  <2> DEFINE row == [db EXCEPT !.sr.pause = "none", !.sr.imagesOk = TRUE]
             sr == [db.sr EXCEPT !.pause = "none", !.imagesOk = TRUE]
  <2>1. /\ Requeue(row) /\ unreviewed' = unreviewed \ {"image_review"}
        /\ db.sr.pause = "image_review" /\ IMAGE_GEN \in Steps
        /\ StepOf(db, IMAGE_GEN) \in {"completed", "failed"}
    BY <1>7 DEF ApproveImages, Attended
  <2>2. row = [db EXCEPT !.sr = sr]
    BY DEF Row
  <2>3. /\ sr \in StepResults /\ sr.step = db.sr.step /\ sr.imagesOk /\ sr.pause = "none"
        /\ sr.testOk = db.sr.testOk /\ sr.serpOk = db.sr.serpOk
        /\ sr.waiting = db.sr.waiting
    BY DEF Row, StepResults
  <2> HIDE DEF sr
  <2>4. row \in Row /\ row.sr = sr /\ row.serp = db.serp
    BY <2>2, <2>3, ResultsType DEF Row
  <2> HIDE DEF row
  <2>5. db'.sr = sr /\ db'.serp = db.serp
    BY <2>1, <2>4 DEF Requeue, Row
  <2>6. Earned'
    BY <2>1, <2>3, <2>5 DEF ReviewInv, Earned, StepOf
  <2>7. unreviewed' = {}
    BY <1>2, <2>1 DEF Waits
  <2>8. QED
    BY <1>1, <2>1, <2>4, <2>6, <2>7, RequeueReview
<1>8. CASE ForceFail \/ ForceComplete
  <2>1. db'.sr = db.sr /\ db'.serp = db.serp /\ UNCHANGED <<pc, unreviewed>>
    BY <1>8 DEF ForceFail, ForceComplete, Row
  <2>2. revoked' \subseteq revoked \cup ({celeryId} \ {None})
    BY <1>8 DEF ForceFail, ForceComplete
  <2>3. celeryId \in Jobs => pc[celeryId] = "done"
    BY <1>1 DEF JobInv, SentIds, Idle, Live
  <2>4. \A j \in revoked' : j \in revoked \/ pc[j] = "done"
    BY <2>2, <2>3 DEF TypeOK
  <2>5. Earned' /\ \A reason \in unreviewed' : Waits(reason)'
    BY <1>2, <2>1 DEF ReviewInv, Earned, StepOf, Waits
  <2>6. QED
    BY <1>1, <2>1, <2>4, <2>5, RestReview
<1>9. QED
  BY <1>1, <1>3, <1>4, <1>5, <1>6, <1>7, <1>8 DEF Operator, Rerun, Op

LEMMA ReviewInit == Init => ReviewInv
<1> SUFFICES ASSUME Init PROVE ReviewInv
  OBVIOUS
<1>1. Earned /\ RevokedDone
  BY DEF Init, Earned, RevokedDone, NewRow, NewResults
<1>2. \A j \in Jobs : pc[j] \in {"unused", "queued"}
  BY DEF Init
<1>3. unreviewed = {} /\ db.sr.pause = "none" /\ ~db.sr.waiting
  BY DEF Init, NewRow, NewResults
<1>4. \A j \in Jobs : ReviewJob(j)
  BY <1>2, <1>3 DEF ReviewJob, Held, Shown, PageFirst, Guarded, Outside
<1>5. QED
  BY <1>1, <1>3, <1>4 DEF ReviewInv

\* Without beat nothing is ever half cleaned up.
NoBeat == beat.kind = "idle"

LEMMA NoBeatNext ==
  ASSUME Attended
  PROVE  TypeInv /\ NoBeat /\ [Next]_vars => NoBeat' /\ ~Beat
<1> SUFFICES ASSUME TypeInv, NoBeat, [Next]_vars PROVE NoBeat' /\ ~Beat
  OBVIOUS
<1>1. ~Beat
  BY DEF Attended, NoBeat, Beat, Tick, BeatScan, BeatCommit
<1>2. ASSUME NEW j \in Jobs, Work(j) \/ Disturb(j)
      PROVE  beat' = beat
  <2>1. CASE Upsert(j)
    BY <2>1 DEF Upsert
  <2>2. CASE ~Upsert(j)
    BY <1>2, <2>2, WorkKeeps, DisturbKeeps DEF Keeps
  <2>3. QED
    BY <2>1, <2>2
<1>3. ASSUME Operator
      PROVE  beat' = beat
  <2>1. CASE SendsBack
    BY <2>1, RequeuedRow DEF Requeue
  <2>2. CASE StartNext \/ StartAll \/ ForceFail \/ ForceComplete
    BY <2>2 DEF StartNext, StartAll, ForceFail, ForceComplete
  <2>3. QED
    BY <1>3, <2>1, <2>2 DEF Operator, SendsBack
<1>4. QED
  BY <1>1, <1>2, <1>3 DEF Next, NoBeat, vars

LEMMA ReviewNext ==
  ASSUME Attended, OnePrimary
  PROVE  TypeInv /\ JobInv /\ CarefulInv /\ NoBeat /\ ReviewInv /\ [Next]_vars => ReviewInv'
<1> SUFFICES ASSUME TypeInv, JobInv, CarefulInv, NoBeat, ReviewInv, [Next]_vars
             PROVE  ReviewInv'
  OBVIOUS
<1>1. CASE UNCHANGED vars
  BY <1>1 DEF vars, ReviewInv, Earned, RevokedDone, Live, ReviewJob, Held, Shown, PageFirst,
     Guarded, AtGate, Waits, Idle, StepOf, At
<1>2. ASSUME NEW j \in Jobs, Work(j) \/ Disturb(j)
      PROVE  ReviewInv'
  BY <1>2, DeliveryReview
<1>3. ~Beat
  BY NoBeatNext
<1>4. QED
  BY <1>1, <1>2, <1>3, OperatorReview DEF Next

\* The gates of runner.py, serp_step.py and image_gen_step.py hold: no single-task
\* delivery works on a step behind output that waits for an operator, whatever fails,
\* times out, is retried or forced, as long as no worker is killed, the database
\* answers, nothing is rerun and the task page is used as it offers.
THEOREM ReviewsHold ==
  ASSUME Attended, OnePrimary
  PROVE  Spec => []ReviewRespected
<1>1. TypeInv /\ CarefulInv /\ ReviewInv => ReviewRespected
  <2> SUFFICES ASSUME TypeInv, CarefulInv, ReviewInv,
                      NEW j \in Jobs, InStep(j), ~auto[j],
                      NEW reason \in unreviewed, NEW i \in 1..(idx[j] - 1),
                      Plan[i] \in GateOf(reason)
               PROVE  FALSE
    BY DEF ReviewRespected
  <2>1. AtGate(j, reason) /\ pc[j] # "after"
    BY DEF ReviewInv, ReviewJob, Guarded, InStep, Live, Outside
  <2>2. reason \in {"serp_review", "image_review"}
    BY <2>1 DEF AtGate, TypeInv, TypeOK, Reasons
  <2>3. Plan[i] = Plan[idx[j]]
    BY <2>1, <2>2, GateFacts DEF AtGate, At
  <2>4. idx[j] \in 1..Len(Plan) /\ i \in 1..Len(Plan) /\ i # idx[j]
    BY <2>1, PlanType DEF AtGate, TypeInv, TypeOK
  <2>5. QED
    BY <2>3, <2>4, PlanAssumption
<1>2. Careful
  BY DEF Attended
<1>3. TypeInv /\ CarefulInv /\ [Next]_vars => CarefulInv'
  BY <1>2, CarefulNext
<1>4. TypeInv /\ NoBeat /\ [Next]_vars => NoBeat'
  BY NoBeatNext
<1>5. Init => NoBeat
  BY DEF Init, NoBeat
<1>6. QED
  BY <1>1, <1>3, <1>4, <1>5, TypeInit, TypeNext, JobInit, JobNext, CarefulInit, ReviewInit,
     ReviewNext, PTL DEF Spec

-----------------------------------------------------------------------------
(* Tasks at rest.  Without retries a delivery is never sent into a pause: a   *)
(* retry is what meets the image pause of a step that timed out after it.     *)

Unretried == Attended /\ OnePrimary /\ "retry" \notin Requests

\* Nothing turns a delivery away at its entry.
Free == db.sr.pause = "none" \/ Approved(db.sr, db.sr.pause)

RestJob(j) ==
  /\ Running(j) => mem[j].status = db.status
  /\ pc[j] \in Outside => Free
  /\ pc[j] \notin {"queued", "begin"} => db.status # "pending"

\* A project page that no operator has touched waits for nobody.
PageLeft == /\ \E j \in Jobs : auto[j]
            /\ \A j \in Jobs : pc[j] # "unused" => auto[j]
PageRest ==
  PageLeft => /\ ~db.sr.waiting /\ db.sr.pause # "serp_review"
              /\ Idle => /\ db.status \in {"completed", "failed"}
                         /\ db.sr.pause = "image_review" =>
                              StepOf(db, IMAGE_GEN) \notin {"completed", "failed"}

RestInv ==
  /\ \A j \in Jobs : Live(j) => RestJob(j)
  /\ Idle /\ db.status = "pending" => Free
  /\ QuietMeansReview
  /\ PageRest

\* A commit of a copy with the row's status writes the session's status.
LEMMA CommitSame ==
  ASSUME NEW j \in Jobs, NEW new, mem[j].status = db.status, Commit(j, new)
  PROVE  db'.status = new.status
BY DEF Commit, Written

LEMMA FlushSame ==
  ASSUME TypeInv, NEW j \in Jobs, NEW new \in Row, mem[j].status = db.status, Flush(j, new)
  PROVE  db'.status = new.status /\ mem'[j].status = new.status
BY CommitSame DEF Flush, TypeInv, TypeOK

\* The one live delivery goes on, ...
LEMMA GoesOn ==
  ASSUME TypeInv, CarefulInv, RestInv, ReviewInv', NEW j \in Jobs, Live(j),
         \A k \in Jobs \ {j} : pc'[k] = pc[k], auto' = auto,
         Live(j)', RestJob(j)'
  PROVE  RestInv'
<1>1. \A k \in Jobs \ {j} : ~Live(k)'
  BY DEF CarefulInv, OneLive, Live
<1>2. ~Idle'
  BY DEF Idle
<1>3. PageRest'
  <2>1. PageLeft' => auto'[j]
    BY DEF PageLeft, Live
  <2>2. auto'[j] => ~db'.sr.waiting /\ db'.sr.pause # "serp_review"
    BY DEF ReviewInv, ReviewJob, PageFirst
  <2>3. QED
    BY <1>2, <2>1, <2>2 DEF PageRest
<1>4. QED
  BY <1>1, <1>2, <1>3 DEF RestInv, QuietMeansReview

\* ... or ends.
LEMMA Ends ==
  ASSUME TypeInv, CarefulInv, RestInv, NEW j \in Jobs, Live(j),
         \A k \in Jobs \ {j} : pc'[k] = pc[k], auto' = auto, pc'[j] = "done",
         db'.status # "pending",
         db'.status \in {"processing", "paused"} => Reviewable',
         auto[j] => /\ ~db'.sr.waiting /\ db'.sr.pause # "serp_review"
                    /\ db'.status \in {"completed", "failed"}
                    /\ db'.sr.pause = "image_review" =>
                         StepOf(db', IMAGE_GEN) \notin {"completed", "failed"}
  PROVE  RestInv'
<1>1. \A k \in Jobs : ~Live(k)'
  BY DEF CarefulInv, OneLive, Live
<1>2. PageLeft' => auto[j]
  BY DEF PageLeft
<1>3. QED
  BY <1>1, <1>2 DEF RestInv, QuietMeansReview, PageRest

LEMMA PauseHereFacts ==
  ASSUME NEW j \in Jobs, PauseHere(j)
  PROVE  pc[j] = "after" /\ ~auto[j] /\ Close(j, "done") /\ auto' = auto
BY ZenonT(30) DEF PauseHere

\* What ends a delivery leaves a review, an article or a failure behind.
LEMMA EndRest ==
  ASSUME TypeInv, CarefulInv, ReviewInv, RestInv, NEW j \in Jobs,
         PauseHere(j) \/ Upsert(j) \/ Fail(j)
  PROVE  RestInv'
<1> USE RowFacts DEF TypeInv
<1>1. /\ Live(j) /\ Running(j) /\ pc'[j] = "done" /\ \A k \in Jobs \ {j} : pc'[k] = pc[k]
      /\ auto' = auto /\ ReviewJob(j) /\ RestJob(j) /\ SameWork(mem[j], db)
      /\ mem[j].status = db.status /\ db.status # "pending"
  <2>1. /\ pc[j] \in {"after", "upsert", "exec", "save", "fail", "final"}
        /\ Close(j, "done") /\ auto' = auto
    <3>1. CASE PauseHere(j)
      BY <3>1, PauseHereFacts
    <3>2. CASE Upsert(j)
      BY <3>2, Zenon DEF Upsert
    <3>3. CASE Fail(j)
      BY <3>3, Zenon DEF Fail, FailRow
    <3>4. QED
      BY <3>1, <3>2, <3>3
  <2>2. Live(j) /\ Running(j)
    BY <2>1 DEF Live, Running
  <2>3. QED
    BY <2>1, <2>2, CloseFacts DEF ReviewInv, RestInv, RestJob, CarefulInv, Copies
<1>2. CASE PauseHere(j)
  <2>1. /\ db'.sr.pause \in Reasons
        /\ db'.sr.pause = "test_mode" => db'.sr.waiting
        /\ db'.sr.pause = "image_review" =>
             IMAGE_GEN \in Steps /\ StepOf(db', IMAGE_GEN) = "completed"
    BY <1>2, PauseReview
  <2>2. Reviewable'
    BY <2>1 DEF Reviewable, Reasons
  <2>3. ~auto[j]
    BY <1>2, PauseHereFacts
  <2>4. db'.status # "pending"
    <3>1. Work(j) /\ ~Upsert(j)
      <4>1. ~Upsert(j)
        BY <1>2, PauseHereFacts DEF Upsert
      <4>2. QED
        BY <1>2, <4>1 DEF Work
    <3>2. QED
      BY <1>1, <3>1, WorkKeeps DEF Keeps
  <2>5. QED
    BY <1>1, <2>2, <2>3, <2>4, Ends
<1>3. CASE Upsert(j)
  <2> DEFINE new == [mem[j] EXCEPT !.status = "completed"]
  <2>1. Commit(j, new) /\ pc[j] = "upsert"
    BY <1>3 DEF Upsert
  <2>2. new.status = "completed" /\ new.sr = mem[j].sr
    BY DEF Row
  <2> HIDE DEF new
  <2>3. db'.status = "completed" /\ db'.sr = db.sr
    BY <1>1, <2>1, <2>2, CommitSame, CommitWork DEF SameWork
  <2>4. db.sr.pause = "none" /\ ~db.sr.waiting
    BY <2>1, NothingDue
  <2>5. QED
    BY <1>1, <2>3, <2>4, Ends
<1>4. CASE Fail(j)
  <2>1. db'.status = "failed" /\ db'.sr = db.sr
    BY <1>4 DEF Fail, FailRow, Row
  <2>2. auto[j] => ~db.sr.waiting /\ db.sr.pause # "serp_review"
    BY <1>1 DEF ReviewJob, PageFirst
  <2>3. db.sr.pause = "image_review" => StepOf(db, IMAGE_GEN) \notin {"completed", "failed"}
    <3>1. pc[j] \in {"exec", "save", "fail", "final", "upsert"}
      BY <1>4 DEF Fail
    <3>2. CASE pc[j] = "save"
      BY <1>1, <3>2, GateFacts DEF ReviewJob, Held, Outside, CarefulInv, StepShown, InStep
    <3>3. CASE pc[j] = "fail"
      BY <1>1, <3>3, GateFacts DEF ReviewJob, Held, Shown, Outside
    <3>4. CASE pc[j] \in {"exec", "final", "upsert"}
      BY <3>4, NothingDue
    <3>5. QED
      BY <3>1, <3>2, <3>3, <3>4
  <2>4. QED
    BY <1>1, <2>1, <2>2, <2>3, Ends DEF StepOf
<1>5. QED
  BY <1>2, <1>3, <1>4

\* Whoever is inside and writes a status other than "pending" goes on.
LEMMA InsideRest ==
  ASSUME TypeInv, CarefulInv, RestInv, ReviewInv', NEW j \in Jobs, Live(j),
         \A k \in Jobs \ {j} : pc'[k] = pc[k], auto' = auto,
         pc'[j] \notin Outside, mem'[j].status = db'.status, db'.status # "pending"
  PROVE  RestInv'
<1>1. Live(j)' /\ RestJob(j)'
  BY DEF Live, RestJob, Outside
<1>2. QED
  BY <1>1, GoesOn

\* The steps that leave the statuses of row and copy as they are.
LEMMA SameStatusRest ==
  ASSUME TypeInv, CarefulInv, RestInv, ReviewInv', NEW j \in Jobs, Running(j),
         pc[j] # "begin",
         \A k \in Jobs \ {j} : pc'[k] = pc[k], auto' = auto, pc'[j] \notin Outside,
         db'.status = db.status, mem'[j].status \in {mem[j].status, db.status}
  PROVE  RestInv'
<1>1. Live(j) /\ mem[j].status = db.status /\ db.status # "pending"
  BY DEF RestInv, RestJob, Live, Running
<1>2. QED
  BY <1>1, InsideRest

LEMMA StepRest ==
  ASSUME TypeInv, CarefulInv, RestInv, ReviewInv', NEW j \in Jobs,
         \/ StartStep(j)
         \/ ImageKeysMissing(j) \/ SaveResult(j) \/ SkipStep(j) \/ TimeOutStep(j)
  PROVE  RestInv'
<1> USE RowFacts DEF TypeInv
<1>1. PICK st \in StepStatus, label \in {"refresh", "exec", "after", "fail"} :
        PutStep(j, st) /\ Goto(j, label)
  BY DEF StartStep, ImageKeysMissing, SaveResult, SkipStep, TimeOutStep, SaveStep, StepStatus
<1>2. Running(j) /\ pc[j] # "begin" /\ auto' = auto
  BY DEF StartStep, ImageKeysMissing, SaveResult, SkipStep, TimeOutStep, SaveStep, Running
<1>3. db'.status = db.status /\ mem'[j].status = mem[j].status
  <2> DEFINE new == WithStep(mem[j], At(j), st)
  <2>1. new.status = mem[j].status
    BY WithStepType
  <2>2. /\ db' = [Written(mem[j], new) EXCEPT !.sr = new.sr]
        /\ mem' = [mem EXCEPT ![j] = new]
    BY <1>1 DEF PutStep
  <2> HIDE DEF new
  <2>3. QED
    BY <2>1, <2>2 DEF Written
<1>4. pc'[j] \notin Outside /\ \A k \in Jobs \ {j} : pc'[k] = pc[k]
  BY <1>1, GotoFacts DEF Outside
<1>5. QED
  BY <1>2, <1>3, <1>4, SameStatusRest

\* The steps that write through a session.
LEMMA FlushRest ==
  ASSUME TypeInv, CarefulInv, RestInv, ReviewInv', NEW j \in Jobs, Running(j),
         pc[j] # "begin", NEW new \in Row, Flush(j, new),
         new.status \in {mem[j].status, "paused", "processing"},
         NEW label, Goto(j, label), label \notin Outside, auto' = auto
  PROVE  RestInv'
<1>1. Live(j) /\ mem[j].status = db.status /\ db.status # "pending"
  BY DEF RestInv, RestJob, Live, Running
<1>2. db'.status = new.status /\ mem'[j].status = new.status
  BY <1>1, FlushSame
<1>3. pc'[j] \notin Outside /\ \A k \in Jobs \ {j} : pc'[k] = pc[k]
  BY GotoFacts
<1>4. QED
  BY <1>1, <1>2, <1>3, InsideRest

LEMMA WriteRest ==
  ASSUME TypeInv, CarefulInv, RestInv, ReviewInv', NEW j \in Jobs,
         EntryResume(j) \/ SerpFetch(j) \/ SerpPause(j) \/ Scrape(j) \/ MakeImages(j)
  PROVE  RestInv'
<1> USE RowFacts DEF TypeInv
<1>1. mem[j].sr \in StepResults
  BY DEF Row
<1>2. CASE EntryResume(j)
  <2> DEFINE sr == mem[j].sr
             cleared == IF sr.pause = "none" THEN sr
                        ELSE IF Approved(sr, sr.pause) THEN [sr EXCEPT !.pause = "none"]
                        ELSE AutoApprove(sr, sr.pause)
             whole == [cleared EXCEPT !.plan = TRUE]
             new == [mem[j] EXCEPT !.sr = whole]
  <2>1. whole \in StepResults
    <3>1. cleared \in StepResults
      BY <1>1, AutoApproveType DEF StepResults
    <3> HIDE DEF cleared
    <3>2. QED
      BY <3>1 DEF StepResults
  <2>2. Flush(j, new) /\ Running(j) /\ pc[j] # "begin" /\ Goto(j, "phase") /\ auto' = auto
    BY <1>2 DEF EntryResume, Running
  <2> HIDE DEF whole
  <2>3. new \in Row /\ new.status = mem[j].status
    BY <2>1, ResultsType
  <2> HIDE DEF new
  <2>4. QED
    BY <2>2, <2>3, FlushRest DEF Outside
<1>3. CASE SerpFetch(j)
  <2> DEFINE new == [mem[j] EXCEPT !.serp = TRUE]
  <2>1. Flush(j, new) /\ Running(j) /\ pc[j] # "begin" /\ auto' = auto
    BY <1>3 DEF SerpFetch, Running
  <2>2. PICK label \in {"save", "fetched"} : Goto(j, label)
    BY <1>3 DEF SerpFetch
  <2>3. new \in Row /\ new.status = mem[j].status
    BY DEF Row
  <2> HIDE DEF new
  <2>4. QED
    BY <2>1, <2>2, <2>3, FlushRest DEF Outside
<1>4. CASE SerpPause(j)
  <2> DEFINE sr == [mem[j].sr EXCEPT !.pause = "serp_review"]
             new == [mem[j] EXCEPT !.status = "paused", !.sr = sr]
  <2>1. sr \in StepResults
    BY <1>1 DEF StepResults, Reasons
  <2>2. new = [mem[j] EXCEPT !.status = "paused", !.sr.pause = "serp_review"]
    BY DEF Row
  <2>3. Flush(j, new) /\ Running(j) /\ pc[j] # "begin" /\ Goto(j, "save") /\ auto' = auto
    BY <1>4, <2>2 DEF SerpPause, Running
  <2> HIDE DEF sr
  <2>4. new \in Row /\ new.status = "paused"
    BY <2>1 DEF Row, TaskStatus
  <2> HIDE DEF new
  <2>5. QED
    BY <2>3, <2>4, FlushRest DEF Outside
<1>5. CASE Scrape(j)
  <2> DEFINE new == [mem[j] EXCEPT !.text = TRUE]
  <2>1. Flush(j, new) /\ Running(j) /\ pc[j] # "begin" /\ Goto(j, "save") /\ auto' = auto
    BY <1>5 DEF Scrape, Running
  <2>2. new \in Row /\ new.status = mem[j].status
    BY DEF Row
  <2> HIDE DEF new
  <2>3. QED
    BY <2>1, <2>2, FlushRest DEF Outside
<1>6. CASE MakeImages(j)
  <2> DEFINE sr == [mem[j].sr EXCEPT !.pause = "image_review"]
             new == [mem[j] EXCEPT !.status = "processing", !.sr = sr]
  <2>1. sr \in StepResults
    BY <1>1 DEF StepResults, Reasons
  <2>2. new = [mem[j] EXCEPT !.status = "processing", !.sr.pause = "image_review"]
    BY DEF Row
  <2>3. Flush(j, new) /\ Running(j) /\ pc[j] # "begin" /\ Goto(j, "save") /\ auto' = auto
    BY <1>6, <2>2 DEF MakeImages, Running
  <2> HIDE DEF sr
  <2>4. new \in Row /\ new.status = "processing"
    BY <2>1 DEF Row, TaskStatus
  <2> HIDE DEF new
  <2>5. QED
    BY <2>3, <2>4, FlushRest DEF Outside
<1>7. QED
  BY <1>2, <1>3, <1>4, <1>5, <1>6

LEMMA MoveRest ==
  ASSUME TypeInv, CarefulInv, RestInv, ReviewInv', NEW j \in Jobs,
         \/ SkipCompleted(j) \/ RefreshStep(j) \/ PhaseEnd(j) \/ Assemble(j)
         \/ RetryStep(j) \/ TouchHeartbeat(j) \/ Continue(j)
  PROVE  RestInv'
<1> USE RowFacts DEF TypeInv
<1>1. CASE SkipCompleted(j) \/ PhaseEnd(j) \/ Assemble(j)
  <2>1. PICK label \in {"after", "final", "upsert"} : Goto(j, label)
    BY <1>1 DEF SkipCompleted, PhaseEnd, Assemble
  <2>2. Running(j) /\ pc[j] # "begin" /\ UNCHANGED <<db, mem, auto>>
    BY <1>1 DEF SkipCompleted, PhaseEnd, Assemble, Running
  <2>3. QED
    BY <2>1, <2>2, GotoFacts, SameStatusRest DEF Outside
<1>2. CASE RefreshStep(j) \/ RetryStep(j)
  <2>1. /\ Running(j) /\ pc[j] # "begin" /\ Goto(j, "exec") /\ UNCHANGED <<db, auto>>
        /\ mem'[j] = db
    BY <1>2 DEF RefreshStep, RetryStep, Running, Reload
  <2>2. QED
    BY <2>1, GotoFacts, SameStatusRest DEF Outside
<1>3. CASE TouchHeartbeat(j)
  <2>1. Running(j) /\ pc[j] = "exec" /\ UNCHANGED <<db, mem, auto, pc>>
    BY <1>3 DEF TouchHeartbeat, Running
  <2>2. QED
    BY <2>1, SameStatusRest DEF Outside
<1>4. CASE Continue(j)
  <2>1. Running(j) /\ pc[j] # "begin" /\ Goto(j, "phase") /\ auto' = auto
    BY <1>4 DEF Continue, Running
  <2>2. CASE UNCHANGED <<db, mem>>
    BY <2>1, <2>2, GotoFacts, SameStatusRest DEF Outside
  <2>3. ASSUME NEW reason, Flush(j, [mem[j] EXCEPT !.sr = AutoApprove(mem[j].sr, reason)])
        PROVE  RestInv'
    <3> DEFINE new == [mem[j] EXCEPT !.sr = AutoApprove(mem[j].sr, reason)]
    <3>1. AutoApprove(mem[j].sr, reason) \in StepResults
      BY AutoApproveType DEF Row
    <3>2. new \in Row /\ new.status = mem[j].status /\ Flush(j, new)
      BY <2>3, <3>1, ResultsType
    <3> HIDE DEF new
    <3>3. QED
      BY <2>1, <3>2, FlushRest DEF Outside
  <2>4. QED
    BY <1>4, <2>2, <2>3 DEF Continue
<1>5. QED
  BY <1>1, <1>2, <1>3, <1>4

\* A message that was sent meets no pause.
LEMMA ArriveRest ==
  ASSUME TypeInv, CarefulInv, ReviewInv, RestInv, ReviewInv', NEW j \in Jobs,
         Receive(j) \/ Begin(j) \/ EntryPaused(j)
  PROVE  RestInv'
<1> USE RowFacts DEF TypeInv
<1>1. Live(j) /\ pc[j] \in {"queued", "begin", "entry"} /\ RestJob(j) /\ Free
  BY DEF Receive, Begin, EntryPaused, Live, RestInv, RestJob, Outside
<1>2. ~EntryPaused(j)
  <2>1. CASE pc[j] = "entry"
    <3>1. SameWork(mem[j], db)
      BY <2>1 DEF CarefulInv, Copies, Running
    <3>2. QED
      BY <1>1, <3>1 DEF EntryPaused, Free, SameWork
  <2>2. CASE pc[j] # "entry"
    BY <2>2 DEF EntryPaused
  <2>3. QED
    BY <2>1, <2>2
<1>3. CASE Receive(j)
  <2>1. Goto(j, "begin") /\ UNCHANGED <<db, auto>> /\ mem'[j] = db
    BY <1>3 DEF Receive, Reload
  <2>2. RestJob(j)' /\ Live(j)'
    BY <1>1, <2>1, GotoFacts DEF RestJob, Free, Live
  <2>3. QED
    BY <1>1, <2>1, <2>2, GotoFacts, GoesOn
<1>4. CASE Begin(j)
  <2> DEFINE new == [mem[j] EXCEPT !.status = "processing"]
  <2>1. Flush(j, new) /\ Goto(j, "entry") /\ auto' = auto /\ Running(j)
    BY <1>4 DEF Begin, Running
  <2>2. new \in Row /\ new.status = "processing" /\ new.sr = mem[j].sr
    <3>1. new \in Row
      BY StatusType DEF TaskStatus
    <3>2. QED
      BY <3>1 DEF Row
  <2> HIDE DEF new
  <2>3. mem[j].status = db.status /\ SameWork(mem[j], db)
    BY <1>1, <2>1 DEF RestJob, CarefulInv, Copies
  <2>4. db'.status = "processing" /\ mem'[j].status = "processing"
    BY <2>1, <2>2, <2>3, FlushSame
  <2>5. db'.sr = db.sr
    BY <2>1, <2>2, <2>3, FlushWork DEF SameWork
  <2>6. RestJob(j)' /\ Live(j)'
    BY <1>1, <2>1, <2>4, <2>5, GotoFacts DEF RestJob, Free, Live
  <2>7. QED
    BY <1>1, <2>1, <2>6, GotoFacts, GoesOn
<1>5. QED
  BY <1>2, <1>3, <1>4

LEMMA DeliveryRest ==
  ASSUME Attended, TypeInv, CarefulInv, ReviewInv, RestInv, ReviewInv', NEW j \in Jobs,
         Work(j) \/ Disturb(j)
  PROVE  RestInv'
<1>1. ~KillRevoked(j) /\ ~DropRevoked(j)
  BY DEF ReviewInv, RevokedDone, KillRevoked, DropRevoked, Running
<1>2. ~Crash(j) /\ ~HardLimit(j) /\ ~DatabaseError(j)
  BY DEF Attended, Crash, HardLimit, DatabaseError, Fault
<1>3. CASE PauseHere(j) \/ Upsert(j) \/ Fail(j)
  BY <1>3, EndRest
<1>4. CASE \/ StartStep(j)
           \/ ImageKeysMissing(j) \/ SaveResult(j) \/ SkipStep(j) \/ TimeOutStep(j)
  BY <1>4, StepRest
<1>5. CASE EntryResume(j) \/ SerpFetch(j) \/ SerpPause(j) \/ Scrape(j) \/ MakeImages(j)
  BY <1>5, WriteRest
<1>6. CASE \/ SkipCompleted(j) \/ RefreshStep(j) \/ PhaseEnd(j) \/ Assemble(j)
           \/ RetryStep(j) \/ TouchHeartbeat(j) \/ Continue(j)
  BY <1>6, MoveRest
<1>7. CASE Receive(j) \/ Begin(j) \/ EntryPaused(j)
  BY <1>7, ArriveRest
<1>8. QED
  BY <1>1, <1>2, <1>3, <1>4, <1>5, <1>6, <1>7 DEF Work, Disturb

\* A task at rest that is sent a message.
LEMMA SentRest ==
  ASSUME TypeInv, Idle, NEW j \in Jobs, Queue(j), Free'
  PROVE  RestInv'
<1>1. /\ pc' = [pc EXCEPT ![j] = "queued"] /\ auto' = [auto EXCEPT ![j] = FALSE]
  BY DEF Queue, Goto
<1>2. pc'[j] = "queued" /\ ~auto'[j] /\ \A k \in Jobs \ {j} : ~Live(k)'
  BY <1>1 DEF Idle, Live, TypeInv, TypeOK
<1>3. RestJob(j)' /\ Live(j)'
  BY <1>2 DEF RestJob, Running, Live
<1>4. ~PageLeft'
  BY <1>2 DEF PageLeft
<1>5. QED
  BY <1>2, <1>3, <1>4 DEF RestInv, QuietMeansReview, PageRest, Idle

\* An approval of a task at rest.  The broker may refuse the message.
LEMMA ApproveRest ==
  ASSUME TypeInv, RestInv, Idle, NEW row \in Row, Requeue(row),
         row.sr.pause = "none" \/ Approved(row.sr, row.sr.pause),
         \/ db.sr.waiting
         \/ db.sr.pause = "serp_review"
         \/ db.sr.pause = "image_review" /\ StepOf(db, IMAGE_GEN) \in {"completed", "failed"}
  PROVE  RestInv'
<1>1. db'.sr = row.sr /\ db'.status = "pending"
  BY DEF Requeue, Row
<1>2. Free'
  BY <1>1 DEF Free
<1>3. CASE \E j \in Jobs : Queue(j)
  BY <1>2, <1>3, SentRest
<1>4. CASE UNCHANGED <<pc, auto>>
  <2>1. \A j \in Jobs : ~Live(j)'
    BY <1>4 DEF Idle, Live
  <2>2. ~PageLeft
    BY DEF RestInv, PageRest
  <2>3. ~PageLeft'
    BY <1>4, <2>2 DEF PageLeft
  <2>4. QED
    BY <1>1, <1>2, <2>1, <2>3 DEF RestInv, QuietMeansReview, PageRest
<1>5. QED
  BY <1>3, <1>4 DEF Requeue, Enqueue

LEMMA OperatorRest ==
  ASSUME Unretried, TypeInv, ReviewInv, RestInv, Operator
  PROVE  RestInv'
<1> USE RowFacts DEF TypeInv
<1>1. Idle /\ "rerun" \notin Requests /\ "retry" \notin Requests /\ Careful
  BY DEF Unretried, Attended, Operator, StartNext, StartAll, Retry, ApproveTest, ApproveSerp,
     ApproveImages, ForceFail, ForceComplete, Rerun, Op
<1>2. CASE StartNext \/ StartAll
  <2>1. db' = db /\ db.status = "pending" /\ \E j \in Jobs : Queue(j)
    BY <1>2 DEF StartNext, StartAll, rowVars
  <2>2. Free'
    BY <1>1, <2>1 DEF RestInv, Free
  <2>3. QED
    BY <1>1, <2>1, <2>2, SentRest
<1>3. CASE ApproveTest
  <2> DEFINE row == [db EXCEPT !.sr.waiting = FALSE, !.sr.testOk = TRUE]
  <2>1. Requeue(row) /\ db.sr.waiting
    BY <1>3 DEF ApproveTest
  <2>2. db.sr.pause = "test_mode"
    BY <2>1 DEF ReviewInv, Earned
  <2>3. row \in Row /\ row.sr.pause = "test_mode" /\ row.sr.testOk
    BY <2>2 DEF Row, StepResults
  <2> HIDE DEF row
  <2>4. Approved(row.sr, row.sr.pause)
    BY <2>3 DEF Approved
  <2>5. QED
    BY <1>1, <2>1, <2>3, <2>4, ApproveRest
<1>4. CASE ApproveSerp
  <2> DEFINE row == [db EXCEPT !.serp = TRUE, !.sr.pause = "none", !.sr.serpOk = TRUE]
             sr == [db.sr EXCEPT !.pause = "none", !.serpOk = TRUE]
  <2>1. Requeue(row) /\ db.sr.pause = "serp_review"
    BY <1>4 DEF ApproveSerp
  <2>2. row = [db EXCEPT !.serp = TRUE, !.sr = sr]
    BY DEF Row
  <2>3. sr \in StepResults /\ sr.pause = "none"
    BY DEF Row, StepResults
  <2> HIDE DEF sr
  <2>4. row \in Row /\ row.sr = sr
    BY <2>2, <2>3 DEF Row
  <2> HIDE DEF row
  <2>5. QED
    BY <1>1, <2>1, <2>3, <2>4, ApproveRest
<1>5. CASE ApproveImages
  <2> DEFINE row == [db EXCEPT !.sr.pause = "none", !.sr.imagesOk = TRUE]
  <2>1. /\ Requeue(row) /\ db.sr.pause = "image_review"
        /\ StepOf(db, IMAGE_GEN) \in {"completed", "failed"}
    BY <1>1, <1>5 DEF ApproveImages
  <2>2. row \in Row /\ row.sr.pause = "none"
    BY DEF Row, StepResults
  <2> HIDE DEF row
  <2>3. QED
    BY <1>1, <2>1, <2>2, ApproveRest
<1>6. CASE ForceFail \/ ForceComplete
  <2>1. db'.sr = db.sr /\ db'.status \in {"completed", "failed"} /\ UNCHANGED <<pc, auto>>
    BY <1>6 DEF ForceFail, ForceComplete, Row
  <2>2. \A j \in Jobs : ~Live(j)'
    BY <1>1, <2>1 DEF Idle, Live
  <2>3. PageRest'
    BY <1>1, <2>1 DEF RestInv, PageRest, PageLeft, StepOf
  <2>4. QED
    BY <2>1, <2>2, <2>3 DEF RestInv, QuietMeansReview
<1>7. QED
  BY <1>1, <1>2, <1>3, <1>4, <1>5, <1>6 DEF Operator, Rerun, Retry, Op

LEMMA RestInit == Init => RestInv
<1> SUFFICES ASSUME Init PROVE RestInv
  OBVIOUS
<1>1. db.sr.pause = "none" /\ ~db.sr.waiting /\ db.status = "pending"
  BY DEF Init, NewRow, NewResults
<1>2. \A j \in Jobs : pc[j] \in {"unused", "queued"} /\ (auto[j] => pc[j] = "queued")
  BY DEF Init
<1>3. PageRest
  BY <1>1, <1>2 DEF PageRest, PageLeft, Idle, Live
<1>4. \A j \in Jobs : Live(j) => RestJob(j)
  BY <1>1, <1>2 DEF RestJob, Free, Live, Running
<1>5. QED
  BY <1>1, <1>3, <1>4 DEF RestInv, Free, QuietMeansReview

\* Everything the two theorems below rest on.
AtRestInv == TypeInv /\ JobInv /\ CarefulInv /\ NoBeat /\ ReviewInv /\ RestInv

LEMMA RestNext ==
  ASSUME Unretried
  PROVE  AtRestInv /\ [Next]_vars => RestInv'
<1> SUFFICES ASSUME TypeInv, JobInv, CarefulInv, NoBeat, ReviewInv, RestInv, [Next]_vars
             PROVE  RestInv'
  BY DEF AtRestInv
<1>1. Attended /\ OnePrimary
  BY DEF Unretried
<1>2. ReviewInv' /\ ~Beat
  BY <1>1, ReviewNext, NoBeatNext
<1>3. CASE UNCHANGED vars
  BY <1>3 DEF vars, RestInv, RestJob, Live, Running, Idle, Free, QuietMeansReview, Reviewable,
     PageRest, PageLeft, StepOf
<1>4. ASSUME NEW j \in Jobs, Work(j) \/ Disturb(j)
      PROVE  RestInv'
  BY <1>1, <1>2, <1>4, DeliveryRest
<1>5. QED
  BY <1>2, <1>3, <1>4, OperatorRest DEF Next

LEMMA AtRest ==
  ASSUME Unretried
  PROVE  Spec => []AtRestInv
<1>1. Attended /\ OnePrimary /\ Careful
  BY DEF Unretried, Attended
<1>2. Init => AtRestInv
  BY TypeInit, JobInit, CarefulInit, ReviewInit, RestInit DEF AtRestInv, Init, NoBeat
<1>3. AtRestInv /\ [Next]_vars => AtRestInv'
  BY <1>1, TypeNext, JobNext, CarefulNext, NoBeatNext, ReviewNext, RestNext DEF AtRestInv
<1>4. QED
  BY <1>2, <1>3, PTL DEF Spec

\* A task nothing works on and that is not closed waits for an operator, and the
\* endpoint that ends this wait accepts it: no delivery returns without a review, an
\* article or a failure in the row.
THEOREM QuietIsReview ==
  ASSUME Unretried
  PROVE  Spec => []QuietMeansReview
<1>1. AtRestInv => QuietMeansReview
  BY DEF AtRestInv, RestInv
<1>2. QED
  BY <1>1, AtRest, PTL

\* auto_mode lets no pause stop a project page: left alone, it comes to its article or
\* to its failure.
THEOREM PagesEnd ==
  ASSUME Unretried
  PROVE  Spec => []PageEnds
<1>1. AtRestInv => PageEnds
  BY DEF AtRestInv, RestInv, PageRest, PageLeft, PageEnds
<1>2. QED
  BY <1>1, AtRest, PTL
=============================================================================
