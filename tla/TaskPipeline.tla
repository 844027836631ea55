---------------------------- MODULE TaskPipeline ----------------------------
(***************************************************************************)
(* One article task of the generator, from the HTTP handlers of            *)
(* app/api/tasks.py through the Celery delivery of app/workers/tasks.py    *)
(* to the step machine of app/services/pipeline/runner.py, with the beat   *)
(* job cleanup_stale_tasks beside them.                                    *)
(*                                                                         *)
(* The database row of the task is db; every running delivery j works on   *)
(* its own copy mem[j], the ORM object its session loaded when the         *)
(* delivery was received.  Sessions are opened with expire_on_commit =     *)
(* False, so the copy is read again only by db.refresh and after a         *)
(* rollback, and a commit writes the columns the session changed: see      *)
(* Flush.  step_results is one JSON column, so a commit that changes one   *)
(* step writes all of them.                                                *)
(*                                                                         *)
(* Time is kept as ages in ticks of 15 minutes that saturate one above     *)
(* the thresholds they are compared with.                                  *)
(***************************************************************************)
EXTENDS Naturals, Sequences, FiniteSets

CONSTANTS
  Jobs,           \* Celery deliveries (message ids) this task may get
  None,           \* no delivery
  Plan,           \* the steps of the task's preset, in order
  TestMode,       \* settings.TEST_MODE
  SequentialMode, \* settings.SEQUENTIAL_MODE: creation does not enqueue
  FirstAuto,      \* may the first delivery be a project page (auto_mode), a single task?
  Requests,       \* API operations and "beat": what the environment does
  Careful,        \* do operators act only on a task at rest, and as its page offers?
  Faults,         \* subset of {"crash", "hard_limit", "database", "broker"}
  MaxFaults,      \* bound on the number of faults
  StaleAfter,     \* STALE_TASK_TIMEOUT_MINUTES in ticks
  StepTimeout     \* STEP_TIMEOUT_MINUTES in ticks

Steps == {Plan[i] : i \in 1..Len(Plan)}

\* pipeline_constants.ALL_STEPS
AllSteps == <<"serp_research", "competitor_scraping", "ai_structure_analysis",
  "chunk_cluster_analysis", "competitor_structure_analysis", "final_structure_analysis",
  "structure_fact_checking", "image_prompt_generation", "image_generation",
  "primary_generation", "primary_generation_about", "primary_generation_legal",
  "competitor_comparison", "reader_opinion", "interlinking_citations", "improver",
  "final_editing", "content_fact_checking", "html_structure", "image_inject",
  "meta_generation">>

ASSUME PlanAssumption ==
  /\ Plan \in Seq({AllSteps[i] : i \in 1..Len(AllSteps)})
  /\ \A i, k \in 1..Len(Plan) : Plan[i] = Plan[k] => i = k
ASSUME ModeAssumption ==
  /\ TestMode \in BOOLEAN /\ SequentialMode \in BOOLEAN
  /\ FirstAuto \subseteq BOOLEAN /\ Careful \in BOOLEAN
ASSUME BoundAssumption == MaxFaults \in Nat /\ StaleAfter \in Nat /\ StepTimeout \in Nat
ASSUME NoneAssumption == None \notin Jobs

VARIABLES
  db,         \* the task row: status, step_results, serp_data, competitors_text
  hb,         \* last_heartbeat: was it ever set, and the age of it (or of updated_at)
  celeryId,   \* tasks.celery_task_id
  articles,   \* number of generated_articles rows of the task
  pc,         \* where each delivery is
  idx,        \* position in Plan of a running delivery
  att,        \* retries of the current step
  auto,       \* auto_mode of each delivery
  mem,        \* the row as the delivery's session holds it
  found,      \* what the delivery's query for an article found: a row, since deleted or not
  revoked,    \* message ids the workers were told to revoke
  beat,       \* the clean-up between its query and its commit
  faults,     \* faults so far
  unsent,     \* history: the row is pending and its caller knows nothing was queued
  unreviewed  \* history: pauses whose output no operator has approved since

rowVars  == <<db, hb, celeryId, articles>>
workVars == <<idx, att, mem, found>>
vars == <<db, hb, celeryId, articles, pc, idx, att, auto, mem, found,
          revoked, beat, faults, unsent, unreviewed>>

-----------------------------------------------------------------------------
(* The data the control flow looks at.                                     *)

SERP == "serp_research"
SCRAPING == "competitor_scraping"
IMAGE_GEN == "image_generation"
META == "meta_generation"
Primary == {"primary_generation", "primary_generation_about", "primary_generation_legal"}
FactChecks == {"structure_fact_checking", "content_fact_checking"}
NoPolicy == {"image_prompt_generation", IMAGE_GEN, "image_inject"}

\* Steps whose run() starts with db.refresh(ctx.task).
Refreshing == {"ai_structure_analysis", "chunk_cluster_analysis",
               "competitor_structure_analysis", "final_structure_analysis"}

\* Steps finalize_article can take the body of the article from.
Bodies == Primary \cup {"image_inject", "html_structure", "final_editing", "improver",
                        "interlinking_citations", "reader_opinion", "competitor_comparison"}

\* policy.max_retries and policy.skip_on of each step class.
MaxRetries(s) == IF s \in {SERP, SCRAPING} THEN 1
                 ELSE IF s \in NoPolicy \cup FactChecks THEN 0 ELSE 2

SkipOn(s) == s \in FactChecks

\* "timed_out" is the status "failed" whose result is the timeout's message.
StepStatus == {"absent", "running", "completed", "skipped", "failed", "timed_out"}
TaskStatus == {"pending", "processing", "paused", "completed", "failed", "stale"}
Reasons == {"serp_review", "image_review", "test_mode"}

StepAge == 0..(StepTimeout + 1)
StepRec == [st : StepStatus, age : StepAge]
StepResults == [step : [Steps -> StepRec], plan : BOOLEAN, pause : Reasons \cup {"none"},
                serpOk : BOOLEAN, imagesOk : BOOLEAN, testOk : BOOLEAN, waiting : BOOLEAN]

Row == [status : TaskStatus, sr : StepResults, serp : BOOLEAN, text : BOOLEAN]

NoSteps == [s \in Steps |-> [st |-> "absent", age |-> 0]]
NewResults == [step |-> NoSteps, plan |-> FALSE, pause |-> "none",
               serpOk |-> FALSE, imagesOk |-> FALSE, testOk |-> FALSE, waiting |-> FALSE]

NewRow == [status |-> "pending", sr |-> NewResults, serp |-> FALSE, text |-> FALSE]

Labels == {"unused", "queued", "begin", "entry", "phase", "refresh", "exec",
           "fetched", "save", "after", "final", "upsert", "fail", "done"}

Running(j) == pc[j] \notin {"unused", "queued", "done"}
Live(j) == pc[j] \notin {"unused", "done"}
Idle == \A j \in Jobs : ~Live(j)

\* The step a running delivery is at.
At(j) == Plan[idx[j]]
StepOf(row, s) == row.sr.step[s].st

-----------------------------------------------------------------------------
(* Sessions and deliveries.                                                *)

\* The columns a session changed from old to new are written, the others keep
\* what other sessions committed.  Columns are compared by value.
Written(old, new) ==
  [status |-> IF new.status # old.status THEN new.status ELSE db.status,
   sr     |-> IF new.sr # old.sr THEN new.sr ELSE db.sr,
   serp   |-> IF new.serp # old.serp THEN new.serp ELSE db.serp,
   text   |-> IF new.text # old.text THEN new.text ELSE db.text]

Commit(j, new) == db' = Written(mem[j], new)
Flush(j, new) == Commit(j, new) /\ mem' = [mem EXCEPT ![j] = new]
Reload(j) == mem' = [mem EXCEPT ![j] = db]
Goto(j, label) == pc' = [pc EXCEPT ![j] = label]

\* The session is closed: nothing of it outlives the delivery.
Close(j, label) ==
  /\ Goto(j, label)
  /\ mem' = [mem EXCEPT ![j] = NewRow]
  /\ idx' = [idx EXCEPT ![j] = 1]
  /\ att' = [att EXCEPT ![j] = 0]
  /\ found' = [found EXCEPT ![j] = "none"]

\* save_step_result stamps last_heartbeat; any other write only updated_at, which
\* the clean-up looks at while last_heartbeat is NULL.
Pulse == hb' = [set |-> TRUE, age |-> 0]
Touch == hb' = IF hb.set THEN hb ELSE [set |-> FALSE, age |-> 0]

\* save_step_result: the new entry keeps the started_at of the entry it replaces.
\* The age of a completed step is never looked at again.  The entry carries a new
\* timestamp, so step_results always differs and is always written.
WithStep(row, s, st) ==
  [row EXCEPT !.sr.step[s] =
     [st |-> st, age |-> IF st = "completed" \/ @.st = "absent" THEN 0 ELSE @.age]]

PutStep(j, st) ==
  LET new == WithStep(mem[j], At(j), st) IN
  /\ db' = [Written(mem[j], new) EXCEPT !.sr = new.sr]
  /\ mem' = [mem EXCEPT ![j] = new]
  /\ Pulse

SaveStep(j, st, label) ==
  /\ PutStep(j, st)
  /\ Goto(j, label)
  /\ UNCHANGED <<celeryId, articles, idx, att, auto, found, revoked, beat, faults, unsent>>

-----------------------------------------------------------------------------
(* process_generation_task and run_pipeline.                               *)

\* Mutant of Receive: the session serves a row it loaded before.
ReceiveStale(j) ==
  /\ pc[j] = "queued"
  /\ j \notin revoked
  /\ celeryId' = j
  /\ UNCHANGED mem
  /\ Touch
  /\ Goto(j, "begin")
  /\ UNCHANGED <<db, articles, idx, att, auto, found, revoked, beat, faults, unsent,
                 unreviewed>>

\* Mutant of Receive: a message that is not the last one recorded is ignored.
ReceiveCurrent(j) ==
  /\ pc[j] = "queued"
  /\ j \notin revoked
  /\ celeryId = j
  /\ celeryId' = j
  /\ Reload(j)
  /\ Touch
  /\ Goto(j, "begin")
  /\ UNCHANGED <<db, articles, idx, att, auto, found, revoked, beat, faults, unsent,
                 unreviewed>>

\* A worker takes the message and records its id; run_pipeline's context finds
\* the same object in the session.
Receive(j) ==
  /\ pc[j] = "queued"
  /\ j \notin revoked
  /\ celeryId' = j
  /\ Reload(j)
  /\ Touch
  /\ Goto(j, "begin")
  /\ UNCHANGED <<db, articles, idx, att, auto, found, revoked, beat, faults, unsent,
                 unreviewed>>

\* Mutant of Begin: "processing" is not written.
BeginSilent(j) ==
  /\ pc[j] = "begin"
  /\ UNCHANGED <<db, mem>>
  /\ Touch
  /\ Goto(j, "entry")
  /\ UNCHANGED <<celeryId, articles, idx, att, auto, found, revoked, beat, faults, unsent,
                 unreviewed>>

Begin(j) ==
  /\ pc[j] = "begin"
  /\ Flush(j, [mem[j] EXCEPT !.status = "processing"])
  /\ Touch
  /\ Goto(j, "entry")
  /\ UNCHANGED <<celeryId, articles, idx, att, auto, found, revoked, beat, faults, unsent,
                 unreviewed>>

Approved(sr, reason) ==
  \/ reason = "serp_review" /\ sr.serpOk
  \/ reason = "image_review" /\ sr.imagesOk
  \/ reason = "test_mode" /\ sr.testOk

\* What auto_mode writes instead of pausing.
AutoApprove(sr, reason) ==
  [sr EXCEPT !.pause = "none",
             !.serpOk = @ \/ reason = "serp_review",
             !.imagesOk = @ \/ reason = "image_review",
             !.testOk = @ \/ reason = "test_mode",
             !.waiting = @ /\ reason # "test_mode"]

\* _handle_pause_on_entry returns True: the delivery ends where it began.
EntryPaused(j) ==
  LET reason == mem[j].sr.pause IN
  /\ pc[j] = "entry"
  /\ reason # "none"
  /\ ~Approved(mem[j].sr, reason)
  /\ ~auto[j]
  /\ Commit(j, IF reason = "serp_review" THEN [mem[j] EXCEPT !.status = "paused"] ELSE mem[j])
  /\ Touch
  /\ Close(j, "done")
  /\ UNCHANGED <<celeryId, articles, auto, revoked, beat, faults, unsent, unreviewed>>

\* It returns False: the pause is cleared, and _persist_plan writes the plan.
EntryResume(j) ==
  LET sr == mem[j].sr
      cleared == IF sr.pause = "none" THEN sr
                 ELSE IF Approved(sr, sr.pause) THEN [sr EXCEPT !.pause = "none"]
                 ELSE AutoApprove(sr, sr.pause)
  IN
  /\ pc[j] = "entry"
  /\ sr.pause = "none" \/ Approved(sr, sr.pause) \/ auto[j]
  /\ Flush(j, [mem[j] EXCEPT !.sr = [cleared EXCEPT !.plan = TRUE]])
  /\ unreviewed' = IF auto[j] THEN unreviewed \ {sr.pause} ELSE unreviewed
  /\ Touch
  /\ Goto(j, "phase")
  /\ UNCHANGED <<celeryId, articles, idx, att, auto, found, revoked, beat, faults, unsent>>

\* _run_phase skips a completed step; the pause after it is handled all the same.
SkipCompleted(j) ==
  /\ pc[j] = "phase"
  /\ idx[j] <= Len(Plan)
  /\ StepOf(mem[j], At(j)) = "completed"
  /\ Goto(j, "after")
  /\ UNCHANGED <<db, hb, celeryId, articles, idx, att, auto, mem, found, revoked, beat,
                 faults, unsent, unreviewed>>

\* Mutant of StartStep: a completed step runs again.
StartStepAlways(j) ==
  /\ pc[j] = "phase"
  /\ idx[j] <= Len(Plan)
  /\ PutStep(j, "running")
  /\ Goto(j, IF At(j) \in Refreshing THEN "refresh" ELSE "exec")
  /\ att' = [att EXCEPT ![j] = 0]
  /\ UNCHANGED <<celeryId, articles, idx, auto, found, revoked, beat, faults, unsent, unreviewed>>

\* _run_phase: mark_step_running, then the first attempt.
StartStep(j) ==
  /\ pc[j] = "phase"
  /\ idx[j] <= Len(Plan)
  /\ StepOf(mem[j], At(j)) # "completed"
  /\ PutStep(j, "running")
  /\ Goto(j, IF At(j) \in Refreshing THEN "refresh" ELSE "exec")
  /\ att' = [att EXCEPT ![j] = 0]
  /\ UNCHANGED <<celeryId, articles, idx, auto, found, revoked, beat, faults, unsent, unreviewed>>

RefreshStep(j) ==
  /\ pc[j] = "refresh"
  /\ Reload(j)
  /\ Goto(j, "exec")
  /\ UNCHANGED <<db, hb, celeryId, articles, idx, att, auto, found, revoked, beat, faults,
                 unsent, unreviewed>>

\* The progress callback of call_agent during a long LLM step.
TouchHeartbeat(j) ==
  /\ pc[j] = "exec"
  /\ At(j) \notin {SERP, SCRAPING, IMAGE_GEN, "image_inject"}
  /\ hb.age > 0
  /\ Pulse
  /\ UNCHANGED <<db, celeryId, articles, pc, idx, att, auto, mem, found, revoked, beat,
                 faults, unsent, unreviewed>>

\* SerpStep.run commits the data, then, for a single task, the pause and the
\* status "paused".  Both commits come before _run_phase saves the step.
SerpFetch(j) ==
  /\ pc[j] = "exec"
  /\ At(j) = SERP
  /\ ~mem[j].serp
  /\ Flush(j, [mem[j] EXCEPT !.serp = TRUE])
  /\ Touch
  /\ unreviewed' = IF auto[j] THEN unreviewed ELSE unreviewed \cup {"serp_review"}
  /\ Goto(j, IF auto[j] THEN "save" ELSE "fetched")
  /\ UNCHANGED <<celeryId, articles, idx, att, auto, found, revoked, beat, faults, unsent>>

SerpPause(j) ==
  /\ pc[j] = "fetched"
  /\ Flush(j, [mem[j] EXCEPT !.status = "paused", !.sr.pause = "serp_review"])
  /\ Touch
  /\ Goto(j, "save")
  /\ UNCHANGED <<celeryId, articles, idx, att, auto, found, revoked, beat, faults, unsent,
                 unreviewed>>

\* ScrapingStep.run: without urls it can only raise.
Scrape(j) ==
  /\ pc[j] = "exec"
  /\ At(j) = SCRAPING
  /\ mem[j].serp
  /\ ~mem[j].text
  /\ Flush(j, [mem[j] EXCEPT !.text = TRUE])
  /\ Touch
  /\ Goto(j, "save")
  /\ UNCHANGED <<celeryId, articles, idx, att, auto, found, revoked, beat, faults, unsent,
                 unreviewed>>

\* ImageGenStep.run made images: it pauses the task, in auto_mode too.
MakeImages(j) ==
  /\ pc[j] = "exec"
  /\ At(j) = IMAGE_GEN
  /\ Flush(j, [mem[j] EXCEPT !.status = "processing", !.sr.pause = "image_review"])
  /\ Touch
  /\ unreviewed' = IF auto[j] THEN unreviewed ELSE unreviewed \cup {"image_review"}
  /\ Goto(j, "save")
  /\ UNCHANGED <<celeryId, articles, idx, att, auto, found, revoked, beat, faults, unsent>>

\* ImageGenStep.run without its API keys returns the status "failed".
ImageKeysMissing(j) ==
  /\ pc[j] = "exec"
  /\ At(j) = IMAGE_GEN
  /\ SaveStep(j, "failed", "after")
  /\ UNCHANGED unreviewed

\* What a step still has to commit before its result can be saved.
Quiet(j) ==
  CASE At(j) = SERP     -> mem[j].serp
    [] At(j) = SCRAPING -> mem[j].text
    [] OTHER            -> TRUE

SaveResult(j) ==
  /\ \/ pc[j] = "save"
     \/ pc[j] = "exec" /\ Quiet(j)
  /\ SaveStep(j, "completed", "after")
  /\ unreviewed' = IF At(j) \in Primary /\ TestMode /\ ~auto[j]
                   THEN unreviewed \cup {"test_mode"} ELSE unreviewed

\* policy.skip_on
SkipStep(j) ==
  /\ pc[j] = "exec"
  /\ SkipOn(At(j))
  /\ SaveStep(j, "skipped", "after")
  /\ UNCHANGED unreviewed

\* Mutant of RetryStep: the attempts are not counted against the policy.
RetryStepAlways(j) ==
  /\ pc[j] = "exec"
  /\ At(j) \notin NoPolicy
  /\ att' = [att EXCEPT ![j] = @ + 1]
  /\ Reload(j)
  /\ Touch
  /\ Goto(j, "exec")
  /\ UNCHANGED <<db, celeryId, articles, idx, auto, found, revoked, beat, faults, unsent,
                 unreviewed>>

\* policy.retryable_errors: the session is rolled back, which expires the row.
RetryStep(j) ==
  /\ pc[j] = "exec"
  /\ att[j] < MaxRetries(At(j))
  /\ att' = [att EXCEPT ![j] = @ + 1]
  /\ Reload(j)
  /\ Touch
  /\ Goto(j, "exec")
  /\ UNCHANGED <<db, celeryId, articles, idx, auto, found, revoked, beat, faults, unsent,
                 unreviewed>>

\* StepTimeoutError is raised once the step's thread has ended by itself.
TimeOutStep(j) ==
  /\ pc[j] \in {"exec", "save"}
  /\ SaveStep(j, "timed_out", "fail")
  /\ UNCHANGED unreviewed

\* Mutant of PauseDue: the SERP pause stops nothing.
PauseDueSerpForgotten(j, reason) ==
  /\ ~Approved(mem[j].sr, reason)
  /\ \/ reason = "image_review" /\ At(j) = IMAGE_GEN /\ mem[j].sr.pause = reason
     \/ reason = "test_mode" /\ At(j) \in Primary /\ TestMode

\* _handle_pause_after_step: the reasons to stop after the step just passed.
PauseDue(j, reason) ==
  /\ ~Approved(mem[j].sr, reason)
  /\ \/ reason = "serp_review" /\ At(j) = SERP /\ mem[j].sr.pause = reason
     \/ reason = "image_review" /\ At(j) = IMAGE_GEN /\ mem[j].sr.pause = reason
     \/ reason = "test_mode" /\ At(j) \in Primary /\ TestMode

\* Mutant of PauseHere: waiting_for_approval is not set.
PauseHereUnmarked(j) ==
  /\ pc[j] = "after"
  /\ ~auto[j]
  /\ \E reason \in Reasons :
       /\ PauseDue(j, reason)
       /\ Commit(j, IF reason = "test_mode"
                    THEN [mem[j] EXCEPT !.status = "processing", !.sr.pause = reason]
                    ELSE mem[j])
  /\ Close(j, "done")
  /\ UNCHANGED <<hb, celeryId, articles, auto, revoked, beat, faults, unsent, unreviewed>>

\* Mutant of PauseHere: auto_mode is not asked.
PauseHereAuto(j) ==
  /\ pc[j] = "after"
  /\ \E reason \in Reasons :
       /\ PauseDue(j, reason)
       /\ Commit(j, IF reason = "test_mode"
                    THEN [mem[j] EXCEPT !.status = "processing", !.sr.pause = reason,
                                        !.sr.waiting = TRUE]
                    ELSE mem[j])
  /\ Close(j, "done")
  /\ UNCHANGED <<hb, celeryId, articles, auto, revoked, beat, faults, unsent, unreviewed>>

PauseHere(j) ==
  /\ pc[j] = "after"
  /\ ~auto[j]
  /\ \E reason \in Reasons :
       /\ PauseDue(j, reason)
       /\ Commit(j, IF reason = "test_mode"
                    THEN [mem[j] EXCEPT !.status = "processing", !.sr.pause = reason,
                                        !.sr.waiting = TRUE]
                    ELSE mem[j])
  /\ Close(j, "done")
  /\ UNCHANGED <<hb, celeryId, articles, auto, revoked, beat, faults, unsent, unreviewed>>

\* Mutant of Continue: the loop does not move on.
ContinueHere(j) ==
  LET due == {reason \in Reasons \ {"serp_review"} : PauseDue(j, reason)} IN
  /\ pc[j] = "after"
  /\ auto[j] \/ \A reason \in Reasons : ~PauseDue(j, reason)
  /\ \/ due = {} /\ UNCHANGED <<db, mem>>
     \/ \E reason \in due :
          Flush(j, [mem[j] EXCEPT !.sr = AutoApprove(mem[j].sr, reason)])
  /\ unreviewed' = unreviewed \ due
  /\ UNCHANGED idx
  /\ Goto(j, "phase")
  /\ UNCHANGED <<hb, celeryId, articles, att, auto, found, revoked, beat, faults, unsent>>

\* The loop of run_pipeline goes on.  auto_mode approves for itself, except that
\* it leaves a SERP pause as it is.
Continue(j) ==
  LET due == {reason \in Reasons \ {"serp_review"} : PauseDue(j, reason)} IN
  /\ pc[j] = "after"
  /\ auto[j] \/ \A reason \in Reasons : ~PauseDue(j, reason)
  /\ \/ due = {} /\ UNCHANGED <<db, mem>>
     \/ \E reason \in due :
          Flush(j, [mem[j] EXCEPT !.sr = AutoApprove(mem[j].sr, reason)])
  /\ unreviewed' = unreviewed \ due
  /\ idx' = [idx EXCEPT ![j] = @ + 1]
  /\ Goto(j, "phase")
  /\ UNCHANGED <<hb, celeryId, articles, att, auto, found, revoked, beat, faults, unsent>>

PhaseEnd(j) ==
  /\ pc[j] = "phase"
  /\ idx[j] > Len(Plan)
  /\ Goto(j, "final")
  /\ UNCHANGED <<db, hb, celeryId, articles, idx, att, auto, mem, found, revoked, beat,
                 faults, unsent, unreviewed>>

\* finalize_article up to the query of _upsert_article: a body and a parseable
\* meta_generation are needed.
Assemblable(row) ==
  /\ \E s \in Steps \cap Bodies : StepOf(row, s) = "completed"
  /\ META \in Steps
  /\ StepOf(row, META) = "completed"

Assemble(j) ==
  /\ pc[j] = "final"
  /\ Assemblable(mem[j])
  /\ found' = [found EXCEPT ![j] = IF articles > 0 THEN "row" ELSE "none"]
  /\ Goto(j, "upsert")
  /\ UNCHANGED <<db, hb, celeryId, articles, idx, att, auto, mem, revoked, beat, faults,
                 unsent, unreviewed>>

\* Mutant of Upsert: always inserts.
UpsertBlind(j) ==
  /\ pc[j] = "upsert"
  /\ articles' = articles + 1
  /\ Commit(j, [mem[j] EXCEPT !.status = "completed"])
  /\ Close(j, "done")
  /\ UNCHANGED <<hb, celeryId, auto, revoked, beat, faults, unsent, unreviewed>>

\* The article and the status are committed together.  If a cascading rerun has deleted
\* the article meanwhile, an UPDATE of it raises (Fail); but a delivery that assembled the
\* very same article has no column to update, sends nothing and completes the task.
Upsert(j) ==
  /\ pc[j] = "upsert"
  /\ articles' = IF found[j] = "none" THEN articles + 1 ELSE articles
  /\ Commit(j, [mem[j] EXCEPT !.status = "completed"])
  /\ Close(j, "done")
  /\ UNCHANGED <<hb, celeryId, auto, revoked, beat, faults, unsent, unreviewed>>

\* The except clause of run_pipeline: rollback, then only the status reaches the
\* row, for the loop over the running steps changes the loaded JSON in place and
\* the comparison by value sees nothing to write.
FailRow(j) ==
  /\ db' = [db EXCEPT !.status = "failed"]
  /\ Touch
  /\ Close(j, "done")
  /\ UNCHANGED <<celeryId, articles, auto, revoked, beat, unsent, unreviewed>>

Fail(j) ==
  /\ pc[j] \in {"exec", "save", "fail", "final", "upsert"}
  /\ FailRow(j)
  /\ UNCHANGED faults

-----------------------------------------------------------------------------
(* What the infrastructure does to a delivery.                             *)

Fault(kind) ==
  /\ kind \in Faults
  /\ faults < MaxFaults
  /\ faults' = faults + 1

\* The worker process is lost: acks_late and reject_on_worker_lost put the
\* message back.
Crash(j) ==
  /\ Fault("crash")
  /\ Running(j)
  /\ Close(j, "queued")
  /\ UNCHANGED <<rowVars, auto, revoked, beat, unsent, unreviewed>>

\* CELERY_TASK_TIME_LIMIT: the process is killed and the message acknowledged.
HardLimit(j) ==
  /\ Fault("hard_limit")
  /\ pc[j] = "exec"
  /\ Close(j, "done")
  /\ UNCHANGED <<rowVars, auto, revoked, beat, unsent, unreviewed>>

\* A commit of the delivery fails, where no step would have raised by itself.
DatabaseError(j) ==
  /\ Fault("database")
  /\ Running(j)
  /\ FailRow(j)

\* revoke(terminate=True) reaches a running delivery, or one not yet received.
KillRevoked(j) ==
  /\ Running(j)
  /\ j \in revoked
  /\ Close(j, "done")
  /\ UNCHANGED <<rowVars, auto, revoked, beat, faults, unsent, unreviewed>>

DropRevoked(j) ==
  /\ pc[j] = "queued"
  /\ j \in revoked
  /\ Goto(j, "done")
  /\ UNCHANGED <<rowVars, workVars, auto, revoked, beat, faults, unsent, unreviewed>>

-----------------------------------------------------------------------------
(* The handlers of app/api/tasks.py.                                       *)

Op(request) == request \in Requests /\ (Careful => Idle)

Queue(j) ==
  /\ pc[j] = "unused"
  /\ Goto(j, "queued")
  /\ auto' = [auto EXCEPT ![j] = FALSE]
  /\ unsent' = FALSE
  /\ UNCHANGED faults

\* enqueue_task_generation after the handler's own commit; delay() may raise, and
\* then the row stays as the handler left it.
Enqueue ==
  \/ \E j \in Jobs : Queue(j) /\ celeryId' = j
  \/ /\ Fault("broker")
     /\ unsent' = TRUE
     /\ UNCHANGED <<pc, auto, celeryId>>

\* Mutant of Requeue: the status is left as it is.
RequeueAsIs(row) ==
  /\ db' = row
  /\ Touch
  /\ Enqueue
  /\ UNCHANGED <<idx, att, mem, revoked, beat>>

\* Every handler that sends a task back to work writes "pending" first.
Requeue(row) ==
  /\ db' = [row EXCEPT !.status = "pending"]
  /\ Touch
  /\ Enqueue
  /\ UNCHANGED <<idx, att, mem, revoked, beat>>

StartNext ==
  /\ Op("next")
  /\ \A j \in Jobs : ~auto[j]
  /\ db.status = "pending"
  /\ \E j \in Jobs : Queue(j) /\ celeryId' = j
  /\ Touch
  /\ UNCHANGED <<db, articles, workVars, revoked, beat, unreviewed>>

\* start-all and start-selected: the chain's id is not kept.
StartAll ==
  /\ Op("start_all")
  /\ \A j \in Jobs : ~auto[j]
  /\ db.status = "pending"
  /\ \E j \in Jobs : Queue(j)
  /\ UNCHANGED <<rowVars, workVars, revoked, beat, unreviewed>>

Retry ==
  /\ Op("retry")
  /\ db.status = "failed"
  /\ Requeue(db)
  /\ UNCHANGED <<articles, found, unreviewed>>

\* approve: the pause itself is left for the next delivery to clear.
ApproveTest ==
  /\ Op("approve")
  /\ db.sr.waiting
  /\ Requeue([db EXCEPT !.sr.waiting = FALSE, !.sr.testOk = TRUE])
  /\ unreviewed' = unreviewed \ {"test_mode"}
  /\ UNCHANGED <<articles, found>>

ApproveSerp ==
  /\ Op("approve_serp")
  /\ db.sr.pause = "serp_review"
  /\ Requeue([db EXCEPT !.serp = TRUE, !.sr.pause = "none", !.sr.serpOk = TRUE])
  /\ unreviewed' = unreviewed \ {"serp_review"}
  /\ UNCHANGED <<articles, found>>

\* approve-images asks for a parseable result, not for a status or a pause; the
\* task page shows its button only during the pause.
ApproveImages ==
  /\ Op("approve_images")
  /\ IMAGE_GEN \in Steps
  /\ StepOf(db, IMAGE_GEN) \in {"completed", "failed"}
  /\ Careful => db.sr.pause = "image_review"
  /\ Requeue([db EXCEPT !.sr.pause = "none", !.sr.imagesOk = TRUE])
  /\ unreviewed' = unreviewed \ {"image_review"}
  /\ UNCHANGED <<articles, found>>

Forceable == db.status \in {"processing", "stale", "paused"}

ForceFail ==
  /\ Op("force_fail")
  /\ Forceable
  /\ revoked' = revoked \cup ({celeryId} \ {None})
  /\ db' = [db EXCEPT !.status = "failed"]
  /\ Touch
  /\ UNCHANGED <<celeryId, articles, pc, auto, workVars, beat, faults, unsent, unreviewed>>

\* "complete" does not revoke the delivery.
ForceComplete ==
  /\ Op("force_complete")
  /\ Forceable
  /\ db.sr # NewResults
  /\ db' = [db EXCEPT !.status = "completed"]
  /\ Touch
  /\ UNCHANGED <<celeryId, articles, pc, auto, workVars, revoked, beat, faults, unsent, unreviewed>>

Position(s) == CHOOSE i \in 1..Len(AllSteps) : AllSteps[i] = s

\* The steps rerun-step deletes from step_results.
Invalidated(s, cascade) ==
  IF cascade THEN {t \in Steps : Position(t) >= Position(s)}
  ELSE {s} \cup (CASE s = "image_prompt_generation" -> {IMAGE_GEN, "image_inject"}
                   [] s = IMAGE_GEN                 -> {"image_inject"}
                   [] OTHER                         -> {})

\* The row after the deletion; the approvals of earlier pauses stay.
Rewound(s, cascade) ==
  [db EXCEPT !.sr.step = [t \in Steps |-> IF t \in Invalidated(s, cascade)
                                          THEN NoSteps[t] ELSE @[t]],
             !.serp = @ /\ s # SERP,
             !.text = @ /\ s \notin {SERP, SCRAPING}]

\* The first article of the task, if there is one, and who had found it.
DeleteArticle ==
  /\ articles' = IF articles > 0 THEN articles - 1 ELSE 0
  /\ found' \in [Jobs -> {"none", "row", "gone"}]
  /\ \A j \in Jobs : \/ found'[j] = found[j] /\ (found[j] = "row" => articles # 1)
                     \/ found[j] = "row" /\ found'[j] = "gone"

Rerun(s, cascade) ==
  /\ Op("rerun")
  /\ db.status # "stale"
  /\ StepOf(db, s) = "completed"
  /\ Requeue(Rewound(s, cascade))
  /\ IF cascade THEN DeleteArticle ELSE UNCHANGED <<articles, found>>
  /\ UNCHANGED unreviewed

-----------------------------------------------------------------------------
(* Celery beat: cleanup_stale_tasks, and the clock it compares with.       *)

Older(age, bound) == IF age > bound THEN age ELSE age + 1

OlderSteps(sr) ==
  [sr EXCEPT !.step = [s \in Steps |->
     IF sr.step[s].st \in {"absent", "completed"} THEN sr.step[s]
     ELSE [sr.step[s] EXCEPT !.age = Older(@, StepTimeout)]]]

\* Fifteen minutes pass.
Tick ==
  /\ "beat" \in Requests
  /\ db' = [db EXCEPT !.sr = OlderSteps(@)]
  /\ mem' = [j \in Jobs |-> [mem[j] EXCEPT !.sr = OlderSteps(@)]]
  /\ hb' = [hb EXCEPT !.age = Older(@, StaleAfter)]
  /\ UNCHANGED <<celeryId, articles, pc, idx, att, auto, found, revoked, beat, faults,
                 unsent, unreviewed>>

Overdue == {s \in Steps : StepOf(db, s) = "running" /\ db.sr.step[s].age > StepTimeout}

\* The query and the revocation of a stale task, or the first overdue step.
BeatScan ==
  /\ "beat" \in Requests
  /\ beat.kind = "idle"
  /\ db.status = "processing"
  /\ \/ /\ hb.age > StaleAfter
        /\ beat' = [kind |-> "stale", id |-> celeryId]
        /\ revoked' = revoked \cup ({celeryId} \ {None})
     \/ /\ hb.age <= StaleAfter
        /\ Overdue # {}
        /\ beat' = [kind |-> "timeout", id |-> celeryId]
        /\ UNCHANGED revoked
  /\ UNCHANGED <<rowVars, pc, auto, workVars, faults, unsent, unreviewed>>

\* Mutant of BeatCommit: revokes, and never writes the status.
BeatCommitLost ==
  /\ beat.kind # "idle"
  /\ UNCHANGED <<db, hb>>
  /\ revoked' = IF beat.kind = "timeout" THEN revoked \cup ({beat.id} \ {None}) ELSE revoked
  /\ beat' = [kind |-> "idle", id |-> None]
  /\ UNCHANGED <<celeryId, articles, pc, auto, workVars, faults, unsent, unreviewed>>

\* The commit writes "stale" whatever the row holds by now.  The entry of the
\* overdue step was changed in place and is not written.
BeatCommit ==
  /\ beat.kind # "idle"
  /\ db' = [db EXCEPT !.status = "stale"]
  /\ Touch
  /\ revoked' = IF beat.kind = "timeout" THEN revoked \cup ({beat.id} \ {None}) ELSE revoked
  /\ beat' = [kind |-> "idle", id |-> None]
  /\ UNCHANGED <<celeryId, articles, pc, auto, workVars, faults, unsent, unreviewed>>

-----------------------------------------------------------------------------
\* create_task, or the task of a project page: queued unless SEQUENTIAL_MODE.
Init ==
  /\ db = NewRow
  /\ hb = [set |-> FALSE, age |-> 0]
  /\ articles = 0
  /\ idx = [j \in Jobs |-> 1]
  /\ att = [j \in Jobs |-> 0]
  /\ mem = [j \in Jobs |-> NewRow]
  /\ found = [j \in Jobs |-> "none"]
  /\ revoked = {}
  /\ beat = [kind |-> "idle", id |-> None]
  /\ faults = 0
  /\ unreviewed = {}
  /\ unsent = SequentialMode
  /\ \/ /\ SequentialMode
        /\ celeryId = None
        /\ pc = [j \in Jobs |-> "unused"]
        /\ auto = [j \in Jobs |-> FALSE]
     \/ /\ ~SequentialMode
        /\ \E first \in Jobs, page \in FirstAuto :
             /\ celeryId = first
             /\ pc = [j \in Jobs |-> IF j = first THEN "queued" ELSE "unused"]
             /\ auto = [j \in Jobs |-> page /\ j = first]

\* What a delivery does by itself, in the order its code does it.
Work(j) ==
  \/ Receive(j) \/ Begin(j) \/ EntryPaused(j) \/ EntryResume(j)
  \/ SkipCompleted(j) \/ StartStep(j) \/ RefreshStep(j)
  \/ SerpFetch(j) \/ SerpPause(j) \/ Scrape(j) \/ MakeImages(j) \/ ImageKeysMissing(j)
  \/ SaveResult(j) \/ SkipStep(j) \/ TimeOutStep(j)
  \/ PauseHere(j) \/ Continue(j) \/ PhaseEnd(j) \/ Assemble(j) \/ Upsert(j) \/ Fail(j)
  \/ KillRevoked(j) \/ DropRevoked(j)

Disturb(j) ==
  \/ TouchHeartbeat(j) \/ RetryStep(j)
  \/ Crash(j) \/ HardLimit(j) \/ DatabaseError(j)

Operator ==
  \/ StartNext \/ StartAll \/ Retry
  \/ ApproveTest \/ ApproveSerp \/ ApproveImages
  \/ ForceFail \/ ForceComplete
  \/ \E s \in Steps, cascade \in BOOLEAN : Rerun(s, cascade)

Beat == Tick \/ BeatScan \/ BeatCommit

Next ==
  \/ \E j \in Jobs : Work(j) \/ Disturb(j)
  \/ Operator
  \/ Beat

Spec == Init /\ [][Next]_vars

\* Workers run what they hold, every step ends, and beat keeps its schedule.
Fairness ==
  /\ \A j \in Jobs : WF_vars(Work(j))
  /\ WF_vars(Tick) /\ WF_vars(BeatScan) /\ WF_vars(BeatCommit)

FairSpec == Spec /\ Fairness

-----------------------------------------------------------------------------
TypeOK ==
  /\ db \in Row
  /\ hb \in [set : BOOLEAN, age : 0..(StaleAfter + 1)]
  /\ celeryId \in Jobs \cup {None}
  /\ articles \in Nat
  /\ pc \in [Jobs -> Labels]
  /\ idx \in [Jobs -> 1..(Len(Plan) + 1)]
  /\ att \in [Jobs -> 0..2]
  /\ auto \in [Jobs -> BOOLEAN]
  /\ mem \in [Jobs -> Row]
  /\ found \in [Jobs -> {"none", "row", "gone"}]
  /\ revoked \subseteq Jobs
  /\ beat \in [kind : {"idle", "stale", "timeout"}, id : Jobs \cup {None}]
  /\ faults \in 0..MaxFaults
  /\ unsent \in BOOLEAN
  /\ unreviewed \subseteq Reasons

\* A pending row always has a message on its way that will turn it to "processing",
\* or its caller was told that nothing was queued.  Beat never looks at pending
\* tasks, so a row that lost its message would wait for ever.
Carries(j) ==
  /\ j \notin revoked
  /\ \/ pc[j] = "queued"
     \/ pc[j] = "begin" /\ mem[j].status # "processing"

PendingHasJob == db.status = "pending" => unsent \/ \E j \in Jobs : Carries(j)

\* No single-task delivery works on a step behind a review gate whose output no
\* operator has approved (the pauses of runner.py, serp_step.py, image_gen_step.py).
InStep(j) == pc[j] \in {"refresh", "exec", "fetched", "save"}
GateOf(reason) == CASE reason = "serp_review"  -> {SERP}
                    [] reason = "image_review" -> {IMAGE_GEN}
                    [] reason = "test_mode"    -> Primary

ReviewRespected ==
  \A j \in Jobs : InStep(j) /\ ~auto[j] =>
    \A reason \in unreviewed, i \in 1..(idx[j] - 1) : Plan[i] \notin GateOf(reason)

\* When nothing works on the task and its status says it is under way, it waits for
\* a review, and the endpoint that ends this review accepts it.
Reviewable ==
  \/ db.sr.pause = "serp_review"
  \/ db.sr.waiting
  \/ /\ db.sr.pause = "image_review"
     /\ IMAGE_GEN \in Steps
     /\ StepOf(db, IMAGE_GEN) \in {"completed", "failed"}

QuietMeansReview == Idle /\ db.status \in {"processing", "paused"} => Reviewable

\* finalize_article is to "assemble and persist" the article before the status is committed
\* (assembly.py:212): no step leaves a completed task without one, whatever overlaps
\* (assembly.py:183, tasks.py:836), but for two: an operator forces the status, or a rerun
\* deletes the article between the query and the commit of a delivery that would write the
\* same one again.
ArticleBehindStatus ==
  [][db'.status = "completed" /\ articles' = 0 =>
       \/ db.status = "completed" /\ articles = 0
       \/ ForceComplete
       \/ \E j \in Jobs : pc[j] = "upsert" /\ found[j] = "gone" /\ pc'[j] = "done"]_vars

\* And it never has two (query and insert of _upsert_article are two statements).
AtMostOneArticle == articles <= 1

\* A project page, left alone, ends: no pause keeps it (changelog 2026-04-13, line 10).
PageEnds == /\ Idle
            /\ \E j \in Jobs : auto[j]
            /\ \A j \in Jobs : pc[j] # "unused" => auto[j]
            => db.status \in {"completed", "failed"}

\* A step that was paid for stays completed, through crashes, failures and retries,
\* until an operator reruns it.
WorkKept ==
  [][\/ \A s \in Steps : StepOf(db, s) = "completed" => StepOf(db, s)' = "completed"
     \/ \E s \in Steps, cascade \in BOOLEAN : Rerun(s, cascade)]_vars

\* An operator's approval is not taken back by the delivery that asked for it.
ApprovalKept ==
  [][\A reason \in Reasons : Approved(db.sr, reason) => Approved(db'.sr, reason)]_vars

\* Only a rerun takes a task out of "completed": beat cleans up "jobs stuck in
\* 'processing' state" (docstring of cleanup_stale_tasks).
CompletedStays ==
  [][\/ db.status = "completed" => db'.status = "completed"
     \/ \E s \in Steps, cascade \in BOOLEAN : Rerun(s, cascade)]_vars

\* A message in the queue is worked off, and a pending row does not stay so.
DeliveryEnds == \A j \in Jobs : pc[j] = "queued" ~> pc[j] = "done"
PendingStarts == db.status = "pending" /\ ~unsent ~> db.status # "pending"

\* What a killed worker left in "processing" does not stay there.
OrphanCleaned == Idle /\ db.status = "processing" ~> db.status # "processing"
=============================================================================
