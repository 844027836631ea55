------------------------- MODULE ProjectCoordinator -------------------------
(***************************************************************************)
(* A site project: the chain of Celery messages process_site_project ->    *)
(* advance_project -> process_project_page -> advance_project -> ... of    *)
(* app/workers/tasks.py, the operators' requests of app/api/projects.py    *)
(* and the beat job cleanup_stale_tasks, around one row of site_projects   *)
(* and the tasks of its pages.                                             *)
(*                                                                         *)
(* The run of one page (run_pipeline with auto_mode) is TaskPipeline's     *)
(* matter: here it ends "completed" or "failed", as TaskPipeline!PageEnds  *)
(* has it, or raises a database error.                                     *)
(*                                                                         *)
(* A handler reads the project once and commits later, with                *)
(* expire_on_commit = False: a job keeps its copy in "seen", and a commit  *)
(* writes only the columns the job has changed in it (Written).            *)
(***************************************************************************)
EXTENDS Naturals, Sequences, FiniteSets

CONSTANTS
  NPages,      \* pages of the project's blueprint
  MaxJobs,     \* bound on the messages queued or running at a time
  MaxTasks,    \* bound on the tasks of the project
  Approval,    \* settings.PROJECT_PAGE_APPROVAL
  Requests,    \* API operations, "stale" and "requeue": what the environment does
  MaxRequests, \* bound on the number of them
  Careful,     \* do operators start, retry and reset only a project at rest?
  Faults,      \* subset of {"crash", "lost", "infra", "error", "broker"}
  MaxFaults    \* bound on the number of faults

Pages == 1..NPages
Jobs == 1..MaxJobs

ASSUME SizeAssumption ==
  /\ NPages \in Nat \ {0} /\ MaxJobs \in Nat \ {0} /\ MaxTasks \in Nat
  /\ MaxRequests \in Nat /\ MaxFaults \in Nat
ASSUME SwitchAssumption == Approval \in BOOLEAN /\ Careful \in BOOLEAN

VARIABLES
  project,  \* the site_projects row: status, stopping_requested, build_zip_url set?
  tasks,    \* the rows of the project's tasks, in the order they were created
  job,      \* the messages: queued, or with a worker
  requests, \* requests so far
  faults,   \* faults so far
  unsent,   \* history: a delay() outside a handler's try raised, and none succeeded since
  asked     \* history: 0, or 1 + the pages begun since the operator asked to stop

vars == <<project, tasks, job, requests, faults, unsent, asked>>

-----------------------------------------------------------------------------
(* Rows and messages.                                                      *)

ProjectStatus == {"pending", "generating", "awaiting_page_approval", "completed",
                  "failed", "stopped"}

TaskStatus == {"pending", "processing", "completed", "failed", "stale"}
Project == [status : ProjectStatus, stopping : BOOLEAN, zip : BOOLEAN]
NewProject == [status |-> "pending", stopping |-> FALSE, zip |-> FALSE]

\* celery_task_id of a task is kept while that message is live: a revoked
\* message that has ended is nothing to the workers.
Task == [page : Pages, status : TaskStatus, article : BOOLEAN, claim : 0..MaxJobs]

Kinds == {"start", "advance", "page"}
Labels == {"free", "queued", "begin", "choose", "await", "generate", "build", "finish",
           "open", "run", "running", "report", "stop", "fail", "retry", "send", "ack"}

\* page: the argument of a page message, and the page advance_project has chosen.
\* named: is this message the project's celery_task_id?
\* task: the task a page works on.
Job == [at : Labels, kind : Kinds, page : 0..NPages, approved : BOOLEAN, named : BOOLEAN,
        task : 0..MaxTasks, seen : Project]

Message(kind, page, approved, named) ==
  [at |-> "queued", kind |-> kind, page |-> page, approved |-> approved, named |-> named,
   task |-> 0, seen |-> NewProject]

Free == [Message("start", 0, FALSE, FALSE) EXCEPT !.at = "free"]

Live(j) == job[j].at # "free"
Slots == {j \in Jobs : ~Live(j)}
Slot == CHOOSE j \in Slots : TRUE  \* which one does not matter

\* A chain is a message that will, or may still, cause the next one.
Chain(j) == job[j].at \notin {"free", "ack"}

Goto(j, label) == job' = [job EXCEPT ![j].at = label]
Load(j, label) == job' = [job EXCEPT ![j].at = label, ![j].seen = project]

Written(old, new) ==
  [status   |-> IF new.status # old.status THEN new.status ELSE project.status,
   stopping |-> IF new.stopping # old.stopping THEN new.stopping ELSE project.stopping,
   zip      |-> IF new.zip # old.zip THEN new.zip ELSE project.zip]

\* The commit before "ack" is the last use of the copy.
Commit(j, new, label) ==
  /\ project' = Written(job[j].seen, new)
  /\ job' = [job EXCEPT ![j].at = label, ![j].seen = IF label = "ack" THEN NewProject ELSE new]

\* Messages that are acknowledged or dropped.
Dropped(js) == [j \in Jobs |-> IF j \in js THEN Free ELSE job[j]]
Unclaimed(js) ==
  [t \in DOMAIN tasks |-> IF tasks[t].claim \in js THEN [tasks[t] EXCEPT !.claim = 0]
                          ELSE tasks[t]]

Update(t, status) == tasks' = [tasks EXCEPT ![t].status = status]

-----------------------------------------------------------------------------
(* process_site_project.                                                   *)

StartLoad(j) ==
  /\ job[j].at = "queued" /\ job[j].kind = "start"
  /\ Load(j, "begin")
  /\ UNCHANGED <<project, tasks, requests, faults, asked, unsent>>

\* Mutant of StartCommit: a new start forgets the operator's request to stop.
StartClearsStop(j) ==
  /\ job[j].at = "begin"
  /\ project' = [Written(job[j].seen, [job[j].seen EXCEPT !.status = "generating"])
                 EXCEPT !.stopping = FALSE]
  /\ Goto(j, "send")
  /\ UNCHANGED <<tasks, requests, faults, asked, unsent>>

StartCommit(j) ==
  /\ job[j].at = "begin"
  /\ Commit(j, [job[j].seen EXCEPT !.status = "generating"], "send")
  /\ UNCHANGED <<tasks, requests, faults, asked, unsent>>

-----------------------------------------------------------------------------
(* advance_project.                                                        *)

AdvanceLoad(j) ==
  /\ job[j].at = "queued" /\ job[j].kind = "advance"
  /\ Load(j, IF project.stopping THEN "stop" ELSE "choose")
  /\ UNCHANGED <<project, tasks, requests, faults, asked, unsent>>

\* Also the answer of process_project_page to the flag: no message is sent.
StopCommit(j) ==
  /\ job[j].at = "stop"
  /\ Commit(j, [job[j].seen EXCEPT !.status = "stopped", !.stopping = FALSE], "ack")
  /\ UNCHANGED <<tasks, requests, faults, asked, unsent>>

\* Mutant of DoneStatus: a page that failed is not done.
DoneCompleted == {"completed", "stale"}
DoneStatus == {"completed", "failed", "stale"}
DonePages == {tasks[t].page : t \in {u \in DOMAIN tasks : tasks[u].status \in DoneStatus}}
OpenPages == Pages \ DonePages

ChooseNone(j) ==
  /\ job[j].at = "choose"
  /\ OpenPages = {}
  /\ Goto(j, "build")
  /\ UNCHANGED <<project, tasks, requests, faults, asked, unsent>>

\* Mutant of ChoosePage: the pages come in any order.
ChooseAnyPage(j) ==
  /\ job[j].at = "choose"
  /\ \E p \in OpenPages :
       job' = [job EXCEPT ![j].page = p, ![j].at =
         IF Approval /\ ~job[j].approved /\ \E t \in DOMAIN tasks : tasks[t].status = "completed"
         THEN "await" ELSE "generate"]
  /\ UNCHANGED <<project, tasks, requests, faults, asked, unsent>>

\* The first page that is not done; after a completed one the operator is asked.
ChoosePage(j) ==
  /\ job[j].at = "choose"
  /\ \E p \in OpenPages :
       /\ \A q \in OpenPages : p <= q
       /\ job' = [job EXCEPT ![j].page = p, ![j].at =
            IF Approval /\ ~job[j].approved /\ \E t \in DOMAIN tasks : tasks[t].status = "completed"
            THEN "await" ELSE "generate"]
  /\ UNCHANGED <<project, tasks, requests, faults, asked, unsent>>

AwaitCommit(j) ==
  /\ job[j].at = "await"
  /\ Commit(j, [job[j].seen EXCEPT !.status = "awaiting_page_approval"], "ack")
  /\ UNCHANGED <<tasks, requests, faults, asked, unsent>>

GenerateCommit(j) ==
  /\ job[j].at = "generate"
  /\ Commit(j, [job[j].seen EXCEPT !.status = "generating"], "send")
  /\ UNCHANGED <<tasks, requests, faults, asked, unsent>>

\* Mutant of Build: an empty archive is no error.
BuildAnyway(j) ==
  LET built == \E t \in DOMAIN tasks : tasks[t].article IN
  /\ job[j].at = "build"
  /\ Commit(j, [job[j].seen EXCEPT !.zip = built], "finish")
  /\ UNCHANGED <<tasks, requests, faults, asked, unsent>>

\* build_site: an archive without a single article is an error.
Build(j) ==
  LET built == \E t \in DOMAIN tasks : tasks[t].article IN
  /\ job[j].at = "build"
  /\ Commit(j, [job[j].seen EXCEPT !.zip = built], IF built THEN "finish" ELSE "fail")
  /\ UNCHANGED <<tasks, requests, faults, asked, unsent>>

\* The rest of finalize_project.
Finish(j) ==
  /\ job[j].at = "finish"
  /\ Commit(j, [job[j].seen EXCEPT !.status = "completed"], "ack")
  /\ UNCHANGED <<tasks, requests, faults, asked, unsent>>

\* Mutant of FailCommit: the failure is not written.
FailSilent(j) ==
  /\ job[j].at = "fail"
  /\ Goto(j, IF job[j].kind = "page" THEN "send" ELSE "ack")
  /\ UNCHANGED <<project, tasks, requests, faults, asked, unsent>>

\* The except clause of each handler: process_project_page advances all the same.
FailCommit(j) ==
  /\ job[j].at = "fail"
  /\ Commit(j, [job[j].seen EXCEPT !.status = "failed"],
            IF job[j].kind = "page" THEN "send" ELSE "ack")
  /\ UNCHANGED <<tasks, requests, faults, asked, unsent>>

-----------------------------------------------------------------------------
(* process_project_page.                                                   *)

PageLoad(j) ==
  /\ job[j].at = "queued" /\ job[j].kind = "page"
  /\ Load(j, IF project.stopping THEN "stop" ELSE "open")
  /\ UNCHANGED <<project, tasks, requests, faults, asked, unsent>>

\* A page begun while the operator waits for the project to stop.
CountPage == asked' = IF asked \in 1..2 THEN asked + 1 ELSE asked

Reusable(j) == {t \in DOMAIN tasks : /\ tasks[t].page = job[j].page
                                     /\ tasks[t].status \in {"pending", "failed"}}

\* The task of the page is used again if it has not been run, or failed.  From here to
\* the report, which reads the project anew, the copy is not looked at.
Reuse(j) ==
  /\ job[j].at = "open"
  /\ \E t \in Reusable(j) :
       /\ Update(t, "pending")
       /\ job' = [job EXCEPT ![j].at = "run", ![j].task = t, ![j].seen = NewProject]
  /\ CountPage
  /\ UNCHANGED <<project, requests, faults, unsent>>

CreateTask(j) ==
  /\ job[j].at = "open"
  /\ Reusable(j) = {}
  /\ Len(tasks) < MaxTasks
  /\ tasks' = Append(tasks, [page |-> job[j].page, status |-> "pending", article |-> FALSE,
                             claim |-> 0])
  /\ job' = [job EXCEPT ![j].at = "run", ![j].task = Len(tasks) + 1, ![j].seen = NewProject]
  /\ CountPage
  /\ UNCHANGED <<project, requests, faults, unsent>>

\* The page's message becomes the task's celery_task_id; run_pipeline begins.
RunPage(j) ==
  /\ job[j].at = "run"
  /\ tasks' = [tasks EXCEPT ![job[j].task].status = "processing", ![job[j].task].claim = j]
  /\ Goto(j, "running")
  /\ UNCHANGED <<project, requests, faults, asked, unsent>>

PageCompleted(j) ==
  /\ job[j].at = "running"
  /\ tasks' = [tasks EXCEPT ![job[j].task].status = "completed",
                            ![job[j].task].article = TRUE]
  /\ Goto(j, "report")
  /\ UNCHANGED <<project, requests, faults, asked, unsent>>

\* run_pipeline has marked the task failed, or an exception it raised does.
PageFailed(j) ==
  /\ job[j].at = "running"
  /\ Update(job[j].task, "failed")
  /\ Goto(j, "report")
  /\ UNCHANGED <<project, requests, faults, asked, unsent>>

\* Mutant of PageInfra: the task stays as the failed attempt left it.
PageInfraOnly(j) ==
  /\ "infra" \in Faults /\ faults < MaxFaults
  /\ job[j].at = "running"
  /\ project' = [project EXCEPT !.status = "pending"]
  /\ job' = [job EXCEPT ![j].at = "retry", ![j].seen = project']
  /\ faults' = faults + 1
  /\ UNCHANGED <<tasks, requests, asked, unsent>>

\* OperationalError or DBAPIError: rollback, everything read anew, and another try
\* of the page through advance_project (60 seconds later: the message just waits).
PageInfra(j) ==
  /\ "infra" \in Faults /\ faults < MaxFaults
  /\ job[j].at = "running"
  /\ IF tasks[job[j].task].status \in {"failed", "completed"} THEN UNCHANGED tasks
     ELSE Update(job[j].task, "pending")
  /\ project' = [project EXCEPT !.status = "pending"]
  /\ job' = [job EXCEPT ![j].at = "retry", ![j].seen = project']
  /\ faults' = faults + 1
  /\ UNCHANGED <<requests, asked, unsent>>

\* The page is reported, whatever its status, and the flag looked at again.
Report(j) ==
  /\ job[j].at = "report"
  /\ IF project.stopping THEN Load(j, "stop") ELSE Goto(j, "send")
  /\ UNCHANGED <<project, tasks, requests, faults, asked, unsent>>

-----------------------------------------------------------------------------
(* Messages: the next one is sent, then this one is acknowledged.          *)

\* Mutant of Successor: one less, as if the worker of the page counted from zero.
SuccessorShifted(j) ==
  IF job[j].kind = "advance" THEN Message("page", job[j].page - 1, FALSE, FALSE)
  ELSE Message("advance", 0, FALSE, FALSE)

Successor(j) == IF job[j].kind = "advance" THEN Message("page", job[j].page, FALSE, FALSE)
                ELSE Message("advance", 0, FALSE, FALSE)

Send(j) ==
  /\ job[j].at \in {"send", "retry"}
  /\ Slots # {}
  /\ job' = [job EXCEPT ![Slot] = Successor(j), ![j].at = "ack", ![j].seen = NewProject]
  /\ UNCHANGED <<project, tasks, requests, faults, asked, unsent>>

Ack(j) ==
  /\ job[j].at = "ack"
  /\ job' = Dropped({j})
  /\ tasks' = Unclaimed({j})
  /\ UNCHANGED <<project, requests, faults, asked, unsent>>

-----------------------------------------------------------------------------
(* Faults.                                                                 *)

\* An exception outside run_pipeline, caught by the handler.  delay() is inside a try
\* but at the end of process_project_page.
HandlerError(j) ==
  /\ "error" \in Faults /\ faults < MaxFaults
  /\ \/ job[j].at \in {"choose", "build", "open", "retry"}
     \/ job[j].at = "send" /\ job[j].kind # "page"
  /\ Goto(j, "fail")
  /\ faults' = faults + 1
  /\ UNCHANGED <<project, tasks, requests, asked, unsent>>

\* acks_late and reject_on_worker_lost: the message of a lost worker is queued again.
Crash(j) ==
  /\ "crash" \in Faults /\ faults < MaxFaults
  /\ job[j].at \notin {"free", "queued"}
  /\ job' = [job EXCEPT ![j] =
       Message(@.kind, IF @.kind = "page" THEN @.page ELSE 0, @.approved, @.named)]
  /\ faults' = faults + 1
  /\ UNCHANGED <<project, tasks, requests, asked, unsent>>

\* The hard time limit, for which only the run of a page is long enough: the message
\* is acknowledged and nothing follows it.
Lose(j) ==
  /\ "lost" \in Faults /\ faults < MaxFaults
  /\ job[j].at = "running"
  /\ job' = Dropped({j})
  /\ tasks' = Unclaimed({j})
  /\ faults' = faults + 1
  /\ UNCHANGED <<project, requests, asked, unsent>>

\* The broker refuses the message: process_project_page sends it outside its try.
SendFails(j) ==
  /\ "broker" \in Faults /\ faults < MaxFaults
  /\ job[j].at = "send" /\ job[j].kind = "page"
  /\ job' = Dropped({j})
  /\ tasks' = Unclaimed({j})
  /\ faults' = faults + 1
  /\ unsent' = TRUE
  /\ UNCHANGED <<project, requests, asked>>

-----------------------------------------------------------------------------
(* The operators' requests and beat.                                       *)

AtRest == \A j \in Jobs : ~Chain(j)

Request(op) ==
  /\ op \in Requests /\ requests < MaxRequests
  /\ requests' = requests + 1

\* delay() of a request: it may raise, after the handler's commit.
Refused ==
  /\ "broker" \in Faults /\ faults < MaxFaults
  /\ faults' = faults + 1
  /\ unsent' = TRUE
  /\ UNCHANGED job

Queue(message) ==
  \/ /\ Slots # {}
     /\ job' = [job EXCEPT ![Slot] = message]
     /\ unsent' = FALSE
     /\ UNCHANGED faults
  \/ Refused

\* The project's celery_task_id becomes the new message.
QueueNamed(message) ==
  \/ /\ Slots # {}
     /\ job' = [j \in Jobs |-> IF j = Slot THEN message ELSE [job[j] EXCEPT !.named = FALSE]]
     /\ unsent' = FALSE
     /\ UNCHANGED faults
  \/ Refused

StartProject ==
  /\ Request("start")
  /\ project.status = "pending"
  /\ Careful => AtRest
  /\ QueueNamed(Message("start", 0, FALSE, TRUE))
  /\ UNCHANGED <<project, tasks, asked>>

StopProject ==
  /\ Request("stop")
  /\ project.status \in {"pending", "generating"}
  /\ project' = [project EXCEPT !.stopping = TRUE]
  /\ asked' = IF asked = 0 THEN 1 ELSE asked
  /\ UNCHANGED <<tasks, job, faults, unsent>>

ResumeProject ==
  /\ Request("resume")
  /\ project.status = "stopped"
  /\ project' = [project EXCEPT !.status = "generating", !.stopping = FALSE]
  /\ Queue(Message("start", 0, FALSE, FALSE))
  /\ asked' = 0
  /\ UNCHANGED tasks

\* retry-failed looks at the tasks only; its page offers it for a project at rest.
FailedTasks == {t \in DOMAIN tasks : tasks[t].status = "failed"}
RetryFailed ==
  /\ Request("retry")
  /\ FailedTasks # {}
  /\ Careful => AtRest
  /\ tasks' = [t \in DOMAIN tasks |-> IF t \in FailedTasks
                                      THEN [tasks[t] EXCEPT !.status = "pending"]
                                      ELSE tasks[t]]
  /\ project' = [project EXCEPT !.status = "generating", !.stopping = FALSE]
  /\ Queue(Message("start", 0, FALSE, FALSE))
  /\ asked' = 0

ApprovePage ==
  /\ Request("approve")
  /\ project.status = "awaiting_page_approval"
  /\ project' = [project EXCEPT !.status = "generating"]
  /\ Queue(Message("advance", 0, TRUE, FALSE))
  /\ asked' = 0
  /\ UNCHANGED tasks

\* Only the message recorded as the project's is revoked.
ResetStatus ==
  LET revoked == {j \in Jobs : job[j].named} IN
  /\ Request("reset")
  /\ project.status \in {"pending", "generating"}
  /\ Careful => AtRest
  /\ project' = [project EXCEPT !.status = "failed", !.stopping = FALSE]
  /\ job' = Dropped(revoked)
  /\ tasks' = Unclaimed(revoked)
  /\ asked' = 0
  /\ UNCHANGED <<faults, unsent>>

\* cleanup_stale_tasks: a page whose task looks dead, by its heartbeat or by the
\* age of its step, is marked and its message revoked.
MarkStale ==
  \E t \in DOMAIN tasks :
    /\ Request("stale")
    /\ tasks[t].status = "processing"
    /\ LET revoked == {tasks[t].claim} \ {0} IN
       /\ tasks' = [Unclaimed(revoked) EXCEPT ![t].status = "stale"]
       /\ job' = Dropped(revoked)
    /\ UNCHANGED <<project, faults, asked, unsent>>

\* The age it looks at is the project's, not that of its status.
Requeue ==
  /\ Request("requeue")
  /\ project.status = "pending"
  /\ Queue(Message("start", 0, FALSE, FALSE))
  /\ UNCHANGED <<project, tasks, asked>>

-----------------------------------------------------------------------------
(* create_project and launch_project_draft leave a pending project, with a *)
(* message or, if no worker answered the ping, without.                    *)
Init ==
  /\ project = NewProject
  /\ tasks = <<>>
  /\ job \in {[j \in Jobs |-> Free],
              [j \in Jobs |-> IF j = 1 THEN Message("start", 0, FALSE, TRUE) ELSE Free]}
  /\ requests = 0
  /\ faults = 0
  /\ unsent = FALSE
  /\ asked = 0

Work(j) ==
  \/ StartLoad(j) \/ StartCommit(j)
  \/ AdvanceLoad(j) \/ ChooseNone(j) \/ ChoosePage(j) \/ AwaitCommit(j)
  \/ GenerateCommit(j) \/ Build(j) \/ Finish(j)
  \/ PageLoad(j) \/ Reuse(j) \/ CreateTask(j) \/ RunPage(j) \/ PageCompleted(j)
  \/ PageFailed(j) \/ Report(j)
  \/ StopCommit(j) \/ FailCommit(j) \/ Send(j) \/ Ack(j)

Disturb(j) == PageInfra(j) \/ HandlerError(j) \/ Crash(j) \/ Lose(j)
               \/ SendFails(j)

Environment == StartProject \/ StopProject \/ ResumeProject \/ RetryFailed \/ ApprovePage
               \/ ResetStatus \/ MarkStale \/ Requeue

Next == \/ \E j \in Jobs : Work(j) \/ Disturb(j)
        \/ Environment

Spec == Init /\ [][Next]_vars

\* Workers take messages as long as there are some, and every handler ends: a page
\* by its result or an exception.  Faults and requests get no fairness.
FairSpec == Spec /\ \A j \in Jobs : WF_vars(Work(j))

-----------------------------------------------------------------------------
(* Properties.                                                             *)

TypeOK ==
  /\ project \in Project
  /\ tasks \in Seq(Task) /\ Len(tasks) <= MaxTasks
  /\ job \in [Jobs -> Job]
  /\ requests \in 0..MaxRequests
  /\ faults \in 0..MaxFaults
  /\ unsent \in BOOLEAN
  /\ asked \in 0..3

\* A project that is "generating" has a message, queued or with a worker, that is
\* still to write another status or send the next message: "on a page's error the
\* project goes on to the next page" (docs/CURRENT_STATUS.md:562).
ChainAlive == project.status = "generating" => \E j \in Jobs : Chain(j)

\* The chain breaks only where the run of a page is cut off (tasks.py:385), and then
\* the page's task shows it, or where the broker refuses a message, and then a request
\* or a worker has failed visibly: whatever operators request and whichever chains run
\* at once.
CutOff(t) == tasks[t].status \in {"processing", "stale"} /\ tasks[t].claim = 0
ChainAccounted == ChainAlive \/ unsent \/ \E t \in DOMAIN tasks : CutOff(t)

\* The coordinator uses one task per page, through failures, retries and stops: a
\* page is neither written twice nor counted twice (tasks.py:224).
OneTaskPerPage ==
  \A t, u \in DOMAIN tasks : tasks[t].page = tasks[u].page => t = u

\* "Project will stop after current task completes" (projects.py:1429): at most the
\* page whose worker has already looked at the flag begins after a stop request.
StopsAfterCurrentPage == asked <= 2

\* A completed project has its archive and no page left to do.
CompletedHasSite == project.status = "completed" => project.zip /\ OpenPages = {}

\* A generating project comes to rest: it completes, fails, stops or asks its operator.
ProjectRests ==
  project.status = "generating" ~>
    project.status \in {"completed", "failed", "stopped", "awaiting_page_approval"}
=============================================================================
