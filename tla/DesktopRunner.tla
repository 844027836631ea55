---------------------------- MODULE DesktopRunner ----------------------------
(***************************************************************************)
(* Projects on the desktop (app/services/project_runner.py): no Celery but *)
(* one event loop, which launches a project as an asyncio task, waits for  *)
(* a place among CELERY_CONCURRENCY, and runs all its pages in one thread  *)
(* of the executor, with a timeout that ends the waiting but not the       *)
(* thread.  The thread tells the open pages of the browser what happens    *)
(* through app/services/event_bus.py and app/api/sse.py.                   *)
(***************************************************************************)
EXTENDS Naturals, Sequences, FiniteSets

CONSTANTS
  Projects,
  NPages,      \* number of pages of each project's blueprint
  MaxRuns,     \* bound on the asyncio tasks and threads there are at a time
  MaxTasks,    \* bound on the tasks of a project
  Concurrency, \* the values settings.CELERY_CONCURRENCY may have
  QueueSize,   \* capacity of a subscriber's queue (500)
  Requests,    \* operations of operators, browsers and the clean-up loop
  MaxRequests, \* bound on their number
  Faults,      \* subset of {"timeout", "restart", "infra", "error"}
  MaxFaults    \* bound on the number of faults

Pages(p) == 1..NPages[p]
Runs == 1..MaxRuns
None == 0

ASSUME DesktopAssumption ==
  /\ Projects # {}
  /\ NPages \in [Projects -> Nat \ {0}] /\ MaxRuns \in Nat \ {0} /\ MaxTasks \in Nat
  /\ Concurrency \subseteq Nat \ {0} /\ QueueSize \in Nat \ {0}
  /\ MaxRequests \in Nat /\ MaxFaults \in Nat

VARIABLES
  project,   \* the rows: status and stopping_requested
  tasks,     \* the tasks of each project, in the order they were created
  scheduled, \* launches handed to create_task that have not run yet
  running,   \* _running: the run of each project, or None
  run,       \* asyncio task and thread of each run
  stream,    \* the browser's event stream of each project
  abandoned, \* history: a launch or an exception of the project was lost, see Lost
  requests,
  faults,
  places     \* the semaphore's places: set once, see Init

vars == <<project, tasks, scheduled, running, run, stream, abandoned, requests, faults, places>>

-----------------------------------------------------------------------------

ProjectStatus == {"pending", "generating", "completed", "failed", "stopped"}
TaskStatus == {"pending", "processing", "completed", "failed", "stale"}
Row == [status : ProjectStatus, stopping : BOOLEAN]
Task == [page : Nat, status : TaskStatus]

\* aio: the asyncio task.  at: where its thread is in _project_sync.
Aio == {"free", "waiting", "running", "ended"}
Labels == {"none", "start", "begin", "next", "stop", "mark", "open", "run", "running",
           "raised", "returned"}

Run == [aio : Aio, at : Labels, project : Projects, page : Nat,
        task : 0..MaxTasks, seen : Row]

Events == {"log", "done"}
\* wire: put_nowait calls on their way to the loop; lost: a "done" met a full queue;
\* watched: the stream was opened while a run of the project was alive.
Stream == [open : BOOLEAN, wire : Seq(Events), queue : Seq(Events), lost : BOOLEAN,
           watched : BOOLEAN]

Closed == [open |-> FALSE, wire |-> <<>>, queue |-> <<>>, lost |-> FALSE, watched |-> FALSE]

IdleRow == [status |-> "pending", stopping |-> FALSE]
\* What a project is after it was reset or stopped before it opened a page.
ResetRow == [IdleRow EXCEPT !.status = "failed"]
StoppedRow == [IdleRow EXCEPT !.status = "stopped"]
Idle(p) == [aio |-> "free", at |-> "none", project |-> p, page |-> 1, task |-> 0,
            seen |-> IdleRow]

InThread(r) == run[r].at \notin {"none", "raised", "returned"}
\* Mutant of Holders: a thread whose time was up keeps its place.
HoldersThreads == {r \in Runs : run[r].aio = "running" \/ InThread(r)}
Holders == {r \in Runs : run[r].aio = "running"}
FreeRuns == {r \in Runs : run[r].aio = "free" /\ run[r].at = "none"}

\* A commit writes the columns that differ from the copy the session holds.
Commit(r, new, label) ==
  LET p == run[r].project
      old == run[r].seen
  IN /\ project' = [project EXCEPT ![p] =
          [status   |-> IF new.status # old.status THEN new.status ELSE @.status,
           stopping |-> IF new.stopping # old.stopping THEN new.stopping ELSE @.stopping]]
     /\ run' = [run EXCEPT ![r].at = label, ![r].seen = new]

\* The last commit of a thread.  If the session had read the new status already, it
\* writes nothing, though somebody may have changed the row since.
EndRun(r, new) == /\ Commit(r, new, "returned")
                  /\ abandoned' = [abandoned EXCEPT ![run[r].project] =
                                     @ \/ new.status = run[r].seen.status]

Publish(p, events) ==
  stream' = IF stream[p].open THEN [stream EXCEPT ![p].wire = @ \o events] ELSE stream

-----------------------------------------------------------------------------
(* The event loop.                                                         *)

LaunchNew(p) ==
  /\ FreeRuns # {}
  /\ LET r == CHOOSE r \in FreeRuns : \A s \in FreeRuns : r <= s
     IN /\ running' = [running EXCEPT ![p] = r]
        /\ run' = [run EXCEPT ![r] = [Idle(p) EXCEPT !.aio = "waiting"]]
  /\ abandoned' = [abandoned EXCEPT ![p] = FALSE]

\* Mutant of Launch: nobody looks at _running.
LaunchAgain(p) ==
  /\ scheduled[p] > 0
  /\ scheduled' = [scheduled EXCEPT ![p] = @ - 1]
  /\ LaunchNew(p)
  /\ UNCHANGED <<project, tasks, stream, requests, faults, places>>

\* launch_project: a project that is in _running is not launched again.
Over(r) == run[r].aio = "ended" \/ (run[r].aio = "running" /\ ~InThread(r))
Launch(p) ==
  /\ scheduled[p] > 0
  /\ scheduled' = [scheduled EXCEPT ![p] = @ - 1]
  /\ \/ /\ running[p] # None
        /\ abandoned' = [abandoned EXCEPT ![p] = @ \/ Over(running[p])]
        /\ UNCHANGED <<running, run, places>>
     \/ /\ running[p] = None
        /\ LaunchNew(p)
  /\ UNCHANGED <<project, tasks, stream, requests, faults, places>>

\* The semaphore, and a thread of the executor.
Enter(r) ==
  /\ run[r].aio = "waiting"
  /\ Cardinality(Holders) < places
  /\ run' = [run EXCEPT ![r].aio = "running", ![r].at = "start"]
  /\ UNCHANGED <<project, tasks, scheduled, running, stream, abandoned, requests, faults,
                 places>>

Failed(p) == project' = [project EXCEPT ![p].status = "failed"]

\* wait_for has the thread's result.
Return(r) ==
  /\ run[r].aio = "running" /\ run[r].at = "returned"
  /\ run' = [run EXCEPT ![r].aio = "ended", ![r].at = "none"]
  /\ UNCHANGED <<project, tasks, scheduled, running, stream, abandoned, requests, faults,
                 places>>

\* Mutant of Raise: the exception is logged and nothing more.
RaiseLogged(r) ==
  /\ run[r].aio = "running" /\ run[r].at = "raised"
  /\ run' = [run EXCEPT ![r].aio = "ended", ![r].at = "none"]
  /\ UNCHANGED <<project, tasks, scheduled, running, stream, abandoned, requests, faults,
                 places>>

\* ... or the thread's exception: _mark_project_failed_sync.
Raise(r) ==
  /\ run[r].aio = "running" /\ run[r].at = "raised"
  /\ Failed(run[r].project)
  /\ Publish(run[r].project, <<"log">>)
  /\ run' = [run EXCEPT ![r].aio = "ended", ![r].at = "none"]
  /\ UNCHANGED <<tasks, scheduled, running, abandoned, requests, faults, places>>

\* Mutant of Timeout: the place is kept until the thread is through.
TimeoutKept(r) ==
  /\ "timeout" \in Faults
  /\ run[r].aio = "running" /\ InThread(r)
  /\ Failed(run[r].project)
  /\ Publish(run[r].project, <<"log">>)
  /\ UNCHANGED <<tasks, scheduled, running, run, abandoned, requests, faults, places>>

\* ... or CELERY_TASK_TIME_LIMIT has passed: the thread goes on.
Timeout(r) ==
  /\ "timeout" \in Faults
  /\ run[r].aio = "running" /\ InThread(r)
  /\ Failed(run[r].project)
  /\ Publish(run[r].project, <<"log">>)
  /\ run' = [run EXCEPT ![r].aio = "ended"]
  /\ UNCHANGED <<tasks, scheduled, running, abandoned, requests, faults, places>>

\* The done callback.
Forget(r) ==
  /\ run[r].aio = "ended"
  /\ running' = [running EXCEPT ![run[r].project] = None]
  /\ run' = [run EXCEPT ![r].aio = "free"]
  /\ UNCHANGED <<project, tasks, scheduled, stream, abandoned, requests, faults, places>>

\* What becomes of a thread nobody waits for.
Expire(r) ==
  /\ run[r].aio = "free" /\ run[r].at \in {"raised", "returned"}
  /\ run' = [run EXCEPT ![r].at = "none"]
  /\ abandoned' = [abandoned EXCEPT ![run[r].project] = @ \/ run[r].at = "raised"]
  /\ UNCHANGED <<project, tasks, scheduled, running, stream, requests, faults, places>>

-----------------------------------------------------------------------------
(* The thread: _project_sync.                                              *)

Load(r) ==
  /\ run[r].at = "start"
  /\ run' = [run EXCEPT ![r].at = "begin", ![r].seen = project[run[r].project]]
  /\ UNCHANGED <<project, tasks, scheduled, running, stream, abandoned, requests, faults,
                 places>>

Begin(r) ==
  /\ run[r].at = "begin"
  /\ Commit(r, [run[r].seen EXCEPT !.status = "generating"], "next")
  /\ Publish(run[r].project, <<"log">>)
  /\ UNCHANGED <<tasks, scheduled, running, abandoned, requests, faults, places>>

Completed(p, page) == \E t \in DOMAIN tasks[p] : /\ tasks[p][t].page = page
                                                /\ tasks[p][t].status = "completed"

\* Mutant of NextPage: any completed task of the project will do.
NextPageAny(r) ==
  LET p == run[r].project
      skip == ~project[p].stopping /\ \E t \in DOMAIN tasks[p] : tasks[p][t].status = "completed"
  IN /\ run[r].at = "next" /\ run[r].page \in Pages(p)
     /\ run' = [run EXCEPT ![r].seen = project[p],
          ![r].at = IF project[p].stopping THEN "stop" ELSE IF skip THEN "next" ELSE "mark",
          ![r].page = IF skip THEN @ + 1 ELSE @]
     /\ UNCHANGED <<project, tasks, scheduled, running, stream, abandoned, requests, faults,
                 places>>

\* db.refresh, then the flag, then the page.
NextPage(r) ==
  LET p == run[r].project
      skip == ~project[p].stopping /\ Completed(p, run[r].page)
  IN /\ run[r].at = "next" /\ run[r].page \in Pages(p)
     /\ run' = [run EXCEPT ![r].seen = project[p],
          ![r].at = IF project[p].stopping THEN "stop" ELSE IF skip THEN "next" ELSE "mark",
          ![r].page = IF skip THEN @ + 1 ELSE @]
     /\ UNCHANGED <<project, tasks, scheduled, running, stream, abandoned, requests, faults,
                 places>>

\* Mutant of Stop: the status of a stopped task.
StopPaused(r) ==
  /\ run[r].at = "stop"
  /\ EndRun(r, [status |-> "paused", stopping |-> FALSE])
  /\ Publish(run[r].project, <<"log", "done">>)
  /\ UNCHANGED <<tasks, scheduled, running, requests, faults, places>>

Stop(r) ==
  /\ run[r].at = "stop"
  /\ EndRun(r, [status |-> "stopped", stopping |-> FALSE])
  /\ Publish(run[r].project, <<"log", "done">>)
  /\ UNCHANGED <<tasks, scheduled, running, requests, faults, places>>

Mark(r) ==
  /\ run[r].at = "mark"
  /\ Commit(r, [run[r].seen EXCEPT !.status = "generating"], "open")
  /\ UNCHANGED <<tasks, scheduled, running, stream, abandoned, requests, faults, places>>

\* Unlike the workers, the desktop runs a failed page again in every pass.
Reusable(p, page) == {t \in DOMAIN tasks[p] : /\ tasks[p][t].page = page
                                              /\ tasks[p][t].status \in {"pending", "failed"}}

OpenPage(r) ==
  LET p == run[r].project
      page == run[r].page
  IN /\ run[r].at = "open"
     /\ \/ \E t \in Reusable(p, page) :
             /\ tasks' = [tasks EXCEPT ![p][t].status = "pending"]
             /\ run' = [run EXCEPT ![r].at = "run", ![r].task = t, ![r].seen = project[p]]
        \/ /\ Reusable(p, page) = {}
           /\ Len(tasks[p]) < MaxTasks
           /\ tasks' = [tasks EXCEPT ![p] = Append(@, [page |-> page, status |-> "pending"])]
           /\ run' = [run EXCEPT ![r].at = "run", ![r].task = Len(tasks[p]) + 1,
                                 ![r].seen = project[p]]
     /\ Publish(p, <<"log">>)
     /\ UNCHANGED <<project, scheduled, running, abandoned, requests, faults, places>>

SetTask(r, status) == tasks' = [tasks EXCEPT ![run[r].project][run[r].task].status = status]

RunPage(r) ==
  /\ run[r].at = "run"
  /\ SetTask(r, "processing")
  /\ run' = [run EXCEPT ![r].at = "running"]
  /\ UNCHANGED <<project, scheduled, running, stream, abandoned, requests, faults, places>>

Continue(r) ==
  run' = [run EXCEPT ![r].at = "next", ![r].page = @ + 1, ![r].task = 0,
                     ![r].seen = project[run[r].project]]

\* run_pipeline has ended the task, or its exception does.
PageDone(r) ==
  /\ run[r].at = "running"
  /\ SetTask(r, "completed") \/ SetTask(r, "failed")
  /\ Continue(r)
  /\ Publish(run[r].project, <<"log">>)
  /\ UNCHANGED <<project, scheduled, running, abandoned, requests, faults, places>>

\* "Will retry next pass": the page is pending, and the loop goes on.
PageInfra(r) ==
  /\ "infra" \in Faults /\ faults < MaxFaults
  /\ run[r].at \in {"run", "running"}
  /\ SetTask(r, "pending")
  /\ Continue(r)
  /\ Publish(run[r].project, <<"log">>)
  /\ faults' = faults + 1
  /\ UNCHANGED <<project, scheduled, running, abandoned, requests, places>>

\* Any other exception of a page fails the project, if the session can still commit.
PageError(r) ==
  /\ "error" \in Faults /\ faults < MaxFaults
  /\ run[r].at \in {"open", "run"}
  /\ \/ /\ EndRun(r, [run[r].seen EXCEPT !.status = "failed"])
        /\ Publish(run[r].project, <<"log", "done">>)
     \/ /\ run' = [run EXCEPT ![r].at = "raised"]
        /\ UNCHANGED <<project, stream, abandoned, places>>
  /\ faults' = faults + 1
  /\ UNCHANGED <<tasks, scheduled, running, requests, places>>

\* _finalize_project: build_site raises if there is no article.
HasArticle(p) == \E t \in DOMAIN tasks[p] : tasks[p][t].status = "completed"

\* Mutant of Finalize: the project is completed without a "done".
FinalizeSilent(r) ==
  /\ run[r].at = "next" /\ run[r].page > NPages[run[r].project]
  /\ HasArticle(run[r].project)
  /\ EndRun(r, [run[r].seen EXCEPT !.status = "completed"])
  /\ Publish(run[r].project, <<"log">>)
  /\ UNCHANGED <<tasks, scheduled, running, requests, faults, places>>

Finalize(r) ==
  LET p == run[r].project IN
  /\ run[r].at = "next" /\ run[r].page > NPages[p]
  /\ IF HasArticle(p)
     THEN /\ EndRun(r, [run[r].seen EXCEPT !.status = "completed"])
          /\ Publish(p, <<"log", "done">>)
     ELSE /\ run' = [run EXCEPT ![r].at = "raised"]
          /\ UNCHANGED <<project, stream, abandoned, places>>
  /\ UNCHANGED <<tasks, scheduled, running, requests, faults, places>>

-----------------------------------------------------------------------------
(* event_bus.py and sse.py.                                                *)

Deliver(p) ==
  /\ stream[p].wire # <<>>
  /\ LET event == Head(stream[p].wire)
         full == Len(stream[p].queue) >= QueueSize
     IN stream' = [stream EXCEPT ![p].wire = Tail(@),
                     ![p].queue = IF full THEN @ ELSE Append(@, event),
                     ![p].lost = @ \/ (full /\ event = "done")]
  /\ UNCHANGED <<project, tasks, scheduled, running, run, abandoned, requests, faults, places>>

\* The stream yields an event to the browser, and ends with a "done".
Receive(p) ==
  /\ stream[p].queue # <<>>
  /\ stream' = IF Head(stream[p].queue) = "done" THEN [stream EXCEPT ![p] = Closed]
               ELSE [stream EXCEPT ![p].queue = Tail(@)]
  /\ UNCHANGED <<project, tasks, scheduled, running, run, abandoned, requests, faults, places>>

-----------------------------------------------------------------------------
(* Requests, the clean-up loop, and the end of the process.                *)

Request(op) == /\ op \in Requests /\ requests < MaxRequests
               /\ requests' = requests + 1

Schedule(p) == scheduled' = [scheduled EXCEPT ![p] = @ + 1]

StartProject(p) ==
  /\ Request("start")
  /\ project[p].status = "pending"
  /\ Schedule(p)
  /\ UNCHANGED <<project, tasks, running, run, stream, abandoned, faults, places>>

StopProject(p) ==
  /\ Request("stop")
  /\ project[p].status \in {"pending", "generating"}
  /\ project' = [project EXCEPT ![p].stopping = TRUE]
  /\ UNCHANGED <<tasks, scheduled, running, run, stream, abandoned, faults, places>>

ResumeProject(p) ==
  /\ Request("resume")
  /\ project[p].status = "stopped"
  /\ project' = [project EXCEPT ![p] = [status |-> "generating", stopping |-> FALSE]]
  /\ Schedule(p)
  /\ UNCHANGED <<tasks, running, run, stream, abandoned, faults, places>>

FailedTasks(p) == {t \in DOMAIN tasks[p] : tasks[p][t].status = "failed"}
RetryFailed(p) ==
  /\ Request("retry")
  /\ FailedTasks(p) # {}
  /\ tasks' = [tasks EXCEPT ![p] = [t \in DOMAIN @ |->
                 IF t \in FailedTasks(p) THEN [@[t] EXCEPT !.status = "pending"] ELSE @[t]]]
  /\ project' = [project EXCEPT ![p] = [status |-> "generating", stopping |-> FALSE]]
  /\ Schedule(p)
  /\ UNCHANGED <<running, run, stream, abandoned, faults, places>>

\* Nothing is revoked on the desktop.
ResetStatus(p) ==
  /\ Request("reset")
  /\ project[p].status \in {"pending", "generating"}
  /\ project' = [project EXCEPT ![p] = [status |-> "failed", stopping |-> FALSE]]
  /\ UNCHANGED <<tasks, scheduled, running, run, stream, abandoned, faults, places>>

Subscribe(p) ==
  /\ Request("subscribe")
  /\ ~stream[p].open
  /\ stream' = [stream EXCEPT ![p] = [Closed EXCEPT !.open = TRUE,
                  !.watched = \E r \in Runs : run[r].project = p /\ InThread(r)]]
  /\ UNCHANGED <<project, tasks, scheduled, running, run, abandoned, faults, places>>

\* _cleanup_stale_sync
MarkStale(p) ==
  /\ Request("stale")
  /\ \E t \in DOMAIN tasks[p] :
       /\ tasks[p][t].status = "processing"
       /\ tasks' = [tasks EXCEPT ![p][t].status = "stale"]
  /\ UNCHANGED <<project, scheduled, running, run, stream, abandoned, faults, places>>

\* The application ends and starts again: nothing takes up what was running.
Restart ==
  /\ "restart" \in Faults /\ faults < MaxFaults
  /\ scheduled' = [p \in Projects |-> 0]
  /\ running' = [p \in Projects |-> None]
  /\ run' = [r \in Runs |-> Idle(CHOOSE p \in Projects : TRUE)]
  /\ stream' = [p \in Projects |-> Closed]
  /\ abandoned' = [p \in Projects |-> TRUE]
  /\ faults' = faults + 1
  /\ UNCHANGED <<project, tasks, requests, places>>

-----------------------------------------------------------------------------
(* create_project launches the project at once, clone_project does not.  A  *)
(* project may have been reset or stopped before it opened a page; of the    *)
(* requests and faults that are counted some may be behind us.               *)
Init ==
  /\ project \in [Projects -> {IdleRow, ResetRow, StoppedRow}]
  /\ tasks = [p \in Projects |-> <<>>]
  /\ \E launched \in SUBSET {p \in Projects : project[p] = IdleRow} :
       scheduled = [p \in Projects |-> IF p \in launched THEN 1 ELSE 0]
  /\ running = [p \in Projects |-> None]
  /\ run = [r \in Runs |-> Idle(CHOOSE p \in Projects : TRUE)]
  /\ stream = [p \in Projects |-> Closed]
  /\ abandoned = [p \in Projects |-> FALSE]
  /\ requests \in 0..MaxRequests
  /\ faults \in 0..MaxFaults
  /\ places \in Concurrency

Thread(r) == \/ Load(r) \/ Begin(r) \/ NextPage(r) \/ Stop(r) \/ Mark(r) \/ OpenPage(r)
             \/ RunPage(r) \/ PageDone(r) \/ Finalize(r)

Loop(r) == Enter(r) \/ Return(r) \/ Raise(r) \/ Forget(r) \/ Expire(r)
Bus(p) == Deliver(p) \/ Receive(p)

Disturb(r) == Timeout(r) \/ PageInfra(r) \/ PageError(r)
Environment(p) == \/ StartProject(p) \/ StopProject(p) \/ ResumeProject(p) \/ RetryFailed(p)
                  \/ ResetStatus(p) \/ Subscribe(p) \/ MarkStale(p)

Next == \/ \E r \in Runs : Thread(r) \/ Loop(r) \/ Disturb(r)
        \/ \E p \in Projects : Launch(p) \/ Bus(p) \/ Environment(p)
        \/ Restart

Spec == Init /\ [][Next]_vars

\* The loop runs what is ready, the timer fires, the semaphore serves its waiters in turn,
\* and threads run; but a page may hang in a call to a provider.
Fairness == /\ \A r \in Runs : /\ WF_vars(Thread(r) /\ ~PageDone(r))
                               /\ WF_vars(Timeout(r)) /\ SF_vars(Enter(r))
                               /\ WF_vars(Return(r) \/ Raise(r) \/ Forget(r) \/ Expire(r))
            /\ \A p \in Projects : WF_vars(Launch(p)) /\ WF_vars(Bus(p))

FairSpec == Spec /\ Fairness

-----------------------------------------------------------------------------
(* Properties.                                                             *)

TypeOK ==
  /\ project \in [Projects -> Row]
  /\ tasks \in [Projects -> Seq(Task)]
  /\ \A p \in Projects : /\ Len(tasks[p]) <= MaxTasks
                         /\ \A t \in DOMAIN tasks[p] : tasks[p][t].page \in Pages(p)
  /\ scheduled \in [Projects -> 0..(MaxRequests + 1)]
  /\ running \in [Projects -> Runs \cup {None}]
  /\ run \in [Runs -> Run]
  /\ \A r \in Runs : run[r].page \in 1..(NPages[run[r].project] + 1)
  /\ stream \in [Projects -> Stream]
  /\ abandoned \in [Projects -> BOOLEAN]
  /\ requests \in 0..MaxRequests
  /\ faults \in 0..MaxFaults
  /\ places \in Concurrency

\* "Idempotent" (project_runner.py:36): however often a project is launched, one thread
\* at a time works on it, besides those whose time was up.
Awaited(r) == run[r].aio = "running" /\ InThread(r)
OneThread == \A r, s \in Runs : Awaited(r) /\ Awaited(s) /\ run[r].project = run[s].project
                                  => r = s

\* A generating project has a launch to come or a run that will end it: what gets lost are
\* the launches that meet a run with nothing left to do (project_runner.py:37), the
\* exceptions of threads whose time was up, an end that writes nothing (see EndRun), and
\* whatever the process was doing at its end.
Served(p) == \/ scheduled[p] > 0
             \/ \E r \in Runs : /\ run[r].project = p
                                /\ \/ run[r].aio = "waiting"
                                   \/ InThread(r)
                                   \/ run[r].at = "raised"

GeneratingServed == \A p \in Projects :
                      project[p].status = "generating" => Served(p) \/ abandoned[p]

\* However projects are stopped, resumed, retried, reset and timed out, a completed one
\* has opened a task of every page (project_runner.py:345-383).
PagesTried == \A p \in Projects : project[p].status = "completed" =>
                \A page \in Pages(p) : \E t \in DOMAIN tasks[p] : tasks[p][t].page = page

\* A browser that watches a project run hears that it is over: the "done" is on its way,
\* unless the project was failed from outside the thread (project_runner.py:144) or the
\* queue was full (event_bus.py:36).
Ended(p) == /\ \A r \in Runs : run[r].project = p => run[r].aio # "waiting" /\ ~InThread(r)
                                                      /\ run[r].at # "raised"
            /\ scheduled[p] = 0

Coming(p) == stream[p].wire \o stream[p].queue
StreamTold ==
  \A p \in Projects :
    stream[p].open /\ stream[p].watched /\ Ended(p)
    => \/ project[p].status = "failed" \/ abandoned[p] \/ stream[p].lost
       \/ \E i \in DOMAIN Coming(p) : Coming(p)[i] = "done"

\* The places of the semaphore go round: one is given back even if a page hangs
\* (project_runner.py:76), and so a launch gives its project a thread in the end, though all
\* were taken; unless it is lost as GeneratingServed says.
PlacesGoRound ==
  /\ \A r \in Runs : run[r].aio = "running" ~> run[r].aio # "running"
  /\ \A p \in Projects :
       scheduled[p] > 0 ~> \/ \E r \in Runs : run[r].project = p /\ InThread(r)
                           \/ abandoned[p]
=============================================================================
