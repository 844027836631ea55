-------------------------- MODULE DesktopRunnerProofs --------------------------
(* Theorems about DesktopRunner for any number of projects, pages, threads and  *)
(* requests: type correctness, one thread for a project at a time, every page   *)
(* of a completed project tried, a generating project served, and the "done"    *)
(* of a watched run on its way to the browser.                                  *)
EXTENDS DesktopRunner, WellFoundedInduction, TLAPS

-----------------------------------------------------------------------------
(* The inductive invariant.  A run is at a page that exists, with a task of   *)
(* that page, and every page before has a task; _running and the asyncio      *)
(* tasks name each other.                                                     *)

Opened(p, page) == \E t \in DOMAIN tasks[p] : tasks[p][t].page = page

Fits(m) ==
  /\ m.page \in 1..(NPages[m.project] + 1)
  /\ m.at \in {"stop", "mark", "open", "run", "running"} => m.page \in Pages(m.project)
  /\ m.at \in {"run", "running"} =>
       m.task \in DOMAIN tasks[m.project] /\ tasks[m.project][m.task].page = m.page
  /\ \A page \in 1..(m.page - 1) : Opened(m.project, page)

TasksOk ==
  /\ tasks \in [Projects -> Seq(Task)]
  /\ \A p \in Projects : /\ Len(tasks[p]) <= MaxTasks
                         /\ \A t \in DOMAIN tasks[p] : tasks[p][t].page \in Pages(p)

RunsOk == run \in [Runs -> Run] /\ \A r \in Runs : Fits(run[r])

TypeInv ==
  /\ project \in [Projects -> Row] /\ TasksOk /\ RunsOk
  /\ scheduled \in [Projects -> Nat] /\ \A p \in Projects : scheduled[p] <= requests + 1
  /\ running \in [Projects -> Runs \cup {None}]
  /\ stream \in [Projects -> Stream] /\ abandoned \in [Projects -> BOOLEAN]
  /\ requests \in 0..MaxRequests /\ faults \in 0..MaxFaults /\ places \in Concurrency

Linked ==
  /\ \A r \in Runs : run[r].aio # "free" => running[run[r].project] = r
  /\ \A p \in Projects : running[p] # None =>
       run[running[p]].project = p /\ run[running[p]].aio # "free"

\* The properties, a project at a time.
ServedOk(p) == project[p].status = "generating" => Served(p) \/ abandoned[p]
AllOpened(p) == \A page \in Pages(p) : Opened(p, page)

HasDone(p) == \/ \E i \in DOMAIN stream[p].wire : stream[p].wire[i] = "done"
              \/ \E i \in DOMAIN stream[p].queue : stream[p].queue[i] = "done"

ToldOk(p) == stream[p].open /\ stream[p].watched /\ Ended(p)
             => project[p].status = "failed" \/ abandoned[p] \/ stream[p].lost \/ HasDone(p)

TriedOk(p) == project[p].status = "completed" => AllOpened(p)

DesktopInv ==
  /\ TypeInv /\ Linked
  /\ \A p \in Projects : ServedOk(p)
  /\ \A p \in Projects : TriedOk(p)
  /\ \A p \in Projects : ToldOk(p)

-----------------------------------------------------------------------------
(* Lemmas about tasks, runs and streams.                                   *)

LEMMA Bounds == /\ NPages \in [Projects -> Nat \ {0}] /\ MaxTasks \in Nat /\ MaxRuns \in Nat \ {0}
                /\ MaxRequests \in Nat /\ MaxFaults \in Nat /\ None \notin Runs
BY DesktopAssumption DEF Runs, None

\* Tasks change their status and get more; none loses its page.
Grown == \A p \in Projects :
           /\ DOMAIN tasks[p] \subseteq DOMAIN tasks'[p]
           /\ \A t \in DOMAIN tasks[p] : tasks'[p][t].page = tasks[p][t].page

LEMMA SameTasks ==
  ASSUME tasks' = tasks
  PROVE  Grown /\ (TasksOk => TasksOk')
BY DEF Grown, TasksOk

LEMMA StatusSet ==
  ASSUME TasksOk, NEW p \in Projects, NEW t \in DOMAIN tasks[p], NEW status \in TaskStatus,
         tasks' = [tasks EXCEPT ![p][t].status = status]
  PROVE  Grown /\ TasksOk'
<1> DEFINE new == [tasks[p] EXCEPT ![t].status = status]
<1>1. tasks[p] \in Seq(Task) /\ Len(tasks[p]) \in Nat /\ DOMAIN tasks[p] = 1..Len(tasks[p])
      /\ \A i \in DOMAIN tasks[p] : tasks[p][i] \in Task
  BY DEF TasksOk
<1>2. new \in Seq(Task) /\ Len(new) = Len(tasks[p]) /\ DOMAIN new = DOMAIN tasks[p]
      /\ \A i \in DOMAIN tasks[p] : new[i].page = tasks[p][i].page
  BY <1>1 DEF Task
<1>3. tasks' = [tasks EXCEPT ![p] = new]
  OBVIOUS
<1> HIDE DEF new
<1>4. tasks \in [Projects -> Seq(Task)]
  BY DEF TasksOk
<1>5. tasks'[p] = new /\ \A q \in Projects : q # p => tasks'[q] = tasks[q]
  BY <1>3, <1>4
<1>6. tasks' \in [Projects -> Seq(Task)]
  BY <1>2, <1>3, <1>4
<1>7. QED
  BY <1>2, <1>5, <1>6 DEF Grown, TasksOk

LEMMA TaskAppended ==
  ASSUME TasksOk, NEW p \in Projects, NEW page \in Pages(p), NEW status \in TaskStatus,
         Len(tasks[p]) < MaxTasks,
         tasks' = [tasks EXCEPT ![p] = Append(@, [page |-> page, status |-> status])]
  PROVE  /\ Grown /\ TasksOk'
         /\ Len(tasks[p]) + 1 \in DOMAIN tasks'[p] /\ tasks'[p][Len(tasks[p]) + 1].page = page
<1> DEFINE row == [page |-> page, status |-> status]
           new == Append(tasks[p], row)
<1>1. tasks[p] \in Seq(Task) /\ Len(tasks[p]) \in Nat /\ DOMAIN tasks[p] = 1..Len(tasks[p])
  BY DEF TasksOk
<1>2. row \in Task /\ row.page = page
  BY Bounds DEF Task, Pages
<1> HIDE DEF row
<1>3. new \in Seq(Task) /\ Len(new) = Len(tasks[p]) + 1 /\ DOMAIN new = 1..(Len(tasks[p]) + 1)
      /\ new[Len(tasks[p]) + 1] = row /\ \A i \in DOMAIN tasks[p] : new[i] = tasks[p][i]
  BY <1>1, <1>2
<1>4. tasks' = [tasks EXCEPT ![p] = new]
  BY DEF row
<1> HIDE DEF new
<1>5. tasks \in [Projects -> Seq(Task)]
  BY DEF TasksOk
<1>6. tasks'[p] = new /\ \A q \in Projects : q # p => tasks'[q] = tasks[q]
  BY <1>4, <1>5
<1>7. tasks' \in [Projects -> Seq(Task)]
  BY <1>3, <1>4, <1>5
<1>8. Grown
  BY <1>1, <1>3, <1>6 DEF Grown
<1>9. Len(tasks'[p]) <= MaxTasks
  BY <1>1, <1>3, <1>6, Bounds
<1>10. \A t \in DOMAIN tasks'[p] : tasks'[p][t].page \in Pages(p)
  BY <1>1, <1>2, <1>3, <1>6 DEF TasksOk
<1>11. TasksOk'
  BY <1>6, <1>7, <1>9, <1>10 DEF TasksOk
<1>12. QED
  BY <1>1, <1>2, <1>3, <1>6, <1>8, <1>11

LEMMA StillFits ==
  ASSUME TasksOk, Grown, NEW m \in Run, Fits(m)
  PROVE  Fits(m)'
<1>1. m.project \in Projects
  BY DEF Run
<1>2. \A page : Opened(m.project, page) => Opened(m.project, page)'
  BY <1>1 DEF Opened, Grown
<1>3. m.at \in {"run", "running"} =>
        m.task \in DOMAIN tasks'[m.project] /\ tasks'[m.project][m.task].page = m.page
  BY <1>1 DEF Fits, Grown
<1>4. QED
  BY <1>2, <1>3 DEF Fits, Pages

\* One run changes, the tasks grow.
LEMMA OneRun ==
  ASSUME TypeInv, Grown, NEW r \in Runs, NEW m \in Run, Fits(m)', run' = [run EXCEPT ![r] = m]
  PROVE  /\ RunsOk' /\ run'[r] = m
         /\ \A s \in Runs : s # r => run'[s] = run[s]
<1>1. run \in [Runs -> Run] /\ TasksOk
  BY DEF TypeInv, RunsOk
<1>2. run' \in [Runs -> Run] /\ run'[r] = m /\ \A s \in Runs : s # r => run'[s] = run[s]
  BY <1>1
<1>3. \A s \in Runs : s # r => Fits(run[s])'
  <2>1. ASSUME NEW s \in Runs, s # r
        PROVE  Fits(run[s])'
    <3>1. PICK k \in Run : k = run[s] /\ Fits(k)
      BY <1>1 DEF TypeInv, RunsOk
    <3>2. Fits(k)' /\ run'[s] = k
      BY <1>1, <1>2, <2>1, <3>1, StillFits
    <3>3. QED
      BY <3>2 DEF Fits, Opened, Pages
  <2>2. QED
    BY <2>1
<1>4. Fits(run[r])'
  BY <1>2 DEF Fits, Opened, Pages
<1>5. QED
  BY <1>2, <1>3, <1>4 DEF RunsOk

-----------------------------------------------------------------------------
(* A step that concerns one project and leaves _running alone.             *)

LEMMA OnlyProject ==
  ASSUME DesktopInv, NEW p \in Projects, RunsOk', TasksOk', Grown,
         \A s \in Runs : run'[s].project = run[s].project,
         \A s \in Runs : run'[s].aio = "free" <=> run[s].aio = "free",
         \A s \in Runs : run[s].project # p => run'[s] = run[s],
         \A q \in Projects : q # p => /\ project'[q] = project[q] /\ stream'[q] = stream[q]
                                     /\ scheduled'[q] = scheduled[q]
                                     /\ abandoned'[q] = abandoned[q],
         project' \in [Projects -> Row], stream' \in [Projects -> Stream],
         abandoned' \in [Projects -> BOOLEAN], scheduled' \in [Projects -> Nat],
         scheduled'[p] <= requests' + 1, requests' \in requests..MaxRequests,
         faults' \in 0..MaxFaults, running' = running, places' = places,
         project'[p].status = "completed" => project[p].status = "completed" \/ AllOpened(p),
         ServedOk(p)', ToldOk(p)'
  PROVE  DesktopInv'
<1>1. /\ running \in [Projects -> Runs \cup {None}] /\ requests \in Nat
      /\ \A q \in Projects : scheduled[q] \in Nat /\ scheduled[q] <= requests + 1
      /\ requests' \in Nat /\ requests <= requests' /\ requests' <= MaxRequests
  BY Bounds DEF DesktopInv, TypeInv
<1>2. \A q \in Projects : scheduled'[q] <= requests' + 1
  BY <1>1
<1>3. TypeInv'
  BY <1>1, <1>2 DEF TypeInv, DesktopInv
<1>4. Linked'
  BY <1>1 DEF Linked, DesktopInv, None
<1>5. ASSUME NEW q \in Projects, q # p
      PROVE  (ServedOk(q) => ServedOk(q)') /\ (ToldOk(q) => ToldOk(q)')
  <2>1. \A s \in Runs : run'[s].project = q <=> run[s].project = q
    OBVIOUS
  <2>2. \A s \in Runs : run[s].project = q => run'[s] = run[s]
    BY <1>5
  <2>3. ServedOk(q) => ServedOk(q)'
    BY <1>5, <2>1, <2>2 DEF ServedOk, Served, InThread
  <2>4. ToldOk(q) => ToldOk(q)'
    BY <1>5, <2>1, <2>2 DEF ToldOk, Ended, HasDone, InThread
  <2>5. QED
    BY <2>3, <2>4
<1>6. \A q \in Projects : AllOpened(q) => AllOpened(q)'
  BY DEF AllOpened, Opened, Grown
<1>7. \A q \in Projects : TriedOk(q)'
  BY <1>6 DEF TriedOk, DesktopInv
<1>8. \A q \in Projects : ServedOk(q)'
  BY <1>5 DEF DesktopInv
<1>9. \A q \in Projects : ToldOk(q)'
  BY <1>5 DEF DesktopInv
<1>10. QED
  BY <1>3, <1>4, <1>7, <1>8, <1>9 DEF DesktopInv

LEMMA Typed ==
  ASSUME DesktopInv
  PROVE  /\ project \in [Projects -> Row] /\ TasksOk /\ RunsOk /\ run \in [Runs -> Run]
         /\ scheduled \in [Projects -> Nat] /\ \A p \in Projects : scheduled[p] <= requests + 1
         /\ running \in [Projects -> Runs \cup {None}]
         /\ stream \in [Projects -> Stream] /\ abandoned \in [Projects -> BOOLEAN]
         /\ requests \in Nat /\ requests \in requests..MaxRequests /\ faults \in 0..MaxFaults
         /\ \A r \in Runs : run[r].project \in Projects /\ Fits(run[r])
BY Bounds DEF DesktopInv, TypeInv, RunsOk, Run

\* A publication reaches the stream of its project, if it is open.
LEMMA Published ==
  ASSUME stream \in [Projects -> Stream], NEW p \in Projects, NEW events \in Seq(Events),
         Publish(p, events)
  PROVE  /\ stream' \in [Projects -> Stream]
         /\ \A q \in Projects : q # p => stream'[q] = stream[q]
         /\ stream'[p].open => /\ stream[p].open /\ stream'[p].wire = stream[p].wire \o events
                               /\ stream'[p].watched = stream[p].watched
<1> DEFINE wire == stream[p].wire \o events
           new == [stream[p] EXCEPT !.wire = wire]
<1>1. stream[p] \in Stream
  OBVIOUS
<1>2. wire \in Seq(Events)
  BY <1>1 DEF Stream
<1> HIDE DEF wire
<1>3. new \in Stream /\ new.wire = wire /\ new.open = stream[p].open /\ new.watched = stream[p].watched
  BY <1>1, <1>2 DEF Stream
<1> HIDE DEF new
<1>4. CASE stream[p].open
  <2>1. stream' = [stream EXCEPT ![p] = new]
    BY <1>4 DEF Publish, new, wire
  <2>2. QED
    BY <1>3, <1>4, <2>1 DEF wire
<1>5. CASE ~stream[p].open
  BY <1>5 DEF Publish
<1>6. QED
  BY <1>4, <1>5

LEMMA TwoEvents == <<"log">> \in Seq(Events) /\ <<"log", "done">> \in Seq(Events)
BY DEF Events

\* A commit of a session that holds a copy of the row.
LEMMA Committed ==
  ASSUME DesktopInv, NEW r \in Runs, NEW new \in Row, NEW label, Commit(r, new, label)
  PROVE  /\ project' \in [Projects -> Row]
         /\ \A q \in Projects : q # run[r].project => project'[q] = project[q]
         /\ project'[run[r].project].status \in {project[run[r].project].status, new.status}
         /\ new.status # run[r].seen.status => project'[run[r].project].status = new.status
         /\ run' = [run EXCEPT ![r] = [run[r] EXCEPT !.at = label, !.seen = new]]
<1> DEFINE p == run[r].project
           old == run[r].seen
           status == IF new.status # old.status THEN new.status ELSE project[p].status
           stopping == IF new.stopping # old.stopping THEN new.stopping ELSE project[p].stopping
           row == [status |-> status, stopping |-> stopping]
<1>1. /\ p \in Projects /\ project \in [Projects -> Row] /\ project[p] \in Row
      /\ run' = [run EXCEPT ![r] = [run[r] EXCEPT !.at = label, !.seen = new]]
  BY Typed DEF Commit
<1>2. project' = [project EXCEPT ![p] = row]
  BY DEF Commit
<1>3. /\ status \in ProjectStatus /\ status \in {project[p].status, new.status}
      /\ new.status # old.status => status = new.status
  BY <1>1 DEF Row
<1>4. stopping \in BOOLEAN
  BY <1>1 DEF Row
<1> HIDE DEF status, stopping
<1>5. row \in Row /\ row.status = status
  BY <1>3, <1>4 DEF Row
<1> HIDE DEF row
<1>6. project' \in [Projects -> Row] /\ project'[p] = row
      /\ \A q \in Projects : q # p => project'[q] = project[q]
  BY <1>1, <1>2, <1>5
<1>7. QED
  BY <1>1, <1>3, <1>5, <1>6

\* Steps of a run that leave it with something to do.
LEMMA KeepsGoing ==
  ASSUME DesktopInv, NEW r \in Runs, NEW m \in Run, run' = [run EXCEPT ![r] = m],
         m.project = run[r].project, m.aio = "free" <=> run[r].aio = "free",
         m.at \notin {"none", "returned"}, Fits(m)', TasksOk', Grown,
         project' \in [Projects -> Row], stream' \in [Projects -> Stream],
         \A q \in Projects : q # run[r].project => project'[q] = project[q]
                                                   /\ stream'[q] = stream[q],
         project'[run[r].project].status = "completed" =>
           project[run[r].project].status = "completed",
         UNCHANGED <<scheduled, running, abandoned, requests, places>>, faults' \in 0..MaxFaults
  PROVE  DesktopInv'
<1> DEFINE p == run[r].project
<1>1. p \in Projects
  BY Typed
<1>2. RunsOk' /\ run'[r] = m /\ \A s \in Runs : s # r => run'[s] = run[s]
  BY OneRun DEF DesktopInv
<1>3. ServedOk(p)'
  BY <1>1, <1>2 DEF ServedOk, Served, InThread
<1>4. ToldOk(p)'
  BY <1>1, <1>2 DEF ToldOk, Ended, InThread
<1>5. QED
  BY <1>1, <1>2, <1>3, <1>4, OnlyProject, Typed

\* ... and which has nothing to say and changes no row and no task.
LEMMA KeepsQuiet ==
  ASSUME DesktopInv, NEW r \in Runs, NEW m \in Run, run' = [run EXCEPT ![r] = m],
         m.project = run[r].project, m.aio = "free" <=> run[r].aio = "free",
         m.at \notin {"none", "returned"}, Fits(m),
         UNCHANGED <<project, tasks, scheduled, running, stream, abandoned, requests, faults,
                     places>>
  PROVE  DesktopInv'
<1>1. Grown /\ TasksOk /\ TasksOk'
  BY SameTasks, Typed
<1>2. Fits(m)'
  BY <1>1, StillFits
<1>3. QED
  BY <1>1, <1>2, KeepsGoing, Typed

LEMMA EnterStep == ASSUME DesktopInv, NEW r \in Runs, Enter(r) PROVE DesktopInv'
<1> DEFINE m == [run[r] EXCEPT !.aio = "running", !.at = "start"]
<1>1. run[r] \in Run /\ Fits(run[r]) /\ run[r].aio = "waiting"
  BY Typed DEF Enter
<1>2. /\ m \in Run /\ m.project = run[r].project /\ m.aio = "running" /\ m.at = "start"
      /\ m.page = run[r].page
  BY <1>1 DEF Run, Aio, Labels
<1>3. run' = [run EXCEPT ![r] = m]
  BY DEF Enter
<1> HIDE DEF m
<1>4. Fits(m)
  BY <1>1, <1>2 DEF Fits
<1>5. QED
  BY <1>1, <1>2, <1>3, <1>4, KeepsQuiet DEF Enter

LEMMA LoadStep == ASSUME DesktopInv, NEW r \in Runs, Load(r) PROVE DesktopInv'
<1> DEFINE m == [run[r] EXCEPT !.at = "begin", !.seen = project[run[r].project]]
<1>1. run[r] \in Run /\ Fits(run[r]) /\ project[run[r].project] \in Row
  BY Typed
<1>2. /\ m \in Run /\ m.project = run[r].project /\ m.aio = run[r].aio /\ m.at = "begin"
      /\ m.page = run[r].page
  BY <1>1 DEF Run, Labels
<1>3. run' = [run EXCEPT ![r] = m]
  BY DEF Load
<1> HIDE DEF m
<1>4. Fits(m)
  BY <1>1, <1>2 DEF Fits
<1>5. QED
  BY <1>1, <1>2, <1>3, <1>4, KeepsQuiet DEF Load

\* A session that writes "generating", at the first page or before any page.
LEMMA CommitGoesOn ==
  ASSUME DesktopInv, NEW r \in Runs, NEW label \in {"next", "open"},
         Commit(r, [run[r].seen EXCEPT !.status = "generating"], label),
         label = "open" => run[r].page \in Pages(run[r].project),
         stream' \in [Projects -> Stream],
         \A q \in Projects : q # run[r].project => stream'[q] = stream[q],
         UNCHANGED <<tasks, scheduled, running, abandoned, requests, faults, places>>
  PROVE  DesktopInv'
<1>1. run[r] \in Run /\ Fits(run[r]) /\ run[r].seen \in Row
  BY Typed DEF Run
<1>2. PICK new \in Row : new = [run[r].seen EXCEPT !.status = "generating"]
  BY <1>1 DEF Row, ProjectStatus
<1>3. new.status = "generating" /\ Commit(r, new, label)
  BY <1>1, <1>2 DEF Row
<1>4. PICK m \in Run : m = [run[r] EXCEPT !.at = label, !.seen = new]
  BY <1>1 DEF Run, Labels
<1>5. /\ m.project = run[r].project /\ m.aio = run[r].aio /\ m.at = label
      /\ m.page = run[r].page
  BY <1>1, <1>4 DEF Run
<1>6. /\ project' \in [Projects -> Row]
      /\ \A q \in Projects : q # run[r].project => project'[q] = project[q]
      /\ project'[run[r].project].status \in {project[run[r].project].status, new.status}
      /\ run' = [run EXCEPT ![r] = m]
  <2>1. Commit(r, new, label)
    BY <1>3, SMTT(30)
  <2>2. /\ project' \in [Projects -> Row]
        /\ \A q \in Projects : q # run[r].project => project'[q] = project[q]
        /\ project'[run[r].project].status \in {project[run[r].project].status, new.status}
        /\ run' = [run EXCEPT ![r] = [run[r] EXCEPT !.at = label, !.seen = new]]
    BY <2>1, Committed
  <2>3. QED
    BY <1>4, <2>2
<1>7. Fits(m) /\ Grown /\ TasksOk /\ TasksOk'
  BY <1>1, <1>5, SameTasks, Typed DEF Fits
<1>8. Fits(m)'
  BY <1>7, StillFits
<1>9. QED
  BY <1>3, <1>5, <1>6, <1>7, <1>8, KeepsGoing, Typed

LEMMA BeginStep == ASSUME DesktopInv, NEW r \in Runs, Begin(r) PROVE DesktopInv'
<1>1. /\ stream' \in [Projects -> Stream]
      /\ \A q \in Projects : q # run[r].project => stream'[q] = stream[q]
  BY Typed, Published, TwoEvents DEF Begin
<1>2. QED
  BY <1>1, CommitGoesOn DEF Begin

LEMMA MarkStep == ASSUME DesktopInv, NEW r \in Runs, Mark(r) PROVE DesktopInv'
BY CommitGoesOn, Typed DEF Mark, Fits

LEMMA NextPageStep == ASSUME DesktopInv, NEW r \in Runs, NextPage(r) PROVE DesktopInv'
<1> DEFINE p == run[r].project
           skip == ~project[p].stopping /\ Completed(p, run[r].page)
           at == IF project[p].stopping THEN "stop" ELSE IF skip THEN "next" ELSE "mark"
           page == IF skip THEN run[r].page + 1 ELSE run[r].page
           m == [run[r] EXCEPT !.seen = project[p], !.at = at, !.page = page]
<1>1. /\ run[r] \in Run /\ Fits(run[r]) /\ project[p] \in Row /\ p \in Projects
      /\ run[r].page \in Pages(p) /\ NPages[p] \in Nat
  BY Typed, Bounds DEF NextPage
<1>2. run' = [run EXCEPT ![r] = m]
  BY DEF NextPage
<1>3. at \in {"stop", "next", "mark"} /\ (at # "next" => page = run[r].page)
  OBVIOUS
<1>4. page \in 1..(NPages[p] + 1)
      /\ \/ page = run[r].page
         \/ page = run[r].page + 1 /\ Opened(p, run[r].page)
  BY <1>1 DEF Pages, Opened, Completed
<1> HIDE DEF at, page, skip
<1>5. m \in Run /\ m.project = p /\ m.aio = run[r].aio /\ m.at = at /\ m.page = page
  <2>1. at \in Labels /\ page \in Nat
    BY <1>1, <1>3, <1>4 DEF Labels
  <2>2. QED
    BY <1>1, <2>1 DEF Run
<1> HIDE DEF m
<1>6. \A i \in 1..(page - 1) : Opened(p, i)
  BY <1>1, <1>4 DEF Fits, Pages
<1>7. Fits(m)
  BY <1>1, <1>3, <1>4, <1>5, <1>6 DEF Fits
<1>8. QED
  BY <1>1, <1>2, <1>3, <1>5, <1>7, KeepsQuiet DEF NextPage

LEMMA RunsOn ==
  ASSUME DesktopInv, NEW r \in Runs, NEW m \in Run, run' = [run EXCEPT ![r] = m],
         m.project = run[r].project, m.aio = run[r].aio, m.at \notin {"none", "returned"},
         Fits(m)', TasksOk', Grown, stream' \in [Projects -> Stream],
         \A q \in Projects : q # run[r].project => stream'[q] = stream[q],
         UNCHANGED <<project, scheduled, running, abandoned, requests, places>>,
         faults' \in 0..MaxFaults
  PROVE  DesktopInv'
BY KeepsGoing, Typed

LEMMA OpenPageStep == ASSUME DesktopInv, NEW r \in Runs, OpenPage(r) PROVE DesktopInv'
<1> DEFINE p == run[r].project
           page == run[r].page
<1>1. /\ run[r] \in Run /\ Fits(run[r]) /\ p \in Projects /\ project[p] \in Row
      /\ page \in Pages(p) /\ run[r].at = "open" /\ TasksOk
      /\ UNCHANGED <<project, scheduled, running, abandoned, requests, faults, places>>
  BY Typed DEF OpenPage, Fits
<1>2. /\ stream' \in [Projects -> Stream] /\ faults' \in 0..MaxFaults
      /\ \A q \in Projects : q # p => stream'[q] = stream[q]
  BY Typed, Published, TwoEvents DEF OpenPage
<1>3. ASSUME NEW t \in 0..MaxTasks, Grown, TasksOk', t \in DOMAIN tasks'[p],
             tasks'[p][t].page = page,
             run' = [run EXCEPT ![r].at = "run", ![r].task = t, ![r].seen = project[p]]
      PROVE  DesktopInv'
  <2>1. PICK m \in Run : m = [run[r] EXCEPT !.at = "run", !.task = t, !.seen = project[p]]
    BY <1>1 DEF Run, Labels
  <2>2. /\ m.project = p /\ m.aio = run[r].aio /\ m.at = "run" /\ m.task = t /\ m.page = page
    BY <1>1, <2>1 DEF Run
  <2>3. run' = [run EXCEPT ![r] = m]
    BY <1>3, <2>1
  <2>4. \A i \in 1..(m.page - 1) : Opened(m.project, i)'
    BY <1>1, <1>3, <2>2 DEF Fits, Opened, Grown
  <2>5. /\ m.page \in 1..(NPages[m.project] + 1) /\ m.page \in Pages(m.project)
        /\ m.task \in DOMAIN tasks'[m.project] /\ tasks'[m.project][m.task].page = m.page
    BY <1>1, <1>3, <2>2 DEF Fits
  <2>6. Fits(m)'
    BY <2>4, <2>5 DEF Fits, Pages
  <2>7. QED
    BY <1>1, <1>2, <1>3, <2>2, <2>3, <2>6, RunsOn
<1>4. Len(tasks[p]) \in 0..MaxTasks /\ DOMAIN tasks[p] = 1..Len(tasks[p])
      /\ \A t \in DOMAIN tasks[p] : t \in 0..MaxTasks
  BY <1>1, Bounds DEF TasksOk
<1>5. ASSUME NEW t \in Reusable(p, page), tasks' = [tasks EXCEPT ![p][t].status = "pending"],
             run' = [run EXCEPT ![r].at = "run", ![r].task = t, ![r].seen = project[p]]
      PROVE  DesktopInv'
  <2>1. t \in DOMAIN tasks[p] /\ tasks[p][t].page = page /\ "pending" \in TaskStatus
    BY <1>5 DEF Reusable, TaskStatus
  <2>2. Grown /\ TasksOk'
    BY <1>1, <1>5, <2>1, StatusSet
  <2>3. t \in 0..MaxTasks /\ t \in DOMAIN tasks'[p] /\ tasks'[p][t].page = page
    BY <1>1, <1>4, <2>1, <2>2 DEF Grown
  <2>4. QED
    BY <1>3, <1>5, <2>2, <2>3
<1>6. ASSUME Len(tasks[p]) < MaxTasks,
             tasks' = [tasks EXCEPT ![p] = Append(@, [page |-> page, status |-> "pending"])],
             run' = [run EXCEPT ![r].at = "run", ![r].task = Len(tasks[p]) + 1,
                                ![r].seen = project[p]]
      PROVE  DesktopInv'
  <2>1. "pending" \in TaskStatus
    BY DEF TaskStatus
  <2>2. /\ Grown /\ TasksOk'
        /\ Len(tasks[p]) + 1 \in DOMAIN tasks'[p] /\ tasks'[p][Len(tasks[p]) + 1].page = page
    BY <1>1, <1>6, <2>1, TaskAppended
  <2>3. PICK t \in 0..MaxTasks : t = Len(tasks[p]) + 1
    BY <1>4, <1>6, Bounds
  <2>4. QED
    BY <1>3, <1>6, <2>2, <2>3
<1>7. QED
  BY <1>5, <1>6 DEF OpenPage

LEMMA RunPageStep == ASSUME DesktopInv, NEW r \in Runs, RunPage(r) PROVE DesktopInv'
<1>1. /\ run[r] \in Run /\ Fits(run[r]) /\ run[r].project \in Projects /\ TasksOk
      /\ run[r].at = "run" /\ faults' = faults
      /\ run[r].task \in DOMAIN tasks[run[r].project] /\ "processing" \in TaskStatus
      /\ tasks' = [tasks EXCEPT ![run[r].project][run[r].task].status = "processing"]
  BY Typed DEF RunPage, SetTask, Fits, TaskStatus
<1>2. Grown /\ TasksOk'
  BY <1>1, StatusSet
<1>3. PICK m \in Run : m = [run[r] EXCEPT !.at = "running"]
  BY <1>1 DEF Run, Labels
<1>4. /\ m.project = run[r].project /\ m.aio = run[r].aio /\ m.at = "running"
      /\ m.task = run[r].task /\ m.page = run[r].page /\ run' = [run EXCEPT ![r] = m]
  BY <1>1, <1>3 DEF Run, RunPage
<1>5. Fits(m)
  BY <1>1, <1>4 DEF Fits
<1>6. Fits(m)'
  BY <1>1, <1>2, <1>5, StillFits
<1>7. QED
  BY <1>2, <1>4, <1>6, RunsOn, Typed DEF RunPage

\* The thread goes on to the next page: this one has a task.
LEMMA PageLeft ==
  ASSUME DesktopInv, NEW r \in Runs, run[r].at \in {"run", "running"},
         NEW status \in TaskStatus, SetTask(r, status), Continue(r),
         Publish(run[r].project, <<"log">>),
         UNCHANGED <<project, scheduled, running, abandoned, requests, places>>,
         faults' \in 0..MaxFaults
  PROVE  DesktopInv'
<1> DEFINE p == run[r].project
<1>1. /\ run[r] \in Run /\ Fits(run[r]) /\ p \in Projects /\ TasksOk /\ project[p] \in Row
      /\ run[r].task \in DOMAIN tasks[p] /\ tasks[p][run[r].task].page = run[r].page
      /\ run[r].page \in Pages(p) /\ NPages[p] \in Nat /\ MaxTasks \in Nat
  BY Typed, Bounds DEF Fits
<1>2. Grown /\ TasksOk'
  BY <1>1, StatusSet DEF SetTask
<1>3. /\ stream' \in [Projects -> Stream]
      /\ \A q \in Projects : q # p => stream'[q] = stream[q]
  BY <1>1, Typed, Published, TwoEvents
<1>4. PICK page \in 1..(NPages[p] + 1) : page = run[r].page + 1
  BY <1>1 DEF Pages
<1>5. PICK m \in Run : m = [run[r] EXCEPT !.at = "next", !.page = page, !.task = 0,
                                          !.seen = project[p]]
  <2>1. page \in Nat /\ 0 \in 0..MaxTasks /\ "next" \in Labels
    BY <1>1, <1>4 DEF Labels
  <2>2. QED
    BY <1>1, <2>1 DEF Run
<1>6. m.project = p /\ m.aio = run[r].aio /\ m.at = "next" /\ m.page = page
  BY <1>1, <1>5 DEF Run
<1>7. run' = [run EXCEPT ![r] = m]
  BY <1>4, <1>5 DEF Continue
<1>8. \A i \in 1..(page - 1) : Opened(p, i)
  <2>1. Opened(p, run[r].page)
    BY <1>1 DEF Opened
  <2>2. \A i \in 1..(run[r].page - 1) : Opened(p, i)
    BY <1>1 DEF Fits
  <2>3. \A i \in 1..(page - 1) : i \in 1..(run[r].page - 1) \/ i = run[r].page
    BY <1>1, <1>4 DEF Pages
  <2>4. QED
    BY <2>1, <2>2, <2>3
<1>9. Fits(m)
  BY <1>6, <1>8 DEF Fits
<1>10. Fits(m)'
  BY <1>1, <1>2, <1>9, StillFits
<1>11. QED
  BY <1>2, <1>3, <1>6, <1>7, <1>10, RunsOn

LEMMA PageDoneStep == ASSUME DesktopInv, NEW r \in Runs, PageDone(r) PROVE DesktopInv'
<1>1. "completed" \in TaskStatus /\ "failed" \in TaskStatus
  BY DEF TaskStatus
<1>2. QED
  BY <1>1, PageLeft, Typed DEF PageDone

LEMMA PageInfraStep == ASSUME DesktopInv, NEW r \in Runs, PageInfra(r) PROVE DesktopInv'
<1>1. "pending" \in TaskStatus /\ faults' \in 0..MaxFaults
  BY Typed, Bounds DEF TaskStatus, PageInfra
<1>2. QED
  BY <1>1, PageLeft DEF PageInfra

\* The thread's exception: the session is given up.
LEMMA ThreadRaises ==
  ASSUME DesktopInv, NEW r \in Runs, run' = [run EXCEPT ![r].at = "raised"],
         UNCHANGED <<project, tasks, scheduled, running, stream, abandoned, requests, places>>,
         faults' \in 0..MaxFaults
  PROVE  DesktopInv'
<1>1. run[r] \in Run /\ Fits(run[r]) /\ Grown /\ TasksOk /\ TasksOk'
  BY SameTasks, Typed
<1>2. PICK m \in Run : m = [run[r] EXCEPT !.at = "raised"]
  BY <1>1 DEF Run, Labels
<1>3. /\ m.project = run[r].project /\ m.aio = run[r].aio /\ m.at = "raised"
      /\ m.page = run[r].page /\ run' = [run EXCEPT ![r] = m]
  BY <1>1, <1>2 DEF Run
<1>4. Fits(m)
  BY <1>1, <1>3 DEF Fits
<1>5. Fits(m)'
  BY <1>1, <1>4, StillFits
<1>6. QED
  BY <1>1, <1>3, <1>5, RunsOn, Typed

\* The thread's end, with the "done" behind it.
LEMMA RunEnds ==
  ASSUME DesktopInv, NEW r \in Runs, NEW new \in Row, EndRun(r, new),
         Publish(run[r].project, <<"log", "done">>), new.status # "generating",
         new.status = "completed" => AllOpened(run[r].project),
         UNCHANGED <<tasks, scheduled, running, requests, places>>, faults' \in 0..MaxFaults
  PROVE  DesktopInv'
<1>0. PICK p \in Projects : p = run[r].project
  BY Typed
<1>1. /\ run[r] \in Run /\ Fits(run[r]) /\ p \in Projects /\ Grown /\ TasksOk /\ TasksOk'
      /\ run \in [Runs -> Run] /\ Commit(r, new, "returned")
  BY <1>0, SameTasks, Typed DEF EndRun
<1>2. PICK m \in Run : m = [run[r] EXCEPT !.at = "returned", !.seen = new]
  BY <1>0, <1>1 DEF Run, Labels
<1>3. /\ m.project = p /\ m.aio = run[r].aio /\ m.at = "returned" /\ m.page = run[r].page
  BY <1>0, <1>1, <1>2 DEF Run
<1>4. /\ project' \in [Projects -> Row]
      /\ \A q \in Projects : q # p => project'[q] = project[q]
      /\ project'[p].status \in {project[p].status, new.status}
      /\ new.status # run[r].seen.status => project'[p].status = new.status
      /\ run' = [run EXCEPT ![r] = [run[r] EXCEPT !.at = "returned", !.seen = new]]
  BY <1>0, <1>1, Committed, ZenonT(30)
<1>5. Fits(m)
  BY <1>0, <1>1, <1>3 DEF Fits
<1>6. Fits(m)'
  BY <1>0, <1>1, <1>5, StillFits
<1>7. RunsOk' /\ run'[r] = m /\ \A s \in Runs : s # r => run'[s] = run[s]
  BY <1>0, <1>1, <1>2, <1>4, <1>6, OneRun DEF DesktopInv
<1>8. /\ stream' \in [Projects -> Stream]
      /\ \A q \in Projects : q # p => stream'[q] = stream[q]
      /\ stream'[p].open => stream[p].open /\ stream'[p].wire = stream[p].wire \o <<"log", "done">>
  BY <1>0, <1>1, Typed, Published, TwoEvents
<1>9. stream'[p].open => HasDone(p)'
  <2> DEFINE wire == stream[p].wire
  <2>1. wire \in Seq(Events)
    BY <1>0, <1>1, Typed DEF Stream
  <2> HIDE DEF wire
  <2>2. /\ Len(wire) + 2 \in DOMAIN (wire \o <<"log", "done">>)
        /\ (wire \o <<"log", "done">>)[Len(wire) + 2] = "done"
    BY <1>0, <2>1
  <2>3. QED
    BY <1>0, <1>8, <2>2 DEF HasDone, wire
<1>10. /\ abandoned' \in [Projects -> BOOLEAN]
       /\ \A q \in Projects : q # p => abandoned'[q] = abandoned[q]
       /\ new.status = run[r].seen.status => abandoned'[p]
  <2> DEFINE b == abandoned[p] \/ new.status = run[r].seen.status
  <2>1. b \in BOOLEAN /\ abandoned' = [abandoned EXCEPT ![p] = b] /\ abandoned \in [Projects -> BOOLEAN]
    BY <1>0, <1>1, Typed DEF EndRun
  <2>2. new.status = run[r].seen.status => b
    OBVIOUS
  <2> HIDE DEF b
  <2>3. abandoned'[p] = b
    BY <1>0, <1>1, <2>1
  <2>4. QED
    BY <1>0, <1>1, <2>1, <2>2, <2>3
<1>11. ServedOk(p)'
  BY <1>0, <1>4, <1>10 DEF ServedOk
<1>12. ToldOk(p)'
  BY <1>0, <1>9 DEF ToldOk
<1>13. QED
  BY <1>0, <1>1, <1>3, <1>4, <1>7, <1>8, <1>10, <1>11, <1>12, OnlyProject, Typed

LEMMA StopStep == ASSUME DesktopInv, NEW r \in Runs, Stop(r) PROVE DesktopInv'
<1>1. PICK new \in Row : new = [status |-> "stopped", stopping |-> FALSE]
  BY DEF Row, ProjectStatus
<1>2. QED
  BY <1>1, RunEnds, Typed DEF Stop

LEMMA FinalizeStep == ASSUME DesktopInv, NEW r \in Runs, Finalize(r) PROVE DesktopInv'
<1> DEFINE p == run[r].project
<1>1. /\ run[r] \in Run /\ Fits(run[r]) /\ run[r].seen \in Row /\ p \in Projects
      /\ run[r].page > NPages[p] /\ NPages[p] \in Nat
      /\ UNCHANGED <<tasks, scheduled, running, requests, faults, places>>
  BY Typed, Bounds DEF Finalize, Run
<1>2. CASE HasArticle(p)
  <2>1. PICK new \in Row : new = [run[r].seen EXCEPT !.status = "completed"]
    BY <1>1 DEF Row, ProjectStatus
  <2>2. AllOpened(p)
    BY <1>1 DEF AllOpened, Fits, Pages
  <2>3. new.status = "completed" /\ EndRun(r, new) /\ Publish(p, <<"log", "done">>)
    BY <1>1, <1>2, <2>1 DEF Finalize, Row
  <2>4. QED
    BY <1>1, <2>2, <2>3, RunEnds, Typed
<1>3. CASE ~HasArticle(p)
  BY <1>1, <1>3, ThreadRaises, Typed DEF Finalize
<1>4. QED
  BY <1>2, <1>3

LEMMA PageErrorStep == ASSUME DesktopInv, NEW r \in Runs, PageError(r) PROVE DesktopInv'
<1>1. /\ run[r].seen \in Row /\ faults' \in 0..MaxFaults
      /\ UNCHANGED <<tasks, scheduled, running, requests, places>>
  BY Typed, Bounds DEF PageError, Run
<1>2. PICK new \in Row : new = [run[r].seen EXCEPT !.status = "failed"]
  BY <1>1 DEF Row, ProjectStatus
<1>3. new.status = "failed"
  BY <1>1, <1>2 DEF Row
<1>4. CASE EndRun(r, new) /\ Publish(run[r].project, <<"log", "done">>)
  BY <1>1, <1>3, <1>4, RunEnds
<1>5. CASE /\ run' = [run EXCEPT ![r].at = "raised"]
           /\ UNCHANGED <<project, stream, abandoned, places>>
  BY <1>1, <1>5, ThreadRaises
<1>6. QED
  BY <1>2, <1>4, <1>5 DEF PageError

-----------------------------------------------------------------------------
(* The event loop.                                                         *)

\* A row that somebody sets to "failed".
LEMMA FailedRow ==
  ASSUME DesktopInv, NEW p \in Projects, Failed(p)
  PROVE  /\ project' \in [Projects -> Row] /\ project'[p].status = "failed"
         /\ \A q \in Projects : q # p => project'[q] = project[q]
<1>1. project \in [Projects -> Row]
  BY Typed
<1>2. [project[p] EXCEPT !.status = "failed"] \in Row
      /\ [project[p] EXCEPT !.status = "failed"].status = "failed"
  BY <1>1 DEF Row, ProjectStatus
<1>3. project' = [project EXCEPT ![p] = [project[p] EXCEPT !.status = "failed"]]
  BY DEF Failed
<1>4. QED
  BY <1>1, <1>2, <1>3

LEMMA ReturnStep == ASSUME DesktopInv, NEW r \in Runs, Return(r) PROVE DesktopInv'
<1>0. PICK p \in Projects : p = run[r].project
  BY Typed
<1>1. /\ run[r] \in Run /\ Fits(run[r]) /\ p \in Projects /\ Grown /\ TasksOk /\ TasksOk'
      /\ run \in [Runs -> Run] /\ run[r].aio = "running" /\ run[r].at = "returned"
  BY <1>0, SameTasks, Typed DEF Return
<1>2. PICK m \in Run : m = [run[r] EXCEPT !.aio = "ended", !.at = "none"]
  BY <1>0, <1>1 DEF Run, Labels, Aio
<1>3. /\ m.project = p /\ m.aio = "ended" /\ m.at = "none" /\ m.page = run[r].page
      /\ run' = [run EXCEPT ![r] = m]
  BY <1>0, <1>1, <1>2 DEF Run, Return
<1>4. Fits(m)'
  BY <1>0, <1>1, <1>3, StillFits DEF Fits
<1>5. RunsOk' /\ run'[r] = m /\ \A s \in Runs : s # r => run'[s] = run[s]
  BY <1>0, <1>1, <1>3, <1>4, OneRun DEF DesktopInv
<1>6. ServedOk(p)'
  BY <1>0, <1>1, <1>3, <1>5 DEF ServedOk, Served, InThread, DesktopInv, Return
<1>7. ToldOk(p)'
  BY <1>0, <1>1, <1>3, <1>5, SMTT(30) DEF ToldOk, Ended, HasDone, InThread, DesktopInv, Return
<1>8. QED
  BY <1>0, <1>1, <1>3, <1>5, <1>6, <1>7, OnlyProject, Typed DEF Return

LEMMA RaiseStep == ASSUME DesktopInv, NEW r \in Runs, Raise(r) PROVE DesktopInv'
<1>0. PICK p \in Projects : p = run[r].project
  BY Typed
<1>1. /\ run[r] \in Run /\ Fits(run[r]) /\ p \in Projects /\ Grown /\ TasksOk /\ TasksOk'
      /\ run \in [Runs -> Run] /\ run[r].aio = "running"
      /\ UNCHANGED <<tasks, scheduled, running, abandoned, requests, faults, places>>
  BY <1>0, SameTasks, Typed DEF Raise
<1>2. PICK m \in Run : m = [run[r] EXCEPT !.aio = "ended", !.at = "none"]
  BY <1>0, <1>1 DEF Run, Labels, Aio
<1>3. /\ m.project = p /\ m.aio = "ended" /\ m.at = "none" /\ m.page = run[r].page
      /\ run' = [run EXCEPT ![r] = m]
  BY <1>0, <1>1, <1>2 DEF Run, Raise
<1>4. Fits(m)'
  BY <1>0, <1>1, <1>3, StillFits DEF Fits
<1>5. RunsOk' /\ run'[r] = m /\ \A s \in Runs : s # r => run'[s] = run[s]
  BY <1>0, <1>1, <1>3, <1>4, OneRun DEF DesktopInv
<1>6. /\ project' \in [Projects -> Row] /\ project'[p].status = "failed"
      /\ \A q \in Projects : q # p => project'[q] = project[q]
  BY <1>0, <1>1, FailedRow DEF Raise
<1>7. /\ stream' \in [Projects -> Stream]
      /\ \A q \in Projects : q # p => stream'[q] = stream[q]
  BY <1>0, <1>1, Typed, Published, TwoEvents DEF Raise
<1>8. ServedOk(p)' /\ ToldOk(p)'
  BY <1>0, <1>6 DEF ServedOk, ToldOk
<1>9. QED
  BY <1>0, <1>1, <1>3, <1>5, <1>6, <1>7, <1>8, OnlyProject, Typed

LEMMA TimeoutStep == ASSUME DesktopInv, NEW r \in Runs, Timeout(r) PROVE DesktopInv'
<1>0. PICK p \in Projects : p = run[r].project
  BY Typed
<1>1. /\ run[r] \in Run /\ Fits(run[r]) /\ p \in Projects /\ Grown /\ TasksOk /\ TasksOk'
      /\ run \in [Runs -> Run] /\ run[r].aio = "running"
      /\ UNCHANGED <<tasks, scheduled, running, abandoned, requests, faults, places>>
  BY <1>0, SameTasks, Typed DEF Timeout
<1>2. PICK m \in Run : m = [run[r] EXCEPT !.aio = "ended"]
  BY <1>0, <1>1 DEF Run, Aio
<1>3. /\ m.project = p /\ m.aio = "ended" /\ m.at = run[r].at /\ m.page = run[r].page
      /\ m.task = run[r].task /\ run' = [run EXCEPT ![r] = m]
  BY <1>0, <1>1, <1>2 DEF Run, Timeout
<1>4. Fits(m)
  BY <1>0, <1>1, <1>3 DEF Fits
<1>5. Fits(m)'
  BY <1>0, <1>1, <1>4, StillFits
<1>6. RunsOk' /\ run'[r] = m /\ \A s \in Runs : s # r => run'[s] = run[s]
  BY <1>0, <1>1, <1>3, <1>5, OneRun DEF DesktopInv
<1>7. /\ project' \in [Projects -> Row] /\ project'[p].status = "failed"
      /\ \A q \in Projects : q # p => project'[q] = project[q]
  BY <1>0, <1>1, FailedRow DEF Timeout
<1>8. /\ stream' \in [Projects -> Stream]
      /\ \A q \in Projects : q # p => stream'[q] = stream[q]
  BY <1>0, <1>1, Typed, Published, TwoEvents DEF Timeout
<1>9. ServedOk(p)' /\ ToldOk(p)'
  BY <1>0, <1>7 DEF ServedOk, ToldOk
<1>10. QED
  BY <1>0, <1>1, <1>3, <1>6, <1>7, <1>8, <1>9, OnlyProject, Typed

LEMMA ExpireStep == ASSUME DesktopInv, NEW r \in Runs, Expire(r) PROVE DesktopInv'
<1>0. PICK p \in Projects : p = run[r].project
  BY Typed
<1> DEFINE raised == run[r].at = "raised"
           b == abandoned[p] \/ raised
<1>1. /\ run[r] \in Run /\ Fits(run[r]) /\ p \in Projects /\ Grown /\ TasksOk /\ TasksOk'
      /\ run \in [Runs -> Run] /\ run[r].aio = "free" /\ run[r].at \in {"raised", "returned"}
  BY <1>0, SameTasks, Typed DEF Expire
<1>2. PICK m \in Run : m = [run[r] EXCEPT !.at = "none"]
  BY <1>0, <1>1 DEF Run, Labels
<1>3. /\ m.project = p /\ m.aio = "free" /\ m.at = "none" /\ m.page = run[r].page
      /\ run' = [run EXCEPT ![r] = m]
  BY <1>0, <1>1, <1>2 DEF Run, Expire
<1>4. Fits(m)
  BY <1>0, <1>1, <1>3 DEF Fits
<1>5. Fits(m)'
  BY <1>0, <1>1, <1>4, StillFits
<1>6. RunsOk' /\ run'[r] = m /\ \A s \in Runs : s # r => run'[s] = run[s]
  BY <1>0, <1>1, <1>3, <1>5, OneRun DEF DesktopInv
<1>7. /\ b \in BOOLEAN /\ abandoned' = [abandoned EXCEPT ![p] = b]
      /\ (raised => b) /\ (abandoned[p] => b) /\ abandoned \in [Projects -> BOOLEAN]
  BY <1>0, Typed DEF Expire
<1> HIDE DEF b
<1>8. /\ abandoned' \in [Projects -> BOOLEAN] /\ abandoned'[p] = b
      /\ \A q \in Projects : q # p => abandoned'[q] = abandoned[q]
  BY <1>0, <1>1, <1>7
<1>9. CASE raised
  <2>1. ServedOk(p)' /\ ToldOk(p)'
    BY <1>0, <1>7, <1>8, <1>9 DEF ServedOk, ToldOk
  <2>2. QED
    BY <1>0, <1>1, <1>3, <1>6, <1>8, <2>1, OnlyProject, Typed DEF Expire
<1>10. CASE ~raised
  <2>1. ServedOk(p)'
    BY <1>0, <1>1, <1>3, <1>6, <1>7, <1>8, <1>10 DEF ServedOk, Served, InThread, DesktopInv, Expire
  <2>2. ToldOk(p)'
    BY <1>0, <1>1, <1>3, <1>6, <1>7, <1>8, <1>10
       DEF ToldOk, Ended, HasDone, InThread, DesktopInv, Expire
  <2>3. QED
    BY <1>0, <1>1, <1>3, <1>6, <1>8, <2>1, <2>2, OnlyProject, Typed DEF Expire
<1>11. QED
  BY <1>0, <1>9, <1>10

\* No run moves, and the tasks grow.
LEMMA RunsStay ==
  ASSUME DesktopInv, run' = run, Grown
  PROVE  RunsOk'
<1>1. ASSUME NEW r \in Runs
      PROVE  Fits(run[r])'
  <2>1. PICK m \in Run : m = run[r] /\ Fits(m)
    BY Typed
  <2>2. Fits(m)' /\ run'[r] = m
    BY <2>1, StillFits, Typed
  <2>3. QED
    BY <2>2 DEF Fits, Opened, Pages
<1>2. QED
  BY <1>1, Typed DEF RunsOk

\* _running and a run that is forgotten.
LEMMA ForgetStep == ASSUME DesktopInv, NEW r \in Runs, Forget(r) PROVE DesktopInv'
<1>0. PICK p \in Projects : p = run[r].project
  BY Typed
<1>1. /\ run[r] \in Run /\ Fits(run[r]) /\ Grown /\ TasksOk /\ TasksOk'
      /\ run \in [Runs -> Run] /\ run[r].aio = "ended"
      /\ running \in [Projects -> Runs \cup {None}] /\ running' = [running EXCEPT ![p] = None]
      /\ UNCHANGED <<project, tasks, scheduled, stream, abandoned, requests, faults, places>>
  BY <1>0, SameTasks, Typed DEF Forget
<1>2. PICK m \in Run : m = [run[r] EXCEPT !.aio = "free"]
  BY <1>1 DEF Run, Aio
<1>3. /\ m.project = p /\ m.aio = "free" /\ m.at = run[r].at /\ m.page = run[r].page
      /\ m.task = run[r].task /\ run' = [run EXCEPT ![r] = m]
  BY <1>0, <1>1, <1>2 DEF Run, Forget
<1>4. Fits(m)
  BY <1>0, <1>1, <1>3 DEF Fits
<1>5. Fits(m)'
  BY <1>1, <1>4, StillFits
<1>6. RunsOk' /\ run'[r] = m /\ \A s \in Runs : s # r => run'[s] = run[s]
  BY <1>1, <1>3, <1>5, OneRun DEF DesktopInv
<1>7. running' \in [Projects -> Runs \cup {None}] /\ running'[p] = None
      /\ \A q \in Projects : q # p => running'[q] = running[q]
  BY <1>1
<1>8. TypeInv'
  BY <1>1, <1>6, <1>7 DEF TypeInv, DesktopInv
<1>9. Linked'
  <2>1. running[p] = r
    BY <1>0, <1>1 DEF Linked, DesktopInv
  <2>2. ASSUME NEW s \in Runs, run'[s].aio # "free"
        PROVE  running'[run'[s].project] = s
    <3>1. s # r /\ run'[s] = run[s] /\ run[s].project \in Projects
      BY <1>3, <1>6, <2>2, Typed
    <3>2. running[run[s].project] = s
      BY <2>2, <3>1 DEF Linked, DesktopInv
    <3>3. QED
      BY <1>7, <2>1, <3>1, <3>2
  <2>3. ASSUME NEW q \in Projects, running'[q] # None
        PROVE  run'[running'[q]].project = q /\ run'[running'[q]].aio # "free"
    <3>1. q # p /\ running'[q] = running[q] /\ running[q] \in Runs
      BY <1>1, <1>7, <2>3
    <3>2. run[running[q]].project = q /\ run[running[q]].aio # "free"
      BY <2>3, <3>1 DEF Linked, DesktopInv
    <3>3. running[q] # r
      BY <1>0, <3>1, <3>2
    <3>4. QED
      BY <1>6, <3>1, <3>2, <3>3
  <2>4. QED
    BY <2>2, <2>3 DEF Linked
<1>10. /\ \A s \in Runs : run'[s].project = run[s].project /\ run'[s].at = run[s].at
       /\ \A s \in Runs : run'[s].aio = "waiting" <=> run[s].aio = "waiting"
  BY <1>0, <1>1, <1>3, <1>6
<1>11. \A q \in Projects : ServedOk(q)'
  BY <1>1, <1>10 DEF ServedOk, Served, InThread, DesktopInv
<1>12. \A q \in Projects : ToldOk(q)'
  BY <1>1, <1>10 DEF ToldOk, Ended, HasDone, InThread, DesktopInv
<1>13. \A q \in Projects : TriedOk(q)'
  BY <1>1 DEF TriedOk, AllOpened, Opened, DesktopInv
<1>14. QED
  BY <1>8, <1>9, <1>11, <1>12, <1>13 DEF DesktopInv

\* A launch that meets a run of its project.
LEMMA LaunchMeets ==
  ASSUME DesktopInv, NEW p \in Projects, scheduled[p] > 0,
         scheduled' = [scheduled EXCEPT ![p] = @ - 1], running[p] # None,
         abandoned' = [abandoned EXCEPT ![p] = @ \/ Over(running[p])],
         UNCHANGED <<running, run, project, tasks, stream, requests, faults, places>>
  PROVE  DesktopInv'
<1> DEFINE s == running[p]
           b == abandoned[p] \/ Over(s)
<1>1. /\ s \in Runs /\ run[s].project = p /\ run[s].aio # "free" /\ run[s] \in Run
      /\ Grown /\ TasksOk' /\ RunsOk' /\ abandoned \in [Projects -> BOOLEAN]
  <2>1. s \in Runs
    BY Typed
  <2>2. Grown /\ TasksOk'
    BY SameTasks, Typed
  <2>3. QED
    BY <2>1, <2>2, RunsStay, Typed DEF Linked, DesktopInv
<1>2. /\ scheduled' \in [Projects -> Nat] /\ scheduled'[p] <= requests' + 1
      /\ \A q \in Projects : q # p => scheduled'[q] = scheduled[q]
  BY Typed
<1>3. b \in BOOLEAN /\ (Over(s) => b) /\ (abandoned[p] => b) /\ abandoned' = [abandoned EXCEPT ![p] = b]
  BY <1>1 DEF Over, InThread
<1> HIDE DEF b
<1>4. /\ abandoned' \in [Projects -> BOOLEAN] /\ abandoned'[p] = b
      /\ \A q \in Projects : q # p => abandoned'[q] = abandoned[q]
  BY <1>1, <1>3
<1>5. CASE Over(s)
  <2>1. ServedOk(p)' /\ ToldOk(p)'
    BY <1>3, <1>4, <1>5 DEF ServedOk, ToldOk
  <2>2. QED
    BY <1>1, <1>2, <1>4, <2>1, OnlyProject, Typed
<1>6. CASE ~Over(s)
  <2>1. run[s].aio = "waiting" \/ InThread(s)
    BY <1>1, <1>6 DEF Over, Run, Aio
  <2>2. Served(p)' /\ ~Ended(p)'
    BY <1>1, <2>1 DEF Served, Ended, InThread
  <2>3. ServedOk(p)' /\ ToldOk(p)'
    BY <2>2 DEF ServedOk, ToldOk
  <2>4. QED
    BY <1>1, <1>2, <1>4, <2>3, OnlyProject, Typed
<1>7. QED
  BY <1>5, <1>6

\* A new run takes the first free place among the runs.
LEMMA FirstFree ==
  ASSUME FreeRuns # {}
  PROVE  (CHOOSE r \in FreeRuns : \A s \in FreeRuns : r <= s) \in FreeRuns
<1>1. FreeRuns \subseteq Nat
  BY Bounds DEF FreeRuns, Runs
<1>2. \E r \in FreeRuns : \A s \in FreeRuns : r <= s
  <2>1. PICK r \in FreeRuns : \A s \in FreeRuns : ~(s < r)
    <3>1. IsWellFoundedOn(OpToRel(<, Nat), Nat)
      BY NatLessThanWellFounded
    <3>2. \E r \in FreeRuns : \A s \in FreeRuns : ~(<<s, r>> \in OpToRel(<, Nat))
      BY <1>1, <3>1, WFMin
    <3>3. QED
      BY <1>1, <3>2 DEF OpToRel
  <2>2. QED
    BY <1>1, <2>1
<1>3. QED
  BY <1>2

LEMMA LaunchesNew ==
  ASSUME DesktopInv, NEW p \in Projects, scheduled[p] > 0,
         scheduled' = [scheduled EXCEPT ![p] = @ - 1], running[p] = None, LaunchNew(p),
         UNCHANGED <<project, tasks, stream, requests, faults, places>>
  PROVE  DesktopInv'
<1>1. PICK r \in FreeRuns : /\ running' = [running EXCEPT ![p] = r]
                            /\ run' = [run EXCEPT ![r] = [Idle(p) EXCEPT !.aio = "waiting"]]
  BY FirstFree DEF LaunchNew
<1>2. r \in Runs /\ run[r].aio = "free" /\ run[r].at = "none" /\ r # None
  BY Bounds DEF FreeRuns
<1>3. /\ Grown /\ TasksOk /\ TasksOk' /\ run \in [Runs -> Run]
      /\ running \in [Projects -> Runs \cup {None}]
  BY SameTasks, Typed
<1>4. PICK m \in Run : m = [Idle(p) EXCEPT !.aio = "waiting"]
  <2>1. IdleRow \in Row
    BY DEF IdleRow, Row, ProjectStatus
  <2>2. 0 \in 0..MaxTasks /\ 1 \in Nat /\ {"free", "waiting"} \subseteq Aio /\ "none" \in Labels
    BY Bounds DEF Aio, Labels
  <2>3. [Idle(p) EXCEPT !.aio = "waiting"] =
          [aio |-> "waiting", at |-> "none", project |-> p, page |-> 1, task |-> 0,
           seen |-> IdleRow]
    BY DEF Idle
  <2>4. QED
    BY <2>1, <2>2, <2>3 DEF Run
<1>5. /\ m.project = p /\ m.aio = "waiting" /\ m.at = "none" /\ m.page = 1
      /\ run' = [run EXCEPT ![r] = m]
  BY <1>1, <1>4 DEF Idle
<1>6. Fits(m)'
  <2>1. 1 \in 1..(NPages[p] + 1) /\ 1..(1 - 1) = {}
    BY Bounds
  <2>2. QED
    BY <1>5, <2>1 DEF Fits
<1>7. RunsOk' /\ run'[r] = m /\ \A s \in Runs : s # r => run'[s] = run[s]
  BY <1>2, <1>3, <1>5, <1>6, OneRun DEF DesktopInv
<1>8. running' \in [Projects -> Runs \cup {None}] /\ running'[p] = r
      /\ \A q \in Projects : q # p => running'[q] = running[q]
  BY <1>1, <1>2, <1>3
<1>9. /\ scheduled' \in [Projects -> Nat] /\ scheduled'[p] <= requests + 1
      /\ \A q \in Projects : q # p => scheduled'[q] = scheduled[q]
      /\ \A q \in Projects : scheduled[q] <= requests + 1
  BY Typed
<1>10. /\ abandoned' \in [Projects -> BOOLEAN]
       /\ \A q \in Projects : q # p => abandoned'[q] = abandoned[q]
  BY Typed DEF LaunchNew
<1>11. TypeInv'
  <2>1. \A q \in Projects : scheduled'[q] <= requests + 1
    BY <1>9
  <2>2. QED
    BY <1>3, <1>7, <1>8, <1>9, <1>10, <2>1 DEF TypeInv, DesktopInv
<1>12. Linked'
  <2>1. ASSUME NEW s \in Runs, run'[s].aio # "free"
        PROVE  running'[run'[s].project] = s
    <3>1. CASE s = r
      BY <1>5, <1>7, <1>8, <3>1
    <3>2. CASE s # r
      <4>1. run'[s] = run[s] /\ run[s].project \in Projects /\ running[run[s].project] = s
        BY <1>7, <2>1, <3>2, Typed DEF Linked, DesktopInv
      <4>2. run[s].project # p
        BY <4>1, Bounds
      <4>3. QED
        BY <1>8, <4>1, <4>2
    <3>3. QED
      BY <3>1, <3>2
  <2>2. ASSUME NEW q \in Projects, running'[q] # None
        PROVE  run'[running'[q]].project = q /\ run'[running'[q]].aio # "free"
    <3>1. CASE q = p
      BY <1>5, <1>7, <1>8, <3>1
    <3>2. CASE q # p
      <4>1. running'[q] = running[q] /\ running[q] \in Runs /\ running[q] # None
        BY <1>3, <1>8, <2>2, <3>2
      <4>2. run[running[q]].project = q /\ run[running[q]].aio # "free"
        BY <4>1 DEF Linked, DesktopInv
      <4>3. QED
        BY <1>2, <1>7, <4>1, <4>2
    <3>3. QED
      BY <3>1, <3>2
  <2>3. QED
    BY <2>1, <2>2 DEF Linked
<1>13. Served(p)' /\ ~Ended(p)'
  BY <1>2, <1>5, <1>7 DEF Served, Ended
<1>14. ASSUME NEW q \in Projects, q # p
       PROVE  ServedOk(q)' /\ ToldOk(q)'
  <2>1. \A s \in Runs : run'[s].project = q => run'[s] = run[s]
    BY <1>5, <1>7, <1>14
  <2>2. \A s \in Runs : run[s].project = q => s = r \/ run'[s] = run[s]
    BY <1>7
  <2>3. Served(q) => Served(q)'
    BY <1>2, <1>9, <1>14, <2>2 DEF Served, InThread
  <2>4. Ended(q)' => Ended(q)
    BY <1>2, <1>9, <1>14, <2>2 DEF Ended, InThread
  <2>5. QED
    BY <1>10, <1>14, <2>3, <2>4 DEF ServedOk, ToldOk, HasDone, DesktopInv
<1>15. \A q \in Projects : ServedOk(q)' /\ ToldOk(q)'
  BY <1>13, <1>14 DEF ServedOk, ToldOk
<1>16. \A q \in Projects : TriedOk(q)'
  BY DEF TriedOk, AllOpened, Opened, DesktopInv
<1>17. QED
  BY <1>11, <1>12, <1>15, <1>16 DEF DesktopInv

LEMMA LaunchStep == ASSUME DesktopInv, NEW p \in Projects, Launch(p) PROVE DesktopInv'
BY LaunchMeets, LaunchesNew DEF Launch

-----------------------------------------------------------------------------
(* Requests, the bus, and the end of the process.                          *)

\* What is asked of a project from outside: no run moves.
LEMMA Outside ==
  ASSUME DesktopInv, NEW p \in Projects, UNCHANGED <<running, run, abandoned, faults, places>>,
         TasksOk', Grown, project' \in [Projects -> Row], stream' \in [Projects -> Stream],
         scheduled' \in {scheduled, [scheduled EXCEPT ![p] = @ + 1]},
         \A q \in Projects : q # p => project'[q] = project[q] /\ stream'[q] = stream[q],
         requests' \in {requests, requests + 1}, requests' <= MaxRequests,
         scheduled' # scheduled => requests' = requests + 1,
         project'[p].status = "completed" => project[p].status = "completed",
         \/ project'[p].status \in {project[p].status, "failed"}
         \/ scheduled' # scheduled,
         \/ project'[p].status = "failed" \/ scheduled' # scheduled \/ ToldOk(p)'
  PROVE  DesktopInv'
<1>1. /\ RunsOk' /\ \A s \in Runs : run'[s] = run[s]
      /\ scheduled \in [Projects -> Nat] /\ scheduled[p] <= requests + 1
      /\ requests \in Nat /\ requests \in requests..MaxRequests
  BY RunsStay, Typed
<1>2. /\ scheduled' \in [Projects -> Nat] /\ scheduled'[p] <= requests' + 1
      /\ \A q \in Projects : q # p => scheduled'[q] = scheduled[q]
      /\ scheduled'[p] >= scheduled[p]
      /\ scheduled' # scheduled => scheduled'[p] > 0
  BY <1>1
<1>3. requests' \in requests..MaxRequests
  BY <1>1, Bounds
<1>4. ServedOk(p)'
  <2>1. CASE scheduled' # scheduled
    BY <1>2, <2>1 DEF ServedOk, Served
  <2>2. CASE project'[p].status \in {project[p].status, "failed"}
    <3>1. Served(p) => Served(p)'
      BY <1>1, <1>2 DEF Served, InThread
    <3>2. ServedOk(p)
      BY DEF DesktopInv
    <3>3. QED
      BY <2>2, <3>1, <3>2 DEF ServedOk
  <2>3. QED
    BY <2>1, <2>2
<1>5. ToldOk(p)'
  <2>1. CASE scheduled' # scheduled
    <3>1. scheduled'[p] # 0
      BY <1>2, <2>1
    <3>2. QED
      BY <3>1 DEF ToldOk, Ended
  <2>2. CASE project'[p].status = "failed"
    BY <2>2 DEF ToldOk
  <2>3. QED
    BY <2>1, <2>2
<1>6. QED
  BY <1>1, <1>2, <1>3, <1>4, <1>5, OnlyProject, Typed

\* Somebody watches and nothing about it changes.
LEMMA StillTold ==
  ASSUME DesktopInv, NEW p \in Projects, UNCHANGED <<run, stream, abandoned, scheduled>>,
         project'[p].status = project[p].status
  PROVE  ToldOk(p)'
BY DEF DesktopInv, ToldOk, Ended, InThread, HasDone

LEMMA RequestCount ==
  ASSUME DesktopInv, NEW op, Request(op)
  PROVE  requests' \in {requests, requests + 1} /\ requests' = requests + 1 /\ requests' <= MaxRequests
BY Typed, Bounds DEF Request

LEMMA ScheduledOnce ==
  ASSUME DesktopInv, NEW p \in Projects, Schedule(p)
  PROVE  scheduled' \in {scheduled, [scheduled EXCEPT ![p] = @ + 1]} /\ scheduled' # scheduled
<1>1. scheduled \in [Projects -> Nat]
  BY Typed
<1>2. scheduled'[p] = scheduled[p] + 1
  BY <1>1 DEF Schedule
<1>3. QED
  BY <1>1, <1>2 DEF Schedule

LEMMA StartStep == ASSUME DesktopInv, NEW p \in Projects, StartProject(p) PROVE DesktopInv'
<1>1. Grown /\ TasksOk'
  BY SameTasks, Typed DEF StartProject
<1>2. QED
  BY <1>1, RequestCount, ScheduledOnce, Outside, Typed DEF StartProject

LEMMA StopProjectStep == ASSUME DesktopInv, NEW p \in Projects, StopProject(p) PROVE DesktopInv'
<1>1. Grown /\ TasksOk'
  BY SameTasks, Typed DEF StopProject
<1>2. /\ project' \in [Projects -> Row] /\ project'[p].status = project[p].status
      /\ \A q \in Projects : q # p => project'[q] = project[q]
  <2>1. project \in [Projects -> Row]
    BY Typed
  <2>2. [project[p] EXCEPT !.stopping = TRUE] \in Row
        /\ [project[p] EXCEPT !.stopping = TRUE].status = project[p].status
    BY <2>1 DEF Row
  <2>3. project' = [project EXCEPT ![p] = [project[p] EXCEPT !.stopping = TRUE]]
    BY DEF StopProject
  <2>4. QED
    BY <2>1, <2>2, <2>3
<1>3. ToldOk(p)'
  BY <1>2, StillTold DEF StopProject
<1>4. QED
  BY <1>1, <1>2, <1>3, RequestCount, Outside, Typed DEF StopProject

\* A row that is written anew.
LEMMA RowSet ==
  ASSUME DesktopInv, NEW p \in Projects, NEW status \in ProjectStatus,
         project' = [project EXCEPT ![p] = [status |-> status, stopping |-> FALSE]]
  PROVE  /\ project' \in [Projects -> Row] /\ project'[p].status = status
         /\ \A q \in Projects : q # p => project'[q] = project[q]
<1>1. [status |-> status, stopping |-> FALSE] \in Row
  BY DEF Row
<1>2. QED
  BY <1>1, Typed

LEMMA ResumeStep == ASSUME DesktopInv, NEW p \in Projects, ResumeProject(p) PROVE DesktopInv'
<1>1. Grown /\ TasksOk'
  BY SameTasks, Typed DEF ResumeProject
<1>2. /\ project' \in [Projects -> Row] /\ project'[p].status = "generating"
      /\ \A q \in Projects : q # p => project'[q] = project[q]
  BY RowSet DEF ResumeProject, ProjectStatus
<1>3. QED
  BY <1>1, <1>2, RequestCount, ScheduledOnce, Outside, Typed DEF ResumeProject

LEMMA ResetStep == ASSUME DesktopInv, NEW p \in Projects, ResetStatus(p) PROVE DesktopInv'
<1>1. Grown /\ TasksOk'
  BY SameTasks, Typed DEF ResetStatus
<1>2. /\ project' \in [Projects -> Row] /\ project'[p].status = "failed"
      /\ \A q \in Projects : q # p => project'[q] = project[q]
  BY RowSet DEF ResetStatus, ProjectStatus
<1>3. QED
  BY <1>1, <1>2, RequestCount, Outside, Typed DEF ResetStatus

LEMMA RetryStep == ASSUME DesktopInv, NEW p \in Projects, RetryFailed(p) PROVE DesktopInv'
<1> DEFINE new == [t \in DOMAIN tasks[p] |->
                     IF t \in FailedTasks(p) THEN [tasks[p][t] EXCEPT !.status = "pending"]
                     ELSE tasks[p][t]]
<1>1. /\ tasks \in [Projects -> Seq(Task)] /\ Len(tasks[p]) \in Nat /\ TasksOk
      /\ DOMAIN tasks[p] = 1..Len(tasks[p]) /\ \A t \in DOMAIN tasks[p] : tasks[p][t] \in Task
  BY Typed DEF TasksOk
<1>2. \A t \in DOMAIN tasks[p] : new[t] \in Task /\ new[t].page = tasks[p][t].page
  BY <1>1 DEF Task, TaskStatus
<1>3. tasks' = [tasks EXCEPT ![p] = new] /\ DOMAIN new = 1..Len(tasks[p])
  BY <1>1 DEF RetryFailed
<1>4. new \in [1..Len(tasks[p]) -> Task]
  BY <1>1, <1>2
<1> HIDE DEF new
<1>5. new \in Seq(Task) /\ Len(new) = Len(tasks[p])
  BY <1>1, <1>3, <1>4
<1>6. tasks' \in [Projects -> Seq(Task)] /\ tasks'[p] = new
      /\ \A q \in Projects : q # p => tasks'[q] = tasks[q]
  BY <1>1, <1>3, <1>5
<1>7. Grown
  BY <1>1, <1>2, <1>3, <1>6 DEF Grown
<1>8. TasksOk'
  BY <1>1, <1>2, <1>3, <1>5, <1>6 DEF TasksOk
<1>9. /\ project' \in [Projects -> Row] /\ project'[p].status = "generating"
      /\ \A q \in Projects : q # p => project'[q] = project[q]
  BY RowSet DEF RetryFailed, ProjectStatus
<1>10. QED
  BY <1>7, <1>8, <1>9, RequestCount, ScheduledOnce, Outside, Typed DEF RetryFailed

LEMMA StaleStep == ASSUME DesktopInv, NEW p \in Projects, MarkStale(p) PROVE DesktopInv'
<1>1. PICK t \in DOMAIN tasks[p] : tasks' = [tasks EXCEPT ![p][t].status = "stale"]
  BY DEF MarkStale
<1>2. "stale" \in TaskStatus
  BY DEF TaskStatus
<1>3. Grown /\ TasksOk'
  BY <1>1, <1>2, StatusSet, Typed
<1>4. ToldOk(p)'
  BY StillTold DEF MarkStale
<1>5. QED
  BY <1>3, <1>4, RequestCount, Outside, Typed DEF MarkStale

LEMMA ClosedStream == Closed \in Stream /\ ~Closed.open
BY DEF Closed, Stream

\* A browser is told of a run that has its thread: the thread is still to end.
LEMMA SubscribeStep == ASSUME DesktopInv, NEW p \in Projects, Subscribe(p) PROVE DesktopInv'
<1> DEFINE watched == \E r \in Runs : run[r].project = p /\ InThread(r)
           new == [Closed EXCEPT !.open = TRUE, !.watched = watched]
<1>1. watched \in BOOLEAN /\ stream' = [stream EXCEPT ![p] = new]
      /\ stream \in [Projects -> Stream]
  BY Typed DEF Subscribe
<1>2. watched => ~Ended(p)
  BY DEF Ended
<1> HIDE DEF watched
<1>3. new \in Stream /\ new.watched = watched
  <2>1. PICK k \in Stream : k = Closed
    BY ClosedStream
  <2>2. new = [k EXCEPT !.open = TRUE, !.watched = watched]
    BY <2>1
  <2>3. QED
    BY <1>1, <2>1, <2>2 DEF Stream
<1> HIDE DEF new
<1>4. stream' \in [Projects -> Stream] /\ stream'[p] = new
      /\ \A q \in Projects : q # p => stream'[q] = stream[q]
  BY <1>1, <1>3
<1>5. Grown /\ TasksOk'
  BY SameTasks, Typed DEF Subscribe
<1>6. ToldOk(p)'
  BY <1>2, <1>3, <1>4 DEF ToldOk, Ended, InThread, Subscribe
<1>7. QED
  BY <1>4, <1>5, <1>6, RequestCount, Outside, Typed DEF Subscribe

\* The bus moves one event, and nothing else.
LEMMA BusMoves ==
  ASSUME DesktopInv, NEW p \in Projects, NEW new \in Stream, stream' = [stream EXCEPT ![p] = new],
         UNCHANGED <<project, tasks, scheduled, running, run, abandoned, requests, faults,
                     places>>,
         new.open => /\ stream[p].open /\ new.watched = stream[p].watched
                     /\ stream[p].lost => new.lost
                     /\ HasDone(p) => \/ new.lost
                                      \/ \E i \in DOMAIN new.wire : new.wire[i] = "done"
                                      \/ \E i \in DOMAIN new.queue : new.queue[i] = "done"
  PROVE  DesktopInv'
<1>1. stream' \in [Projects -> Stream] /\ stream'[p] = new
      /\ \A q \in Projects : q # p => stream'[q] = stream[q]
  BY Typed
<1>2. Grown /\ TasksOk'
  BY SameTasks, Typed
<1>3. ToldOk(p)
  BY DEF DesktopInv
<1>4. Ended(p)' => Ended(p)
  BY DEF Ended, InThread
<1>5. stream'[p].open /\ HasDone(p) => stream'[p].lost \/ HasDone(p)'
  BY <1>1 DEF HasDone
<1>6. ToldOk(p)'
  BY <1>1, <1>3, <1>4, <1>5 DEF ToldOk
<1>7. QED
  BY <1>1, <1>2, <1>6, Outside, Typed

\* The front of a sequence is passed on or lost; what is behind it stays.
LEMMA HeadOrTail ==
  ASSUME NEW s \in Seq(Events), s # <<>>
  PROVE  /\ Head(s) \in Events /\ Tail(s) \in Seq(Events)
         /\ (\E i \in DOMAIN s : s[i] = "done") =>
              Head(s) = "done" \/ \E i \in DOMAIN Tail(s) : Tail(s)[i] = "done"
<1>1. Head(s) \in Events /\ Tail(s) \in Seq(Events)
  OBVIOUS
<1>2. ASSUME NEW i \in DOMAIN s, s[i] = "done", Head(s) # "done"
      PROVE  \E j \in DOMAIN Tail(s) : Tail(s)[j] = "done"
  <2>1. Len(s) \in Nat /\ DOMAIN s = 1..Len(s) /\ i # 1
    BY <1>2
  <2>2. i - 1 \in 1..(Len(s) - 1) /\ Len(Tail(s)) = Len(s) - 1
    BY <1>2, <2>1
  <2>3. i - 1 \in DOMAIN Tail(s) /\ Tail(s)[i - 1] = s[i]
    BY <2>1, <2>2
  <2>4. QED
    BY <1>2, <2>3
<1>3. QED
  BY <1>1, <1>2

LEMMA DeliverStep == ASSUME DesktopInv, NEW p \in Projects, Deliver(p) PROVE DesktopInv'
<1> DEFINE wire == stream[p].wire
           queue == stream[p].queue
           event == Head(wire)
           full == Len(queue) >= QueueSize
           queued == IF full THEN queue ELSE Append(queue, event)
           lost == stream[p].lost \/ (full /\ event = "done")
           new == [stream[p] EXCEPT !.wire = Tail(wire), !.queue = queued, !.lost = lost]
<1>1. /\ stream[p] \in Stream /\ wire \in Seq(Events) /\ queue \in Seq(Events) /\ wire # <<>>
      /\ stream' = [stream EXCEPT ![p] = new]
  BY Typed DEF Deliver, Stream
<1>2. event \in Events /\ Tail(wire) \in Seq(Events)
  BY <1>1, HeadOrTail
<1>3. lost \in BOOLEAN /\ (stream[p].lost => lost) /\ (full /\ event = "done" => lost)
  BY <1>1 DEF Stream
<1>4. ~full => /\ Append(queue, event)[Len(queue) + 1] = event
               /\ Len(queue) + 1 \in DOMAIN Append(queue, event)
               /\ \A i \in DOMAIN queue : /\ Append(queue, event)[i] = queue[i]
                                          /\ i \in DOMAIN Append(queue, event)
  BY <1>1, <1>2
<1>5. queued \in Seq(Events)
  BY <1>1, <1>2
<1>6. (\E i \in DOMAIN queue : queue[i] = "done") => \E i \in DOMAIN queued : queued[i] = "done"
  BY <1>4
<1>7. event = "done" => lost \/ \E i \in DOMAIN queued : queued[i] = "done"
  BY <1>3, <1>4
<1>8. (\E i \in DOMAIN wire : wire[i] = "done") =>
        event = "done" \/ \E i \in DOMAIN Tail(wire) : Tail(wire)[i] = "done"
  BY <1>1, HeadOrTail
<1>9. HasDone(p) => \/ \E i \in DOMAIN wire : wire[i] = "done"
                    \/ \E i \in DOMAIN queue : queue[i] = "done"
  BY DEF HasDone
<1> HIDE DEF lost, queued, event, wire, queue
<1>10. PICK k \in Stream : k = new
  BY <1>1, <1>2, <1>3, <1>5 DEF Stream
<1>11. /\ k.wire = Tail(wire) /\ k.queue = queued /\ k.lost = lost
       /\ k.open = stream[p].open /\ k.watched = stream[p].watched
  BY <1>1, <1>10 DEF Stream
<1>12. HasDone(p) => \/ k.lost
                     \/ \E i \in DOMAIN k.wire : k.wire[i] = "done"
                     \/ \E i \in DOMAIN k.queue : k.queue[i] = "done"
  BY <1>6, <1>7, <1>8, <1>9, <1>11
<1>13. stream' = [stream EXCEPT ![p] = k]
  BY <1>1, <1>10
<1>14. QED
  BY <1>3, <1>11, <1>12, <1>13, BusMoves DEF Deliver

LEMMA ReceiveStep == ASSUME DesktopInv, NEW p \in Projects, Receive(p) PROVE DesktopInv'
<1> DEFINE queue == stream[p].queue
<1>1. stream[p] \in Stream /\ queue \in Seq(Events) /\ queue # <<>>
  BY Typed DEF Receive, Stream
<1>2. Tail(queue) \in Seq(Events)
      /\ ((\E i \in DOMAIN queue : queue[i] = "done") =>
            Head(queue) = "done" \/ \E i \in DOMAIN Tail(queue) : Tail(queue)[i] = "done")
  BY <1>1, HeadOrTail
<1>3. CASE Head(queue) = "done"
  <2>1. PICK k \in Stream : k = Closed /\ ~k.open
    BY ClosedStream
  <2>2. stream' = [stream EXCEPT ![p] = k]
    BY <1>3, <2>1 DEF Receive
  <2>3. QED
    BY <2>1, <2>2, BusMoves DEF Receive
<1>4. CASE Head(queue) # "done"
  <2>1. stream' = [stream EXCEPT ![p] = [stream[p] EXCEPT !.queue = Tail(queue)]]
    BY <1>4 DEF Receive
  <2>2. HasDone(p) => \/ \E i \in DOMAIN stream[p].wire : stream[p].wire[i] = "done"
                      \/ \E i \in DOMAIN Tail(queue) : Tail(queue)[i] = "done"
    BY <1>2, <1>4 DEF HasDone
  <2>3. PICK k \in Stream : k = [stream[p] EXCEPT !.queue = Tail(queue)]
    BY <1>1, <1>2 DEF Stream
  <2>4. /\ k.wire = stream[p].wire /\ k.queue = Tail(queue) /\ k.lost = stream[p].lost
        /\ k.open = stream[p].open /\ k.watched = stream[p].watched
    BY <1>1, <2>3 DEF Stream
  <2>5. stream' = [stream EXCEPT ![p] = k]
    BY <2>1, <2>3
  <2>6. UNCHANGED <<project, tasks, scheduled, running, run, abandoned, requests, faults,
                     places>>
    BY DEF Receive
  <2>7. HasDone(p) => \/ \E i \in DOMAIN k.wire : k.wire[i] = "done"
                      \/ \E i \in DOMAIN k.queue : k.queue[i] = "done"
    BY <2>2, <2>4
  <2>8. QED
    BY <2>4, <2>5, <2>6, <2>7, BusMoves
<1>5. QED
  BY <1>3, <1>4

\* What the process starts with: nothing runs and nobody watches.
Fresh == /\ run = [r \in Runs |-> Idle(CHOOSE p \in Projects : TRUE)]
         /\ running = [p \in Projects |-> None]
         /\ stream = [p \in Projects |-> Closed]

Quiet == /\ RunsOk /\ Linked /\ stream \in [Projects -> Stream]
         /\ running \in [Projects -> Runs \cup {None}] /\ \A p \in Projects : ToldOk(p)

LEMMA FreshTyped == Fresh /\ TasksOk => Quiet
<1> SUFFICES ASSUME Fresh, TasksOk PROVE Quiet
  OBVIOUS
<1>1. PICK p \in Projects : p = CHOOSE q \in Projects : TRUE
  BY DesktopAssumption
<1>2. PICK m \in Run : m = Idle(p)
  <2>1. IdleRow \in Row
    BY DEF IdleRow, Row, ProjectStatus
  <2>2. 0 \in 0..MaxTasks /\ 1 \in Nat /\ "free" \in Aio /\ "none" \in Labels
    BY Bounds DEF Aio, Labels
  <2>3. QED
    BY <2>1, <2>2 DEF Idle, Run
<1>3. m.project = p /\ m.aio = "free" /\ m.at = "none" /\ m.page = 1
  BY <1>2 DEF Idle
<1>4. 1 \in 1..(NPages[p] + 1) /\ 1..(1 - 1) = {}
  BY Bounds
<1>5. Fits(m)
  BY <1>3, <1>4 DEF Fits
<1>6. run \in [Runs -> Run] /\ \A r \in Runs : run[r] = m
  BY <1>1, <1>2 DEF Fresh
<1>7. RunsOk
  BY <1>5, <1>6 DEF RunsOk
<1>8. Linked
  BY <1>3, <1>6 DEF Linked, Fresh
<1>9. stream \in [Projects -> Stream] /\ \A q \in Projects : ~stream[q].open
  BY ClosedStream DEF Fresh
<1>10. QED
  BY <1>7, <1>8, <1>9 DEF ToldOk, Fresh, Quiet

LEMMA RestartStep == ASSUME DesktopInv, Restart PROVE DesktopInv'
<1>1. Grown /\ TasksOk' /\ Fresh'
  BY SameTasks, Typed DEF Restart, Fresh
<1>2. /\ RunsOk' /\ Linked' /\ stream' \in [Projects -> Stream]
      /\ running' \in [Projects -> Runs \cup {None}] /\ \A p \in Projects : ToldOk(p)'
  <2>1. (Fresh /\ TasksOk => Quiet)'
    BY FreshTyped, PTL
  <2>2. QED
    BY <1>1, <2>1 DEF Quiet
<1>3. /\ abandoned' \in [Projects -> BOOLEAN] /\ \A p \in Projects : abandoned'[p]
      /\ scheduled' \in [Projects -> Nat] /\ \A p \in Projects : scheduled'[p] = 0
      /\ faults' \in 0..MaxFaults
  BY Typed, Bounds DEF Restart
<1>4. \A p \in Projects : scheduled'[p] <= requests + 1
  BY <1>3, Typed
<1>5. TypeInv'
  BY <1>1, <1>2, <1>3, <1>4 DEF TypeInv, DesktopInv, Restart
<1>6. \A p \in Projects : ServedOk(p)'
  BY <1>3 DEF ServedOk
<1>7. \A p \in Projects : TriedOk(p)'
  BY DEF TriedOk, AllOpened, Opened, DesktopInv, Restart
<1>8. QED
  BY <1>2, <1>5, <1>6, <1>7 DEF DesktopInv

LEMMA StartsWell == ASSUME Init PROVE DesktopInv
<1>1. TasksOk
  <2>1. <<>> \in Seq(Task) /\ Len(<<>>) = 0 /\ DOMAIN <<>> = {}
    OBVIOUS
  <2>2. QED
    BY <2>1, Bounds DEF Init, TasksOk
<1>2. Fresh
  BY DEF Init, Fresh
<1>3. /\ RunsOk /\ Linked /\ stream \in [Projects -> Stream]
      /\ running \in [Projects -> Runs \cup {None}] /\ \A p \in Projects : ToldOk(p)
  BY <1>1, <1>2, FreshTyped DEF Quiet
<1>4. /\ {IdleRow, ResetRow, StoppedRow} \subseteq Row
      /\ \A row \in {IdleRow, ResetRow, StoppedRow} : row.status \notin {"generating", "completed"}
  <2>1. PICK row \in Row : row = IdleRow /\ row.status = "pending"
    <3>1. IdleRow \in Row /\ IdleRow.status = "pending"
      BY DEF IdleRow, Row, ProjectStatus
    <3>2. QED
      BY <3>1
  <2>2. ASSUME NEW status \in {"failed", "stopped"}
        PROVE  [row EXCEPT !.status = status] \in Row
               /\ [row EXCEPT !.status = status].status = status
    BY DEF Row, ProjectStatus
  <2>3. ResetRow = [row EXCEPT !.status = "failed"] /\ StoppedRow = [row EXCEPT !.status = "stopped"]
    BY <2>1 DEF ResetRow, StoppedRow
  <2>4. QED
    BY <2>1, <2>2, <2>3
<1>5. /\ project \in [Projects -> Row]
      /\ \A p \in Projects : project[p].status \notin {"generating", "completed"}
  BY <1>4 DEF Init
<1>6. /\ scheduled \in [Projects -> Nat] /\ requests \in 0..MaxRequests /\ faults \in 0..MaxFaults
      /\ \A p \in Projects : scheduled[p] <= requests + 1
      /\ abandoned \in [Projects -> BOOLEAN] /\ places \in Concurrency
  BY Bounds DEF Init
<1>7. TypeInv
  BY <1>1, <1>3, <1>5, <1>6 DEF TypeInv
<1>8. QED
  BY <1>3, <1>5, <1>7 DEF DesktopInv, ServedOk, TriedOk

LEMMA StutterStep == ASSUME DesktopInv, UNCHANGED vars PROVE DesktopInv'
<1>1. Grown /\ TasksOk' /\ RunsOk'
  BY SameTasks, RunsStay, Typed DEF vars
<1>2. PICK p \in Projects : TRUE
  BY DesktopAssumption
<1>3. ServedOk(p)' /\ ToldOk(p)'
  BY DEF vars, DesktopInv, ServedOk, Served, ToldOk, Ended, HasDone, InThread
<1>4. QED
  BY <1>1, <1>3, OnlyProject, Typed DEF vars

LEMMA EveryStep == ASSUME DesktopInv, [Next]_vars PROVE DesktopInv'
<1>1. ASSUME NEW r \in Runs, Thread(r)
      PROVE  DesktopInv'
  BY <1>1, LoadStep, BeginStep, NextPageStep, StopStep, MarkStep, OpenPageStep, RunPageStep,
     PageDoneStep, FinalizeStep DEF Thread
<1>2. ASSUME NEW r \in Runs, Loop(r)
      PROVE  DesktopInv'
  BY <1>2, EnterStep, ReturnStep, RaiseStep, ForgetStep, ExpireStep DEF Loop
<1>3. ASSUME NEW r \in Runs, Disturb(r)
      PROVE  DesktopInv'
  BY <1>3, TimeoutStep, PageInfraStep, PageErrorStep DEF Disturb
<1>4. ASSUME NEW p \in Projects, Launch(p) \/ Bus(p)
      PROVE  DesktopInv'
  BY <1>4, LaunchStep, DeliverStep, ReceiveStep DEF Bus
<1>5. ASSUME NEW p \in Projects, Environment(p)
      PROVE  DesktopInv'
  BY <1>5, StartStep, StopProjectStep, ResumeStep, RetryStep, ResetStep, SubscribeStep, StaleStep
     DEF Environment
<1>6. QED
  BY <1>1, <1>2, <1>3, <1>4, <1>5, RestartStep, StutterStep DEF Next

-----------------------------------------------------------------------------
(* The theorems.                                                           *)

LEMMA DesktopAlways == Spec => []DesktopInv
<1>1. Init => DesktopInv
  BY StartsWell
<1>2. DesktopInv /\ [Next]_vars => DesktopInv'
  BY EveryStep
<1>3. QED
  BY <1>1, <1>2, PTL DEF Spec

\* Rows, tasks, runs and streams keep their shape, whatever becomes of the threads, the
\* timeouts and the process: a page in work exists, and no task has a page its blueprint
\* does not have (project_runner.py).
THEOREM DesktopTyped == Spec => []TypeOK
<1>1. ASSUME DesktopInv PROVE TypeOK
  <2>1. \A p \in Projects : scheduled[p] \in 0..(MaxRequests + 1)
    BY <1>1, Typed, Bounds
  <2>2. scheduled \in [Projects -> 0..(MaxRequests + 1)]
    BY <1>1, <2>1, Typed
  <2>3. QED
    BY <1>1, <2>2 DEF TypeOK, DesktopInv, TypeInv, TasksOk, RunsOk, Fits
<1>2. QED
  BY <1>1, DesktopAlways, PTL

\* launch_project is idempotent: of the threads somebody waits for, no two work on the same
\* project, for any number of projects, places and requests.
THEOREM OneThreadEach == Spec => []OneThread
<1>1. ASSUME DesktopInv PROVE OneThread
  BY <1>1 DEF OneThread, Awaited, DesktopInv, Linked
<1>2. QED
  BY <1>1, DesktopAlways, PTL

\* A generating project always has a launch to come or a run that will end it, but for the
\* launches and exceptions the runner is known to lose.
THEOREM NobodyForgotten == Spec => []GeneratingServed
<1>1. ASSUME DesktopInv PROVE GeneratingServed
  BY <1>1 DEF GeneratingServed, DesktopInv, ServedOk
<1>2. QED
  BY <1>1, DesktopAlways, PTL

\* A completed project has opened a task of every page of its blueprint, in spite of stops,
\* resumptions, retries, resets and threads that outlived their timeout.
THEOREM EveryPageTried == Spec => []PagesTried
<1>1. ASSUME DesktopInv PROVE PagesTried
  BY <1>1 DEF PagesTried, DesktopInv, TriedOk, AllOpened, Opened
<1>2. QED
  BY <1>1, DesktopAlways, PTL

\* Of the events on their way, and of those in the queue, one is a "done".
LEMMA DoneComes ==
  ASSUME DesktopInv, NEW p \in Projects, HasDone(p)
  PROVE  \E i \in DOMAIN Coming(p) : Coming(p)[i] = "done"
<1> DEFINE wire == stream[p].wire
           queue == stream[p].queue
<1>1. wire \in Seq(Events) /\ queue \in Seq(Events)
  BY Typed DEF Stream
<1>2. (\E i \in DOMAIN wire : wire[i] = "done") \/ (\E i \in DOMAIN queue : queue[i] = "done")
  BY DEF HasDone
<1>3. Coming(p) = wire \o queue
  BY DEF Coming
<1> HIDE DEF wire, queue
<1>4. CASE \E i \in DOMAIN wire : wire[i] = "done"
  <2>1. PICK i \in DOMAIN wire : wire[i] = "done"
    BY <1>4
  <2>2. i \in DOMAIN (wire \o queue) /\ (wire \o queue)[i] = wire[i]
    BY <1>1, <2>1
  <2>3. QED
    BY <1>3, <2>1, <2>2
<1>5. CASE \E i \in DOMAIN queue : queue[i] = "done"
  <2>1. PICK i \in DOMAIN queue : queue[i] = "done"
    BY <1>5
  <2>2. Len(wire) + i \in DOMAIN (wire \o queue) /\ (wire \o queue)[Len(wire) + i] = queue[i]
    BY <1>1, <2>1
  <2>3. QED
    BY <1>3, <2>1, <2>2
<1>6. QED
  BY <1>2, <1>4, <1>5

\* A browser that watched a project run is told that it is over: the "done" is on the wire or
\* in its queue, unless the project was failed from outside the thread or a queue was full.
THEOREM WatchersTold == Spec => []StreamTold
<1>1. ASSUME DesktopInv PROVE StreamTold
  BY <1>1, DoneComes DEF StreamTold, DesktopInv, ToldOk
<1>2. QED
  BY <1>1, DesktopAlways, PTL
=============================================================================
