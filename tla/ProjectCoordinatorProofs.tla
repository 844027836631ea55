---------------------- MODULE ProjectCoordinatorProofs ----------------------
(* Theorems about ProjectCoordinator for any number of pages, messages and   *)
(* tasks: type correctness, and that the chain of messages of a generating   *)
(* project is never broken unaccounted for, in every environment; that a     *)
(* tidy project uses one task per page, heeds a stop and is completed with   *)
(* its site; and that an orderly one implements SitePlan.                    *)
EXTENDS MCProjectCoordinator, TLAPS

-----------------------------------------------------------------------------
(* Type correctness.  What a message is at, and what it holds, fit together. *)

Fits(m, n) ==
  /\ m.kind = "page" => m.page \in Pages
  /\ m.at = "begin" => m.kind = "start"
  /\ m.at \in {"choose", "await", "generate", "build", "finish"} => m.kind = "advance"
  /\ m.at \in {"open", "run", "running", "report", "retry"} => m.kind = "page"
  /\ m.at \in {"generate", "send"} /\ m.kind = "advance" => m.page \in Pages
  /\ m.at \in {"run", "running"} => m.task \in 1..n
  /\ m.at = "send" /\ m.kind # "page" => m.seen.status = "generating"

TypeInv == TypeOK /\ \A j \in Jobs : Fits(job[j], Len(tasks))

LEMMA Sizes == NPages \in Nat /\ MaxJobs \in Nat /\ MaxTasks \in Nat
BY SizeAssumption

LEMMA NewProjectType == NewProject \in Project
BY DEF NewProject, Project, ProjectStatus

LEMMA MessageType ==
  ASSUME NEW kind \in Kinds, NEW page \in 0..NPages, NEW approved \in BOOLEAN,
         NEW named \in BOOLEAN, NEW n \in Nat, kind = "page" => page \in Pages
  PROVE  /\ Message(kind, page, approved, named) \in Job
         /\ Fits(Message(kind, page, approved, named), n)
BY Sizes, NewProjectType DEF Message, Job, Labels, Fits

\* One message changes, the tasks do not become fewer.
LEMMA OneJob ==
  ASSUME TypeInv, NEW j \in Jobs, NEW new \in Job, Fits(new, Len(tasks')),
         tasks' \in Seq(Task), Len(tasks) <= Len(tasks'),
         job' = [job EXCEPT ![j] = new]
  PROVE  /\ job' \in [Jobs -> Job]
         /\ \A k \in Jobs : Fits(job'[k], Len(tasks'))
<1>1. job \in [Jobs -> Job] /\ Len(tasks) \in Nat /\ Len(tasks') \in Nat
  BY DEF TypeInv, TypeOK
<1>2. job' \in [Jobs -> Job] /\ job'[j] = new /\ \A k \in Jobs \ {j} : job'[k] = job[k]
  BY <1>1
<1>3. ASSUME NEW k \in Jobs \ {j}
      PROVE  Fits(job[k], Len(tasks'))
  BY <1>1 DEF TypeInv, Fits
<1>4. QED
  BY <1>2, <1>3

LEMMA WrittenType ==
  ASSUME project \in Project, NEW old \in Project, NEW new \in Project
  PROVE  Written(old, new) \in Project
BY DEF Written, Project

\* A sequence that is changed at some of its places.
LEMMA SameLength ==
  ASSUME tasks \in Seq(Task), tasks' \in [DOMAIN tasks -> Task]
  PROVE  tasks' \in Seq(Task) /\ Len(tasks') = Len(tasks)
<1>1. DOMAIN tasks = 1..Len(tasks) /\ Len(tasks) \in Nat
  OBVIOUS
<1>2. QED
  BY <1>1

LEMMA UnclaimedType ==
  ASSUME tasks \in Seq(Task), NEW js
  PROVE  Unclaimed(js) \in [DOMAIN tasks -> Task]
<1>1. \A t \in DOMAIN tasks : tasks[t] \in Task
  OBVIOUS
<1>2. 0 \in 0..MaxJobs
  BY Sizes
<1>3. QED
  BY <1>1, <1>2 DEF Unclaimed, Task

\* The fields of a message that change, one or two at a time.
LEMMA AtType ==
  ASSUME NEW m \in Job, NEW label \in Labels
  PROVE  [m EXCEPT !.at = label] \in Job
BY DEF Job

LEMMA FreeType ==
  ASSUME NEW n \in Nat
  PROVE  Free \in Job /\ Fits(Free, n) /\ Free.at = "free"
<1> DEFINE m == Message("start", 0, FALSE, FALSE)
<1>1. 0 \in 0..NPages /\ "start" \in Kinds /\ FALSE \in BOOLEAN /\ "start" # "page"
  BY Sizes DEF Kinds
<1>2. m \in Job
  BY <1>1, MessageType
<1>3. m.kind = "start"
  BY DEF Message
<1>4. Free = [m EXCEPT !.at = "free"]
  BY DEF Free
<1> HIDE DEF m
<1>5. Free \in Job
  BY <1>2, <1>4, AtType DEF Labels
<1>6. Free.at = "free" /\ Free.kind = "start"
  BY <1>2, <1>3, <1>4 DEF Job
<1>7. QED
  BY <1>5, <1>6 DEF Fits

LEMMA SeenType ==
  ASSUME NEW m \in Job, NEW label \in Labels, NEW seen \in Project
  PROVE  [m EXCEPT !.at = label, !.seen = seen] \in Job
BY DEF Job

LEMMA Facts ==
  ASSUME TypeInv
  PROVE  /\ project \in Project
         /\ tasks \in Seq(Task) /\ Len(tasks) \in Nat /\ Len(tasks) <= MaxTasks
         /\ DOMAIN tasks = 1..Len(tasks)
         /\ \A t \in DOMAIN tasks : tasks[t] \in Task
         /\ job \in [Jobs -> Job]
         /\ \A j \in Jobs : job[j] \in Job /\ Fits(job[j], Len(tasks))
         /\ \A j \in Jobs : job[j].seen \in Project
BY DEF TypeInv, TypeOK, Job

\* A handler's commit is a row, and leaves its message well typed.
LEMMA CommitType ==
  ASSUME TypeInv, NEW j \in Jobs, NEW new \in Project, NEW label \in Labels,
         Commit(j, new, label)
  PROVE  /\ project' \in Project
         /\ \E m \in Job : /\ job' = [job EXCEPT ![j] = m]
                           /\ m.at = label /\ m.kind = job[j].kind /\ m.page = job[j].page
                           /\ m.task = job[j].task /\ m.approved = job[j].approved
                           /\ m.seen = IF label = "ack" THEN NewProject ELSE new
<1>1. project' \in Project
  BY Facts, WrittenType DEF Commit
<1> DEFINE seen == IF label = "ack" THEN NewProject ELSE new
           m == [job[j] EXCEPT !.at = label, !.seen = seen]
<1>2. seen \in Project
  BY NewProjectType
<1>3. job' = [job EXCEPT ![j] = m]
  BY DEF Commit
<1> HIDE DEF seen
<1>4. m \in Job /\ m.at = label /\ m.kind = job[j].kind /\ m.page = job[j].page
      /\ m.task = job[j].task /\ m.approved = job[j].approved /\ m.seen = seen
  BY <1>2, Facts, SeenType DEF Job
<1>5. QED
  BY <1>1, <1>3, <1>4 DEF seen

LEMMA LoadType ==
  ASSUME TypeInv, NEW j \in Jobs, NEW label \in Labels, Load(j, label)
  PROVE  \E m \in Job : /\ job' = [job EXCEPT ![j] = m]
                        /\ m.at = label /\ m.kind = job[j].kind /\ m.page = job[j].page
                        /\ m.task = job[j].task /\ m.approved = job[j].approved /\ m.seen = project
<1> DEFINE m == [job[j] EXCEPT !.at = label, !.seen = project]
<1>1. job' = [job EXCEPT ![j] = m]
  BY DEF Load
<1>2. m \in Job /\ m.at = label /\ m.kind = job[j].kind /\ m.page = job[j].page
      /\ m.task = job[j].task /\ m.approved = job[j].approved /\ m.seen = project
  BY Facts, SeenType DEF Job
<1>3. QED
  BY <1>1, <1>2

LEMMA GotoType ==
  ASSUME TypeInv, NEW j \in Jobs, NEW label \in Labels, Goto(j, label)
  PROVE  \E m \in Job : /\ job' = [job EXCEPT ![j] = m]
                        /\ m.at = label /\ m.kind = job[j].kind /\ m.page = job[j].page
                        /\ m.task = job[j].task /\ m.approved = job[j].approved /\ m.seen = job[j].seen
<1> DEFINE m == [job[j] EXCEPT !.at = label]
<1>1. job' = [job EXCEPT ![j] = m]
  BY DEF Goto
<1>2. m \in Job /\ m.at = label /\ m.kind = job[j].kind /\ m.page = job[j].page
      /\ m.task = job[j].task /\ m.approved = job[j].approved /\ m.seen = job[j].seen
  BY Facts, AtType DEF Job
<1>3. QED
  BY <1>1, <1>2

\* What a step leaves when it touches one message and not the tasks.
LEMMA OneJobOnly ==
  ASSUME TypeInv, NEW j \in Jobs, NEW m \in Job, job' = [job EXCEPT ![j] = m],
         Fits(m, Len(tasks)), project' \in Project,
         UNCHANGED <<tasks, requests, asked>>, faults' \in 0..MaxFaults,
         unsent' \in BOOLEAN
  PROVE  TypeInv'
<1>1. /\ job' \in [Jobs -> Job]
      /\ \A k \in Jobs : Fits(job'[k], Len(tasks'))
  BY OneJob, Facts
<1>2. QED
  BY <1>1, Facts DEF TypeInv, TypeOK

\* Messages are dropped and their claims cleared.
LEMMA DroppedType ==
  ASSUME TypeInv, NEW js, job' = Dropped(js),
         tasks' \in [DOMAIN tasks -> Task], project' \in Project,
         requests' \in 0..MaxRequests, faults' \in 0..MaxFaults, unsent' \in BOOLEAN,
         asked' \in 0..3
  PROVE  TypeInv'
<1>1. tasks' \in Seq(Task) /\ Len(tasks') = Len(tasks)
  BY SameLength, Facts
<1>2. job' \in [Jobs -> Job]
  BY Facts, FreeType DEF Dropped
<1>3. ASSUME NEW k \in Jobs
      PROVE  Fits(job'[k], Len(tasks'))
  BY <1>1, Facts, FreeType DEF Dropped
<1>4. QED
  BY <1>1, <1>2, <1>3, Facts DEF TypeInv, TypeOK

\* A step that commits, loads or goes on within one handler.
LEMMA HandlerType ==
  ASSUME TypeInv, NEW j \in Jobs,
         StartLoad(j) \/ StartCommit(j) \/ AdvanceLoad(j) \/ ChooseNone(j) \/ AwaitCommit(j)
           \/ GenerateCommit(j) \/ Build(j) \/ Finish(j) \/ PageLoad(j) \/ StopCommit(j)
           \/ FailCommit(j) \/ Report(j) \/ HandlerError(j)
  PROVE  TypeInv'
<1> USE Facts DEF Fits
<1>1. faults \in 0..MaxFaults /\ unsent \in BOOLEAN /\ job[j].seen \in Project
  BY DEF TypeInv, TypeOK
<1>2. \A status \in ProjectStatus, new \in Project : [new EXCEPT !.status = status] \in Project
  BY DEF Project
<1>3. CASE StartLoad(j)
  BY <1>1, <1>3, LoadType, OneJobOnly DEF StartLoad, Labels
<1>4. CASE StartCommit(j)
  <2> DEFINE new == [job[j].seen EXCEPT !.status = "generating"]
  <2>1. new \in Project /\ new.status = "generating"
    BY <1>1, <1>2 DEF ProjectStatus, Project
  <2>2. Commit(j, new, "send") /\ job[j].at = "begin"
    BY <1>4 DEF StartCommit
  <2> HIDE DEF new
  <2>3. QED
    BY <1>1, <1>4, <2>1, <2>2, CommitType, OneJobOnly DEF StartCommit, Labels
<1>5. CASE AdvanceLoad(j)
  BY <1>1, <1>5, LoadType, OneJobOnly DEF AdvanceLoad, Labels
<1>6. CASE ChooseNone(j)
  BY <1>1, <1>6, GotoType, OneJobOnly DEF ChooseNone, Labels
<1>7. CASE AwaitCommit(j)
  <2> DEFINE new == [job[j].seen EXCEPT !.status = "awaiting_page_approval"]
  <2>1. new \in Project
    BY <1>1, <1>2 DEF ProjectStatus
  <2>2. Commit(j, new, "ack")
    BY <1>7 DEF AwaitCommit
  <2> HIDE DEF new
  <2>3. QED
    BY <1>1, <1>7, <2>1, <2>2, CommitType, OneJobOnly DEF AwaitCommit, Labels
<1>8. CASE GenerateCommit(j)
  <2> DEFINE new == [job[j].seen EXCEPT !.status = "generating"]
  <2>1. new \in Project /\ new.status = "generating"
    BY <1>1, <1>2 DEF ProjectStatus, Project
  <2>2. Commit(j, new, "send") /\ job[j].at = "generate"
    BY <1>8 DEF GenerateCommit
  <2> HIDE DEF new
  <2>3. QED
    BY <1>1, <1>8, <2>1, <2>2, CommitType, OneJobOnly DEF GenerateCommit, Labels
<1>9. CASE Build(j)
  <2> DEFINE built == \E t \in DOMAIN tasks : tasks[t].article
             new == [job[j].seen EXCEPT !.zip = built]
             label == IF built THEN "finish" ELSE "fail"
  <2>1. built \in BOOLEAN
    OBVIOUS
  <2>2. Commit(j, new, label) /\ job[j].at = "build"
    BY <1>9 DEF Build
  <2>3. label \in Labels /\ label \in {"finish", "fail"}
    BY DEF Labels
  <2> HIDE DEF label, built
  <2>4. new \in Project
    BY <1>1, <2>1 DEF Project
  <2> HIDE DEF new
  <2>5. QED
    BY <1>1, <1>9, <2>2, <2>3, <2>4, CommitType, OneJobOnly DEF Build
<1>10. CASE Finish(j)
  <2> DEFINE new == [job[j].seen EXCEPT !.status = "completed"]
  <2>1. new \in Project
    BY <1>1, <1>2 DEF ProjectStatus
  <2>2. Commit(j, new, "ack")
    BY <1>10 DEF Finish
  <2> HIDE DEF new
  <2>3. QED
    BY <1>1, <1>10, <2>1, <2>2, CommitType, OneJobOnly DEF Finish, Labels
<1>11. CASE PageLoad(j)
  BY <1>1, <1>11, LoadType, OneJobOnly DEF PageLoad, Labels
<1>12. CASE StopCommit(j)
  <2> DEFINE new == [job[j].seen EXCEPT !.status = "stopped", !.stopping = FALSE]
  <2>1. new \in Project
    BY <1>1 DEF ProjectStatus, Project
  <2>2. Commit(j, new, "ack")
    BY <1>12 DEF StopCommit
  <2> HIDE DEF new
  <2>3. QED
    BY <1>1, <1>12, <2>1, <2>2, CommitType, OneJobOnly DEF StopCommit, Labels
<1>13. CASE FailCommit(j)
  <2> DEFINE new == [job[j].seen EXCEPT !.status = "failed"]
             label == IF job[j].kind = "page" THEN "send" ELSE "ack"
  <2>1. new \in Project
    BY <1>1, <1>2 DEF ProjectStatus
  <2>2. Commit(j, new, label) /\ label \in Labels
    BY <1>13 DEF FailCommit, Labels
  <2>3. label = "ack" \/ (label = "send" /\ job[j].kind = "page")
    OBVIOUS
  <2> HIDE DEF new, label
  <2>4. QED
    BY <1>1, <1>13, <2>1, <2>2, <2>3, CommitType, OneJobOnly DEF FailCommit
<1>14. CASE Report(j)
  <2>1. CASE project.stopping
    BY <1>1, <1>14, <2>1, LoadType, OneJobOnly DEF Report, Labels
  <2>2. CASE ~project.stopping
    BY <1>1, <1>14, <2>2, GotoType, OneJobOnly DEF Report, Labels
  <2>3. QED
    BY <2>1, <2>2
<1>15. CASE HandlerError(j)
  <2>1. faults' \in 0..MaxFaults
    BY <1>1, <1>15, SizeAssumption DEF HandlerError
  <2>2. QED
    BY <1>1, <1>15, <2>1, GotoType, OneJobOnly DEF HandlerError, Labels
<1>16. QED
  BY <1>3, <1>4, <1>5, <1>6, <1>7, <1>8, <1>9, <1>10, <1>11, <1>12, <1>13, <1>14, <1>15

\* A step that touches one message and changes tasks in place.
LEMMA OneJobAndTasks ==
  ASSUME TypeInv, NEW j \in Jobs, NEW m \in Job, job' = [job EXCEPT ![j] = m],
         Fits(m, Len(tasks)), tasks' \in [DOMAIN tasks -> Task], project' \in Project,
         requests' = requests, unsent' = unsent, faults' \in 0..MaxFaults, asked' \in 0..3
  PROVE  TypeInv'
<1>1. tasks' \in Seq(Task) /\ Len(tasks') = Len(tasks)
  BY SameLength, Facts
<1>2. /\ job' \in [Jobs -> Job]
      /\ \A k \in Jobs : Fits(job'[k], Len(tasks'))
  BY <1>1, OneJob, Facts
<1>3. QED
  BY <1>1, <1>2, Facts DEF TypeInv, TypeOK

LEMMA TaskFields ==
  ASSUME tasks \in Seq(Task), NEW t, NEW status \in TaskStatus
  PROVE  /\ [tasks EXCEPT ![t].status = status] \in [DOMAIN tasks -> Task]
         /\ [tasks EXCEPT ![t].status = status, ![t].article = TRUE] \in [DOMAIN tasks -> Task]
         /\ \A j \in Jobs : [tasks EXCEPT ![t].status = status, ![t].claim = j]
                               \in [DOMAIN tasks -> Task]
<1>1. tasks \in [DOMAIN tasks -> Task]
  OBVIOUS
<1>2. Jobs \subseteq 0..MaxJobs
  BY Sizes DEF Jobs
<1>3. QED
  BY <1>1, <1>2, ZenonT(30) DEF Task

\* A step of the page's handler, or of the choice of a page.
LEMMA PageType ==
  ASSUME TypeInv, NEW j \in Jobs,
         ChoosePage(j) \/ Reuse(j) \/ CreateTask(j) \/ RunPage(j) \/ PageCompleted(j)
           \/ PageFailed(j) \/ PageInfra(j)
  PROVE  TypeInv'
<1> USE Facts DEF Fits
<1>1. /\ faults \in 0..MaxFaults /\ unsent \in BOOLEAN /\ asked \in 0..3
      /\ requests \in 0..MaxRequests
  BY DEF TypeInv, TypeOK
<1>2. CountPage => asked' \in 0..3
  BY <1>1 DEF CountPage
<1>3. CASE ChoosePage(j)
  <2>1. PICK p \in Pages, label \in {"await", "generate"} :
          job' = [job EXCEPT ![j].page = p, ![j].at = label]
    BY <1>3 DEF ChoosePage, OpenPages
  <2> DEFINE m == [job[j] EXCEPT !.page = p, !.at = label]
  <2>2. job' = [job EXCEPT ![j] = m]
    BY <2>1
  <2>3. m \in Job /\ m.at = label /\ m.page = p /\ m.kind = job[j].kind
    <3>1. label \in Labels /\ p \in 0..NPages /\ job[j] \in Job
      BY Sizes DEF Labels, Pages
    <3>2. QED
      BY <3>1 DEF Job
  <2>4. job[j].kind = "advance"
    BY <1>3 DEF ChoosePage
  <2> HIDE DEF m
  <2>5. Fits(m, Len(tasks))
    BY <2>3, <2>4
  <2>6. QED
    BY <1>1, <1>3, <2>2, <2>3, <2>5, OneJobOnly, ZenonT(30) DEF ChoosePage
<1>4. CASE Reuse(j)
  <2>1. PICK t \in DOMAIN tasks :
          /\ tasks' = [tasks EXCEPT ![t].status = "pending"]
          /\ job' = [job EXCEPT ![j].at = "run", ![j].task = t, ![j].seen = NewProject]
    BY <1>4 DEF Reuse, Reusable, Update
  <2> DEFINE m == [job[j] EXCEPT !.at = "run", !.task = t, !.seen = NewProject]
  <2>2. job' = [job EXCEPT ![j] = m]
    BY <2>1
  <2>3. t \in 1..Len(tasks) /\ t \in 0..MaxTasks
    BY Sizes
  <2>4. m \in Job /\ m.at = "run" /\ m.task = t /\ m.kind = job[j].kind /\ m.page = job[j].page
    BY <2>3, NewProjectType DEF Job, Labels
  <2>5. job[j].kind = "page"
    BY <1>4 DEF Reuse
  <2> HIDE DEF m
  <2>6. Fits(m, Len(tasks))
    BY <2>3, <2>4, <2>5
  <2>7. tasks' \in [DOMAIN tasks -> Task]
    BY <2>1, TaskFields DEF TaskStatus
  <2>8. asked' \in 0..3 /\ UNCHANGED <<project, requests, faults, unsent>>
    BY <1>2, <1>4 DEF Reuse
  <2>9. QED
    BY <1>1, <2>2, <2>4, <2>6, <2>7, <2>8, OneJobAndTasks
<1>5. CASE CreateTask(j)
  <2> DEFINE task == [page |-> job[j].page, status |-> "pending", article |-> FALSE, claim |-> 0]
             m == [job[j] EXCEPT !.at = "run", !.task = Len(tasks) + 1, !.seen = NewProject]
  <2>1. job[j].kind = "page" /\ job[j].page \in Pages /\ Len(tasks) < MaxTasks
    BY <1>5 DEF CreateTask
  <2>2. task \in Task
    BY <2>1, Sizes DEF Task, TaskStatus
  <2>3. tasks' = Append(tasks, task)
    BY <1>5 DEF CreateTask
  <2> HIDE DEF task
  <2>4. tasks' \in Seq(Task) /\ Len(tasks') = Len(tasks) + 1 /\ Len(tasks') <= MaxTasks
    BY <2>1, <2>2, <2>3, Sizes
  <2>5. job' = [job EXCEPT ![j] = m]
    BY <1>5 DEF CreateTask
  <2>6. Len(tasks) + 1 \in 0..MaxTasks
    BY <2>1, Sizes
  <2>7. m \in Job /\ m.at = "run" /\ m.task = Len(tasks) + 1 /\ m.kind = job[j].kind
        /\ m.page = job[j].page
    BY <2>6, NewProjectType DEF Job, Labels
  <2> HIDE DEF m
  <2>8. Fits(m, Len(tasks'))
    BY <2>1, <2>4, <2>7
  <2>9. /\ job' \in [Jobs -> Job]
        /\ \A k \in Jobs : Fits(job'[k], Len(tasks'))
    BY <2>4, <2>5, <2>7, <2>8, OneJob
  <2>10. asked' \in 0..3 /\ UNCHANGED <<project, requests, faults, unsent>>
    BY <1>2, <1>5 DEF CreateTask
  <2>11. QED
    BY <1>1, <2>4, <2>9, <2>10 DEF TypeInv, TypeOK
<1>6. CASE RunPage(j)
  <2>1. tasks' \in [DOMAIN tasks -> Task]
    BY <1>6, TaskFields DEF RunPage, TaskStatus
  <2>2. Goto(j, "running") /\ job[j].at = "run"
    BY <1>6 DEF RunPage
  <2>3. UNCHANGED <<project, requests, faults, asked, unsent>>
    BY <1>6 DEF RunPage
  <2>4. QED
    BY <1>1, <2>1, <2>2, <2>3, GotoType, OneJobAndTasks DEF Labels
<1>7. CASE PageCompleted(j)
  <2>1. tasks' \in [DOMAIN tasks -> Task]
    BY <1>7, TaskFields DEF PageCompleted, TaskStatus
  <2>2. Goto(j, "report") /\ job[j].at = "running"
    BY <1>7 DEF PageCompleted
  <2>3. UNCHANGED <<project, requests, faults, asked, unsent>>
    BY <1>7 DEF PageCompleted
  <2>4. QED
    BY <1>1, <2>1, <2>2, <2>3, GotoType, OneJobAndTasks DEF Labels
<1>8. CASE PageFailed(j)
  <2>1. tasks' \in [DOMAIN tasks -> Task]
    BY <1>8, TaskFields DEF PageFailed, TaskStatus, Update
  <2>2. Goto(j, "report") /\ job[j].at = "running"
    BY <1>8 DEF PageFailed
  <2>3. UNCHANGED <<project, requests, faults, asked, unsent>>
    BY <1>8 DEF PageFailed
  <2>4. QED
    BY <1>1, <2>1, <2>2, <2>3, GotoType, OneJobAndTasks DEF Labels
<1>9. CASE PageInfra(j)
  <2>1. tasks \in [DOMAIN tasks -> Task]
    OBVIOUS
  <2>2. tasks' \in [DOMAIN tasks -> Task]
    <3>1. tasks' = tasks \/ tasks' = [tasks EXCEPT ![job[j].task].status = "pending"]
      BY <1>9 DEF PageInfra, Update
    <3>2. [tasks EXCEPT ![job[j].task].status = "pending"] \in [DOMAIN tasks -> Task]
      BY TaskFields DEF TaskStatus
    <3>3. QED
      BY <2>1, <3>1, <3>2
  <2>3. project' \in Project
    BY <1>9 DEF PageInfra, Project, ProjectStatus
  <2> DEFINE m == [job[j] EXCEPT !.at = "retry", !.seen = project']
  <2>4. job' = [job EXCEPT ![j] = m] /\ job[j].at = "running"
    BY <1>9 DEF PageInfra
  <2>5. m \in Job /\ m.at = "retry" /\ m.kind = job[j].kind /\ m.page = job[j].page
    <3>1. m \in Job
      BY <2>3, SeenType DEF Labels
    <3>2. QED
      BY <3>1 DEF Job
  <2> HIDE DEF m
  <2>6. Fits(m, Len(tasks))
    BY <2>4, <2>5
  <2>7. faults' \in 0..MaxFaults /\ UNCHANGED <<requests, asked, unsent>>
    BY <1>1, <1>9, SizeAssumption DEF PageInfra
  <2>8. QED
    BY <1>1, <2>2, <2>3, <2>4, <2>5, <2>6, <2>7, OneJobAndTasks
<1>10. QED
  BY <1>3, <1>4, <1>5, <1>6, <1>7, <1>8, <1>9

LEMMA SlotType == Slots # {} => Slot \in Jobs /\ job[Slot].at = "free"
BY DEF Slots, Slot, Live

\* A step that changes messages at will, tasks in place and the counters.
LEMMA ManyJobs ==
  ASSUME TypeInv, job' \in [Jobs -> Job], \A k \in Jobs : Fits(job'[k], Len(tasks)),
         tasks' \in [DOMAIN tasks -> Task], project' \in Project,
         requests' \in 0..MaxRequests, faults' \in 0..MaxFaults, unsent' \in BOOLEAN,
         asked' \in 0..3
  PROVE  TypeInv'
<1>1. tasks' \in Seq(Task) /\ Len(tasks') = Len(tasks)
  BY SameLength, Facts
<1>2. QED
  BY <1>1, Facts DEF TypeInv, TypeOK

LEMMA QueueType ==
  ASSUME TypeInv, NEW m \in Job, Fits(m, Len(tasks)), Queue(m) \/ QueueNamed(m),
         tasks' \in [DOMAIN tasks -> Task], project' \in Project,
         requests' \in 0..MaxRequests, asked' \in 0..3
  PROVE  TypeInv'
<1>1. faults \in 0..MaxFaults /\ unsent \in BOOLEAN
  BY DEF TypeInv, TypeOK
<1>2. CASE Refused
  <2>1. faults' \in 0..MaxFaults /\ unsent' \in BOOLEAN /\ job' = job
    BY <1>1, <1>2, SizeAssumption DEF Refused
  <2>2. QED
    BY <2>1, Facts, ManyJobs
<1>3. CASE Slots # {} /\ job' = [job EXCEPT ![Slot] = m] /\ unsent' = FALSE /\ UNCHANGED faults
  <2>1. job' \in [Jobs -> Job] /\ \A k \in Jobs : Fits(job'[k], Len(tasks))
    BY <1>3, Facts, SlotType
  <2>2. QED
    BY <1>1, <1>3, <2>1, ManyJobs
<1>4. CASE /\ job' = [j \in Jobs |-> IF j = Slot THEN m ELSE [job[j] EXCEPT !.named = FALSE]]
           /\ unsent' = FALSE /\ UNCHANGED faults
  <2>1. ASSUME NEW k \in Jobs
        PROVE  /\ [job[k] EXCEPT !.named = FALSE] \in Job
               /\ Fits([job[k] EXCEPT !.named = FALSE], Len(tasks))
    BY Facts DEF Job, Fits
  <2>2. job' \in [Jobs -> Job] /\ \A k \in Jobs : Fits(job'[k], Len(tasks))
    BY <1>4, <2>1
  <2>3. QED
    BY <1>1, <1>4, <2>2, ManyJobs
<1>5. QED
  BY <1>2, <1>3, <1>4 DEF Queue, QueueNamed

\* A step that sends, ends or loses a message.
LEMMA EndType ==
  ASSUME TypeInv, NEW j \in Jobs, Send(j) \/ Ack(j) \/ Crash(j) \/ Lose(j) \/ SendFails(j)
  PROVE  TypeInv'
<1>1. /\ faults \in 0..MaxFaults /\ unsent \in BOOLEAN /\ asked \in 0..3
      /\ requests \in 0..MaxRequests
  BY DEF TypeInv, TypeOK
<1>2. CASE Send(j)
  <2>1. PICK s \in Jobs :
          job' = [job EXCEPT ![s] = Successor(j), ![j].at = "ack", ![j].seen = NewProject]
    BY <1>2, SlotType DEF Send
  <2>2. Successor(j) \in Job /\ Fits(Successor(j), Len(tasks))
    <3>1. job[j].kind = "advance" => job[j].page \in Pages
      BY <1>2, Facts DEF Send, Fits
    <3>2. 0 \in 0..NPages /\ Pages \subseteq 0..NPages
      BY Sizes DEF Pages
    <3>3. CASE job[j].kind = "advance"
      BY <3>1, <3>2, <3>3, Facts, MessageType DEF Successor, Kinds
    <3>4. CASE job[j].kind # "advance"
      BY <3>2, <3>4, Facts, MessageType DEF Successor, Kinds
    <3>5. QED
      BY <3>3, <3>4
  <2> DEFINE ended(m) == [m EXCEPT !.at = "ack", !.seen = NewProject]
  <2>3. ASSUME NEW m \in Job, Fits(m, Len(tasks))
        PROVE  ended(m) \in Job /\ Fits(ended(m), Len(tasks))
    <3>1. ended(m) \in Job
      BY NewProjectType, SeenType DEF Labels
    <3>2. ended(m).at = "ack" /\ ended(m).kind = m.kind /\ ended(m).page = m.page
      BY DEF Job
    <3> HIDE DEF ended
    <3>3. QED
      BY <2>3, <3>1, <3>2 DEF Fits
  <2> DEFINE sent == [job EXCEPT ![s] = Successor(j)]
  <2>4. sent \in [Jobs -> Job] /\ \A k \in Jobs : Fits(sent[k], Len(tasks))
    BY <2>2, Facts
  <2>5. job' = [sent EXCEPT ![j] = ended(sent[j])]
    BY <2>1, Facts
  <2> HIDE DEF sent, ended
  <2>6. job' \in [Jobs -> Job] /\ \A k \in Jobs : Fits(job'[k], Len(tasks))
    BY <2>3, <2>4, <2>5
  <2>7. UNCHANGED <<project, tasks, requests, faults, asked, unsent>>
    BY <1>2 DEF Send
  <2>8. QED
    BY <1>1, <2>6, <2>7, Facts, ManyJobs
<1>3. CASE Ack(j)
  <2>1. tasks' \in [DOMAIN tasks -> Task]
    BY <1>3, Facts, UnclaimedType DEF Ack
  <2>2. job' = Dropped({j}) /\ UNCHANGED <<project, requests, faults, asked, unsent>>
    BY <1>3 DEF Ack
  <2>3. QED
    BY <1>1, <2>1, <2>2, Facts, DroppedType
<1>4. CASE Crash(j)
  <2> DEFINE page == IF job[j].kind = "page" THEN job[j].page ELSE 0
             m == Message(job[j].kind, page, job[j].approved, job[j].named)
  <2>1. page \in 0..NPages /\ (job[j].kind = "page" => page \in Pages)
    BY Facts, Sizes DEF Fits, Pages
  <2>2. job[j].kind \in Kinds /\ job[j].approved \in BOOLEAN /\ job[j].named \in BOOLEAN
    BY Facts DEF Job
  <2>3. job' = [job EXCEPT ![j] = m]
    BY <1>4 DEF Crash
  <2> HIDE DEF page
  <2>4. m \in Job /\ Fits(m, Len(tasks))
    BY <2>1, <2>2, Facts, MessageType
  <2>5. faults' \in 0..MaxFaults /\ UNCHANGED <<project, tasks, requests, asked, unsent>>
    BY <1>1, <1>4, SizeAssumption DEF Crash
  <2> HIDE DEF m
  <2>6. QED
    BY <1>1, <2>3, <2>4, <2>5, Facts, OneJobOnly
<1>5. CASE Lose(j) \/ SendFails(j)
  <2>1. tasks' \in [DOMAIN tasks -> Task]
    BY <1>5, Facts, UnclaimedType DEF Lose, SendFails
  <2>2. /\ job' = Dropped({j}) /\ UNCHANGED <<project, requests, asked>>
        /\ unsent' \in BOOLEAN /\ faults < MaxFaults /\ faults' = faults + 1
    BY <1>1, <1>5 DEF Lose, SendFails
  <2>3. faults' \in 0..MaxFaults
    BY <1>1, <2>2, SizeAssumption
  <2>4. QED
    BY <1>1, <2>1, <2>2, <2>3, Facts, DroppedType
<1>6. QED
  BY <1>2, <1>3, <1>4, <1>5

LEMMA EnvironmentType ==
  ASSUME TypeInv, Environment
  PROVE  TypeInv'
<1>1. /\ faults \in 0..MaxFaults /\ unsent \in BOOLEAN /\ asked \in 0..3
      /\ requests \in 0..MaxRequests
  BY DEF TypeInv, TypeOK
<1>2. \A op : Request(op) => requests' \in 0..MaxRequests
  BY <1>1, SizeAssumption DEF Request
<1>3. tasks \in [DOMAIN tasks -> Task] /\ project \in Project /\ 0 \in 0..NPages
  BY Facts, Sizes
<1>4. \A status \in ProjectStatus, stopping \in BOOLEAN :
        [project EXCEPT !.status = status, !.stopping = stopping] \in Project
  BY Facts DEF Project
<1>5. \A named \in BOOLEAN :
        LET m == Message("start", 0, FALSE, named)
        IN  m \in Job /\ Fits(m, Len(tasks))
  BY <1>3, Facts, MessageType DEF Kinds
<1>6. CASE StartProject
  <2>1. /\ QueueNamed(Message("start", 0, FALSE, TRUE))
        /\ requests' \in 0..MaxRequests /\ UNCHANGED <<project, tasks, asked>>
    BY <1>2, <1>6 DEF StartProject
  <2>2. QED
    BY <1>1, <1>3, <1>5, <2>1, QueueType
<1>7. CASE StopProject
  <2>1. project' \in Project
    BY <1>7, Facts DEF StopProject, Project
  <2>2. asked' \in 0..3 /\ requests' \in 0..MaxRequests /\ UNCHANGED <<tasks, job, faults, unsent>>
    BY <1>1, <1>2, <1>7 DEF StopProject
  <2>3. QED
    BY <1>1, <1>3, <2>1, <2>2, Facts, ManyJobs
<1>8. CASE ResumeProject
  <2>1. /\ Queue(Message("start", 0, FALSE, FALSE))
        /\ requests' \in 0..MaxRequests /\ asked' = 0 /\ UNCHANGED tasks
    BY <1>2, <1>8 DEF ResumeProject
  <2>2. project' \in Project
    BY <1>4, <1>8 DEF ResumeProject, ProjectStatus
  <2>3. tasks' \in [DOMAIN tasks -> Task] /\ asked' \in 0..3
    BY <1>3, <2>1
  <2>4. QED
    BY <1>5, <2>1, <2>2, <2>3, QueueType
<1>9. CASE RetryFailed
  <2>1. /\ Queue(Message("start", 0, FALSE, FALSE))
        /\ requests' \in 0..MaxRequests /\ asked' = 0
    BY <1>2, <1>9 DEF RetryFailed
  <2>2. project' \in Project
    BY <1>4, <1>9 DEF RetryFailed, ProjectStatus
  <2>3. tasks' \in [DOMAIN tasks -> Task]
    <3>1. tasks' = [t \in DOMAIN tasks |-> IF t \in FailedTasks
                                           THEN [tasks[t] EXCEPT !.status = "pending"]
                                           ELSE tasks[t]]
      BY <1>9 DEF RetryFailed
    <3>2. \A task \in Task : [task EXCEPT !.status = "pending"] \in Task
      BY DEF Task, TaskStatus
    <3>3. QED
      BY <3>1, <3>2, Facts
  <2>4. asked' \in 0..3
    BY <2>1
  <2>5. QED
    BY <1>5, <2>1, <2>2, <2>3, <2>4, QueueType
<1>10. CASE ApprovePage
  <2> DEFINE m == Message("advance", 0, TRUE, FALSE)
  <2>1. m \in Job /\ Fits(m, Len(tasks))
    BY <1>3, Facts, MessageType DEF Kinds
  <2>2. Queue(m) /\ requests' \in 0..MaxRequests /\ asked' = 0 /\ UNCHANGED tasks
    BY <1>2, <1>10 DEF ApprovePage
  <2>3. project' \in Project
    BY <1>10, Facts DEF ApprovePage, Project, ProjectStatus
  <2> HIDE DEF m
  <2>4. QED
    BY <1>1, <1>3, <2>1, <2>2, <2>3, QueueType
<1>11. CASE ResetStatus
  <2> DEFINE revoked == {j \in Jobs : job[j].named}
  <2>1. /\ job' = Dropped(revoked) /\ tasks' = Unclaimed(revoked) /\ asked' = 0
        /\ requests' \in 0..MaxRequests /\ UNCHANGED <<faults, unsent>>
    BY <1>2, <1>11 DEF ResetStatus
  <2>2. project' \in Project
    BY <1>4, <1>11 DEF ResetStatus, ProjectStatus
  <2> HIDE DEF revoked
  <2>3. QED
    BY <1>1, <2>1, <2>2, Facts, UnclaimedType, DroppedType
<1>12. CASE MarkStale
  <2>1. PICK t \in DOMAIN tasks :
          LET revoked == {tasks[t].claim} \ {0}
          IN  job' = Dropped(revoked) /\ tasks' = [Unclaimed(revoked) EXCEPT ![t].status = "stale"]
    BY <1>12 DEF MarkStale
  <2> DEFINE js == {tasks[t].claim} \ {0}
  <2>2. tasks' \in [DOMAIN tasks -> Task]
    <3>1. Unclaimed(js) \in [DOMAIN tasks -> Task]
      BY Facts, UnclaimedType
    <3>2. tasks' = [Unclaimed(js) EXCEPT ![t].status = "stale"]
      BY <2>1
    <3> HIDE DEF js
    <3>3. QED
      BY <3>1, <3>2 DEF Task, TaskStatus
  <2>3. requests' \in 0..MaxRequests /\ UNCHANGED <<project, faults, asked, unsent>>
    BY <1>2, <1>12 DEF MarkStale
  <2>4. QED
    BY <1>1, <1>3, <2>1, <2>2, <2>3, DroppedType
<1>13. CASE Requeue
  <2>1. /\ Queue(Message("start", 0, FALSE, FALSE))
        /\ requests' \in 0..MaxRequests /\ UNCHANGED <<project, tasks, asked>>
    BY <1>2, <1>13 DEF Requeue
  <2>2. QED
    BY <1>1, <1>3, <1>5, <2>1, QueueType
<1>14. QED
  BY <1>6, <1>7, <1>8, <1>9, <1>10, <1>11, <1>12, <1>13 DEF Environment

LEMMA TypeInit == Init => TypeInv
<1> SUFFICES ASSUME Init PROVE TypeInv
  OBVIOUS
<1> DEFINE m == Message("start", 0, FALSE, TRUE)
<1>1. 0 \in 0..NPages /\ Len(tasks) = 0 /\ tasks \in Seq(Task)
  BY Sizes DEF Init
<1>2. m \in Job /\ Fits(m, Len(tasks)) /\ Free \in Job /\ Fits(Free, Len(tasks))
  <2>1. "start" \in Kinds /\ "start" # "page" /\ TRUE \in BOOLEAN /\ FALSE \in BOOLEAN
    BY DEF Kinds
  <2>2. Len(tasks) \in Nat
    BY <1>1
  <2>3. QED
    BY <1>1, <2>1, <2>2, MessageType, FreeType
<1>3. job = [j \in Jobs |-> Free] \/ job = [j \in Jobs |-> IF j = 1 THEN m ELSE Free]
  BY DEF Init
<1> HIDE DEF m
<1>4. job \in [Jobs -> Job] /\ \A j \in Jobs : Fits(job[j], Len(tasks))
  BY <1>2, <1>3
<1>5. project \in Project /\ unsent \in BOOLEAN
  BY NewProjectType DEF Init
<1>6. /\ Len(tasks) <= MaxTasks
      /\ requests \in 0..MaxRequests /\ faults \in 0..MaxFaults /\ asked \in 0..3
  BY <1>1, SizeAssumption DEF Init
<1>7. QED
  BY <1>1, <1>4, <1>5, <1>6 DEF TypeInv, TypeOK

LEMMA TypeNext == TypeInv /\ [Next]_vars => TypeInv'
<1> SUFFICES ASSUME TypeInv, [Next]_vars PROVE TypeInv'
  OBVIOUS
<1>1. CASE UNCHANGED vars
  BY <1>1 DEF vars, TypeInv, TypeOK, Fits
<1>2. CASE Environment
  BY <1>2, EnvironmentType
<1>3. ASSUME NEW j \in Jobs, Work(j) \/ Disturb(j)
      PROVE  TypeInv'
  BY <1>3, HandlerType, PageType, EndType DEF Work, Disturb
<1>4. QED
  BY <1>1, <1>2, <1>3 DEF Next

\* Type correctness of the coordinator: rows, messages and counters keep their types,
\* and a message at a place of a handler is of the kind that handler serves
\* (tasks.py:218-555).
THEOREM TypeCorrect == Spec => []TypeOK
<1>1. TypeInv => TypeOK
  BY DEF TypeInv
<1>2. QED
  BY <1>1, TypeInit, TypeNext, PTL DEF Spec

-----------------------------------------------------------------------------
(* The chain.  ChainAccounted is not inductive: a message may be live and    *)
(* yet end without a trace, one whose copy of the project is older than the  *)
(* request that made it "generating" again: the commit that ends it writes   *)
(* no status that differs from its copy, and so changes nothing.  What holds *)
(* the chain is a message that cannot do so.                                 *)

\* Is message j, with contents m, one whose end changes the status, sends the next
\* message or leaves a task that shows it?
Holds(j, m, rows) ==
  \/ m.at \in {"queued", "begin", "generate", "open", "run", "report", "retry", "send"}
  \/ m.at = "running" /\ rows[m.task].claim = j /\ rows[m.task].status = "processing"
  \/ m.at \in {"choose", "await", "build", "finish", "stop", "fail"}
       /\ m.seen.status = "generating"
  \/ m.at = "fail" /\ m.kind = "page"

Accounted == \/ unsent
             \/ \E t \in DOMAIN tasks : CutOff(t)
             \/ \E j \in Jobs : Holds(j, job[j], tasks)

ChainInv == project.status = "generating" => Accounted

LEMMA ChainInvImplies == ChainInv => ChainAccounted
BY DEF ChainInv, Accounted, Holds, ChainAccounted, ChainAlive, Chain

LEMMA Shown ==
  ASSUME NEW j \in Jobs, Holds(j, job'[j], tasks')
  PROVE  ChainInv'
BY DEF ChainInv, Accounted

\* One message changes: it holds the chain, or it did not before.
LEMMA Held ==
  ASSUME TypeInv, ChainInv, NEW j \in Jobs, NEW m \in Job, job' = [job EXCEPT ![j] = m],
         tasks' = tasks, unsent' = unsent,
         project'.status = "generating" =>
           \/ Holds(j, m, tasks)
           \/ project.status = "generating" /\ ~Holds(j, job[j], tasks)
  PROVE  ChainInv'
<1> SUFFICES ASSUME project'.status = "generating" PROVE Accounted'
  BY DEF ChainInv
<1>1. job'[j] = m /\ \A k \in Jobs \ {j} : job'[k] = job[k]
  BY Facts
<1>2. CASE Holds(j, m, tasks)
  BY <1>1, <1>2 DEF Accounted
<1>3. CASE project.status = "generating" /\ ~Holds(j, job[j], tasks)
  <2>1. Accounted
    BY <1>3 DEF ChainInv
  <2>2. CASE unsent \/ \E t \in DOMAIN tasks : CutOff(t)
    BY <2>2 DEF Accounted, CutOff
  <2>3. CASE \E k \in Jobs : Holds(k, job[k], tasks)
    BY <1>1, <1>3, <2>3 DEF Accounted
  <2>4. QED
    BY <2>1, <2>2, <2>3 DEF Accounted
<1>4. QED
  BY <1>2, <1>3

\* The status a commit leaves.
LEMMA CommitStatus ==
  ASSUME NEW j, NEW new, NEW label, Commit(j, new, label)
  PROVE  project'.status = IF new.status # job[j].seen.status THEN new.status
                           ELSE project.status
BY DEF Commit, Written

\* A message that ends holds the chain only if its copy is "generating", and then its
\* commit changes the status.
LEMMA LastCommit ==
  ASSUME TypeInv, ChainInv, NEW j \in Jobs, NEW new \in Project, Commit(j, new, "ack"),
         new.status # "generating", job[j].at \in {"await", "finish", "stop", "fail"},
         job[j].at = "fail" => job[j].kind # "page", tasks' = tasks, unsent' = unsent
  PROVE  ChainInv'
<1>1. PICK m \in Job : job' = [job EXCEPT ![j] = m]
  BY CommitType DEF Labels
<1>2. ASSUME project'.status = "generating"
      PROVE  project.status = "generating" /\ job[j].seen.status # "generating"
  BY <1>2, CommitStatus
<1>3. job[j].seen.status # "generating" => ~Holds(j, job[j], tasks)
  BY DEF Holds
<1>4. QED
  BY <1>1, <1>2, <1>3, Held

LEMMA HandlerChain ==
  ASSUME TypeInv, ChainInv, NEW j \in Jobs,
         StartLoad(j) \/ StartCommit(j) \/ AdvanceLoad(j) \/ ChooseNone(j) \/ AwaitCommit(j)
           \/ GenerateCommit(j) \/ Build(j) \/ Finish(j) \/ PageLoad(j) \/ StopCommit(j)
           \/ FailCommit(j) \/ Report(j) \/ HandlerError(j)
  PROVE  ChainInv'
<1>1. job[j].seen \in Project
  BY Facts
<1>2. \A status \in ProjectStatus, new \in Project :
        LET n == [new EXCEPT !.status = status] IN n \in Project /\ n.status = status
  BY DEF Project
<1>3. CASE StartLoad(j)
  <2>1. PICK m \in Job : job' = [job EXCEPT ![j] = m] /\ m.at = "begin"
    BY <1>3, LoadType DEF StartLoad, Labels
  <2>2. QED
    BY <1>3, <2>1, Held DEF StartLoad, Holds
<1>4. CASE StartCommit(j) \/ GenerateCommit(j)
  <2>1. PICK new \in Project : Commit(j, new, "send")
    BY <1>1, <1>2, <1>4 DEF StartCommit, GenerateCommit, ProjectStatus
  <2>2. PICK m \in Job : job' = [job EXCEPT ![j] = m] /\ m.at = "send"
    BY <2>1, CommitType DEF Labels
  <2>3. QED
    BY <1>4, <2>2, Held DEF StartCommit, GenerateCommit, Holds
<1>5. CASE AdvanceLoad(j) \/ PageLoad(j)
  <2>1. PICK m \in Job : /\ job' = [job EXCEPT ![j] = m]
                         /\ m.at \in {"choose", "open", "stop"} /\ m.seen = project
    <3>1. \E label \in {"choose", "open", "stop"} : Load(j, label)
      BY <1>5 DEF AdvanceLoad, PageLoad
    <3>2. QED
      BY <3>1, LoadType DEF Labels
  <2>2. UNCHANGED <<project, tasks, unsent>>
    BY <1>5 DEF AdvanceLoad, PageLoad
  <2>3. QED
    BY <2>1, <2>2, Held DEF Holds
<1>6. CASE ChooseNone(j)
  <2>1. PICK m \in Job : /\ job' = [job EXCEPT ![j] = m]
                         /\ m.at = "build" /\ m.seen = job[j].seen
    BY <1>6, GotoType DEF ChooseNone, Labels
  <2>2. UNCHANGED <<project, tasks, unsent>> /\ job[j].at = "choose"
    BY <1>6 DEF ChooseNone
  <2>3. QED
    BY <2>1, <2>2, Held DEF Holds
<1>7. CASE AwaitCommit(j)
  <2> DEFINE new == [job[j].seen EXCEPT !.status = "awaiting_page_approval"]
  <2>1. new \in Project /\ new.status # "generating"
    BY <1>1, <1>2 DEF ProjectStatus
  <2>2. Commit(j, new, "ack") /\ job[j].at = "await" /\ UNCHANGED <<tasks, unsent>>
    BY <1>7 DEF AwaitCommit
  <2> HIDE DEF new
  <2>3. QED
    BY <2>1, <2>2, LastCommit
<1>8. CASE Finish(j)
  <2> DEFINE new == [job[j].seen EXCEPT !.status = "completed"]
  <2>1. new \in Project /\ new.status # "generating"
    BY <1>1, <1>2 DEF ProjectStatus
  <2>2. Commit(j, new, "ack") /\ job[j].at = "finish" /\ UNCHANGED <<tasks, unsent>>
    BY <1>8 DEF Finish
  <2> HIDE DEF new
  <2>3. QED
    BY <2>1, <2>2, LastCommit
<1>9. CASE StopCommit(j)
  <2> DEFINE new == [job[j].seen EXCEPT !.status = "stopped", !.stopping = FALSE]
  <2>1. new \in Project /\ new.status # "generating"
    BY <1>1 DEF ProjectStatus, Project
  <2>2. Commit(j, new, "ack") /\ job[j].at = "stop" /\ UNCHANGED <<tasks, unsent>>
    BY <1>9 DEF StopCommit
  <2> HIDE DEF new
  <2>3. QED
    BY <2>1, <2>2, LastCommit
<1>10. CASE FailCommit(j)
  <2> DEFINE new == [job[j].seen EXCEPT !.status = "failed"]
  <2>1. new \in Project /\ new.status # "generating"
    BY <1>1, <1>2 DEF ProjectStatus
  <2>2. job[j].at = "fail" /\ UNCHANGED <<tasks, unsent>>
    BY <1>10 DEF FailCommit
  <2>3. job[j].kind # "page" => Commit(j, new, "ack")
    BY <1>10 DEF FailCommit
  <2>4. job[j].kind = "page" => Commit(j, new, "send")
    BY <1>10 DEF FailCommit
  <2> HIDE DEF new
  <2>5. CASE job[j].kind # "page"
    BY <2>1, <2>2, <2>3, <2>5, LastCommit
  <2>6. CASE job[j].kind = "page"
    <3>1. PICK m \in Job : job' = [job EXCEPT ![j] = m] /\ m.at = "send"
      BY <2>1, <2>4, <2>6, CommitType DEF Labels
    <3>2. QED
      BY <2>2, <3>1, Held DEF Holds
  <2>7. QED
    BY <2>5, <2>6
<1>11. CASE Build(j)
  <2> DEFINE built == \E t \in DOMAIN tasks : tasks[t].article
             new == [job[j].seen EXCEPT !.zip = built]
  <2>1. PICK label \in {"finish", "fail"} : Commit(j, new, label)
    BY <1>11 DEF Build
  <2>2. built \in BOOLEAN
    OBVIOUS
  <2> HIDE DEF built
  <2>3. new \in Project /\ new.status = job[j].seen.status
    BY <1>1, <2>2 DEF Project
  <2>4. job[j].at = "build" /\ UNCHANGED <<tasks, unsent>>
    BY <1>11 DEF Build
  <2> HIDE DEF new
  <2>5. PICK m \in Job : /\ job' = [job EXCEPT ![j] = m]
                         /\ m.at \in {"finish", "fail"} /\ m.seen = new
    BY <2>1, <2>3, CommitType DEF Labels
  <2>6. project'.status = project.status
    BY <2>1, <2>3, CommitStatus
  <2>7. QED
    BY <2>3, <2>4, <2>5, <2>6, Held DEF Holds
<1>12. CASE Report(j)
  <2>1. CASE project.stopping
    <3>1. PICK m \in Job : job' = [job EXCEPT ![j] = m] /\ m.at = "stop" /\ m.seen = project
      BY <1>12, <2>1, LoadType DEF Report, Labels
    <3>2. QED
      BY <1>12, <3>1, Held DEF Report, Holds
  <2>2. CASE ~project.stopping
    <3>1. PICK m \in Job : job' = [job EXCEPT ![j] = m] /\ m.at = "send"
      BY <1>12, <2>2, GotoType DEF Report, Labels
    <3>2. QED
      BY <1>12, <3>1, Held DEF Report, Holds
  <2>3. QED
    BY <2>1, <2>2
<1>13. CASE HandlerError(j)
  <2>1. PICK m \in Job : /\ job' = [job EXCEPT ![j] = m] /\ m.at = "fail"
                         /\ m.kind = job[j].kind /\ m.seen = job[j].seen
    BY <1>13, GotoType DEF HandlerError, Labels
  <2>2. UNCHANGED <<project, tasks, unsent>>
    BY <1>13 DEF HandlerError
  <2>3. CASE job[j].at \in {"choose", "build"}
    BY <2>1, <2>2, <2>3, Held DEF Holds
  <2>4. CASE job[j].at \in {"open", "retry"}
    <3>1. job[j].kind = "page"
      BY <2>4, Facts DEF Fits
    <3>2. QED
      BY <2>1, <2>2, <3>1, Held DEF Holds
  <2>5. CASE job[j].at = "send" /\ job[j].kind # "page"
    <3>1. job[j].seen.status = "generating"
      BY <2>5, Facts DEF Fits
    <3>2. QED
      BY <2>1, <2>2, <3>1, Held DEF Holds
  <2>6. QED
    BY <1>13, <2>3, <2>4, <2>5 DEF HandlerError
<1>14. QED
  BY <1>3, <1>4, <1>5, <1>6, <1>7, <1>8, <1>9, <1>10, <1>11, <1>12, <1>13

LEMMA PageChain ==
  ASSUME TypeInv, ChainInv, NEW j \in Jobs,
         ChoosePage(j) \/ Reuse(j) \/ CreateTask(j) \/ RunPage(j) \/ PageCompleted(j)
           \/ PageFailed(j) \/ PageInfra(j)
  PROVE  ChainInv'
<1>1. job[j] \in Job
  BY Facts
<1>2. CASE ChoosePage(j)
  <2>1. PICK p \in Pages, label \in {"await", "generate"} :
          job' = [job EXCEPT ![j].page = p, ![j].at = label]
    BY <1>2 DEF ChoosePage, OpenPages
  <2> DEFINE m == [job[j] EXCEPT !.page = p, !.at = label]
  <2>2. job' = [job EXCEPT ![j] = m]
    BY <2>1, Facts
  <2>3. m \in Job /\ m.at = label /\ m.seen = job[j].seen
    <3>1. label \in Labels /\ p \in 0..NPages
      BY Sizes DEF Labels, Pages
    <3>2. QED
      BY <1>1, <3>1 DEF Job
  <2>4. UNCHANGED <<project, tasks, unsent>> /\ job[j].at = "choose"
    BY <1>2 DEF ChoosePage
  <2> HIDE DEF m
  <2>5. QED
    BY <2>2, <2>3, <2>4, Held DEF Holds
<1>3. CASE Reuse(j) \/ CreateTask(j) \/ PageCompleted(j) \/ PageFailed(j)
  <2>1. job'[j].at \in {"run", "report"}
    <3>1. \A m \in Job : \A t, label :
            /\ [m EXCEPT !.at = label].at = label
            /\ [m EXCEPT !.at = label, !.task = t, !.seen = NewProject].at = label
      BY DEF Job
    <3>2. CASE Reuse(j) \/ CreateTask(j)
      <4>1. PICK t : job' = [job EXCEPT ![j].at = "run", ![j].task = t, ![j].seen = NewProject]
        BY <3>2 DEF Reuse, CreateTask
      <4>2. job'[j] = [job[j] EXCEPT !.at = "run", !.task = t, !.seen = NewProject]
        BY <4>1, Facts
      <4>3. QED
        BY <1>1, <3>1, <4>2
    <3>3. CASE PageCompleted(j) \/ PageFailed(j)
      <4>1. Goto(j, "report")
        BY <3>3 DEF PageCompleted, PageFailed
      <4>2. QED
        BY <4>1, GotoType, Facts DEF Labels
    <3>4. QED
      BY <1>3, <3>2, <3>3
  <2>2. QED
    BY <2>1, Shown DEF Holds
<1>4. CASE RunPage(j)
  <2>1. job[j].task \in DOMAIN tasks
    BY <1>4, Facts DEF RunPage, Fits
  <2>2. job'[j].at = "running" /\ job'[j].task = job[j].task
    BY <1>1, <1>4, Facts DEF RunPage, Goto, Job
  <2>3. tasks'[job[j].task].claim = j /\ tasks'[job[j].task].status = "processing"
    BY <1>4, <2>1, Facts DEF RunPage, Task
  <2>4. QED
    BY <2>2, <2>3, Shown DEF Holds
<1>5. CASE PageInfra(j)
  <2>1. project'.status = "pending"
    BY <1>5, Facts DEF PageInfra, Project
  <2>2. QED
    BY <2>1 DEF ChainInv
<1>6. QED
  BY <1>2, <1>3, <1>4, <1>5

\* Messages end or are lost: one that held the chain was running a page.
LEMMA DroppedChain ==
  ASSUME TypeInv, ChainInv, NEW js, job' = Dropped(js), tasks' = Unclaimed(js),
         project' = project, unsent' = unsent,
         \A j \in Jobs \cap js : Holds(j, job[j], tasks) => job[j].at = "running"
  PROVE  ChainInv'
<1> SUFFICES ASSUME project.status = "generating" PROVE Accounted'
  BY DEF ChainInv
<1>1. /\ DOMAIN tasks' = DOMAIN tasks
      /\ \A t \in DOMAIN tasks :
           /\ tasks'[t].status = tasks[t].status
           /\ tasks'[t].claim = IF tasks[t].claim \in js THEN 0 ELSE tasks[t].claim
  BY Facts DEF Unclaimed, Task
<1>2. CASE unsent
  BY <1>2 DEF Accounted
<1>3. CASE \E t \in DOMAIN tasks : CutOff(t)
  BY <1>1, <1>3 DEF Accounted, CutOff
<1>4. ASSUME NEW j \in Jobs, Holds(j, job[j], tasks)
      PROVE  Accounted'
  <2>1. job[j].at = "running" =>
          /\ job[j].task \in DOMAIN tasks
          /\ tasks[job[j].task].claim = j /\ tasks[job[j].task].status = "processing"
    BY <1>4, Facts DEF Holds, Fits
  <2>2. CASE j \in js
    BY <1>1, <1>4, <2>1, <2>2 DEF Accounted, CutOff
  <2>3. CASE j \notin js
    <3>1. job'[j] = job[j]
      BY <2>3 DEF Dropped
    <3>2. Holds(j, job'[j], tasks')
      BY <1>1, <1>4, <2>1, <2>3, <3>1 DEF Holds
    <3>3. QED
      BY <3>2 DEF Accounted
  <2>4. QED
    BY <2>2, <2>3
<1>5. QED
  BY <1>2, <1>3, <1>4 DEF ChainInv, Accounted

LEMMA EndChain ==
  ASSUME TypeInv, ChainInv, NEW j \in Jobs,
         Send(j) \/ Ack(j) \/ Crash(j) \/ Lose(j) \/ SendFails(j)
  PROVE  ChainInv'
<1>1. CASE Send(j)
  <2>1. Slot \in Jobs /\ Slot # j
    BY <1>1, SlotType DEF Send
  <2>2. job'[Slot] = Successor(j)
    BY <1>1, <2>1, Facts DEF Send
  <2>3. Successor(j).at = "queued"
    BY DEF Successor, Message
  <2>4. QED
    BY <2>1, <2>2, <2>3, Shown DEF Holds
<1>2. CASE Ack(j) \/ Lose(j)
  <2>1. /\ job' = Dropped({j}) /\ tasks' = Unclaimed({j})
        /\ project' = project /\ unsent' = unsent /\ job[j].at \in {"ack", "running"}
    BY <1>2 DEF Ack, Lose
  <2>2. QED
    BY <2>1, DroppedChain DEF Holds
<1>3. CASE Crash(j)
  <2>1. job'[j].at = "queued"
    BY <1>3, Facts DEF Crash, Message
  <2>2. QED
    BY <2>1, Shown DEF Holds
<1>4. CASE SendFails(j)
  BY <1>4 DEF SendFails, ChainInv, Accounted
<1>5. QED
  BY <1>1, <1>2, <1>3, <1>4

\* A request that makes the project "generating" queues a message, or raises.
LEMMA QueueChain ==
  ASSUME TypeInv, NEW m \in Job, m.at = "queued", Queue(m)
  PROVE  ChainInv'
<1>1. CASE Refused
  BY <1>1 DEF Refused, ChainInv, Accounted
<1>2. CASE Slots # {} /\ job' = [job EXCEPT ![Slot] = m]
  <2>1. Slot \in Jobs /\ job'[Slot] = m
    BY <1>2, SlotType, Facts
  <2>2. QED
    BY <2>1, Shown DEF Holds
<1>3. QED
  BY <1>1, <1>2 DEF Queue

LEMMA EnvironmentChain ==
  ASSUME TypeInv, ChainInv, Environment
  PROVE  ChainInv'
<1>1. 0 \in 0..NPages
  BY Sizes
<1>2. CASE StartProject \/ Requeue
  <2>1. project'.status = "pending"
    BY <1>2 DEF StartProject, Requeue
  <2>2. QED
    BY <2>1 DEF ChainInv
<1>3. CASE StopProject
  <2>1. project'.status = project.status
    BY <1>3, Facts DEF StopProject, Project
  <2>2. QED
    BY <1>3, <2>1 DEF StopProject, ChainInv, Accounted, CutOff
<1>4. CASE ResumeProject \/ RetryFailed
  <2> DEFINE m == Message("start", 0, FALSE, FALSE)
  <2>1. m \in Job /\ m.at = "queued"
    <3>1. m \in Job
      BY <1>1, MessageType DEF Kinds
    <3>2. QED
      BY <3>1 DEF Message
  <2>2. Queue(m)
    BY <1>4 DEF ResumeProject, RetryFailed
  <2> HIDE DEF m
  <2>3. QED
    BY <2>1, <2>2, QueueChain
<1>5. CASE ApprovePage
  <2> DEFINE m == Message("advance", 0, TRUE, FALSE)
  <2>1. m \in Job /\ m.at = "queued"
    <3>1. m \in Job
      BY <1>1, MessageType DEF Kinds
    <3>2. QED
      BY <3>1 DEF Message
  <2>2. Queue(m)
    BY <1>5 DEF ApprovePage
  <2> HIDE DEF m
  <2>3. QED
    BY <2>1, <2>2, QueueChain
<1>6. CASE ResetStatus
  <2>1. project'.status = "failed"
    BY <1>6, Facts DEF ResetStatus, Project
  <2>2. QED
    BY <2>1 DEF ChainInv
<1>7. CASE MarkStale
  <2>1. PICK t \in DOMAIN tasks :
          LET revoked == {tasks[t].claim} \ {0}
          IN  tasks' = [Unclaimed(revoked) EXCEPT ![t].status = "stale"]
    BY <1>7 DEF MarkStale
  <2> DEFINE rows == Unclaimed({tasks[t].claim} \ {0})
  <2>2. rows \in [DOMAIN tasks -> Task] /\ rows[t].claim = 0
    BY Facts, UnclaimedType DEF Unclaimed, Task
  <2>3. tasks' = [rows EXCEPT ![t].status = "stale"]
    BY <2>1
  <2> HIDE DEF rows
  <2>4. t \in DOMAIN tasks' /\ tasks'[t].status = "stale" /\ tasks'[t].claim = 0
    BY <2>2, <2>3 DEF Task
  <2>5. QED
    BY <2>4 DEF ChainInv, Accounted, CutOff
<1>8. QED
  BY <1>2, <1>3, <1>4, <1>5, <1>6, <1>7 DEF Environment

\* The chain of messages of a generating project is never broken unaccounted for: it
\* has a message that goes on, or a page's task that was cut off, or a send that the
\* broker refused (tasks.py:218-555), for every environment: any number of starts,
\* retries and chains at once, at any time.
THEOREM ChainNeverBroken == Spec => []ChainAccounted
<1>1. Init => ChainInv
  BY DEF Init, NewProject, ChainInv
<1>2. TypeInv /\ ChainInv /\ [Next]_vars => ChainInv'
  <2> SUFFICES ASSUME TypeInv, ChainInv, [Next]_vars PROVE ChainInv'
    OBVIOUS
  <2>1. CASE UNCHANGED vars
    BY <2>1 DEF vars, ChainInv, Accounted, CutOff
  <2>2. CASE Environment
    BY <2>2, EnvironmentChain
  <2>3. ASSUME NEW j \in Jobs, Work(j) \/ Disturb(j)
        PROVE  ChainInv'
    BY <2>3, HandlerChain, PageChain, EndChain DEF Work, Disturb
  <2>4. QED
    BY <2>1, <2>2, <2>3 DEF Next
<1>3. QED
  BY <1>1, <1>2, TypeInit, TypeNext, ChainInvImplies, PTL DEF Spec

-----------------------------------------------------------------------------
(* A tidy project: operators start, retry and reset it only at rest, beat     *)
(* does not queue it again, and no worker is lost.  Then there is one chain   *)
(* at a time, and the message that is the chain knows the project.            *)

Tidy == Careful /\ Faults \cap {"crash", "lost"} = {} /\ "requeue" \notin Requests

OneChain == \A i, j \in Jobs : Chain(i) /\ Chain(j) => i = j

\* Some statuses a chain leaves only as its last act.
Resting == {"stopped", "awaiting_page_approval", "completed"}
Settled == project.status \in Resting => AtRest

\* A task is being processed by the message that claims it.
Processed ==
  \A t \in DOMAIN tasks : tasks[t].status = "processing" =>
    LET j == tasks[t].claim IN j \in Jobs /\ job[j].at = "running" /\ job[j].task = t

\* The chosen page is still to be done.
Chosen(m) == \/ m.kind = "page" /\ m.at \in {"queued", "open"}
             \/ m.kind = "advance" /\ m.at \in {"generate", "send"}

\* What the message's handler knows when it is there.
Informed(j) ==
  /\ Chosen(job[j]) => job[j].page \notin DonePages
  /\ job[j].at \in {"build", "finish"} => OpenPages = {}
  /\ job[j].at \in {"choose", "build"} => (job[j].seen.zip => project.zip)
  /\ job[j].at = "finish" => project.zip
  /\ job[j].at = "stop" => job[j].seen.status # "stopped"
  /\ job[j].at = "open" => asked <= 1

\* A request to stop stands until the project has stopped.
StopStands ==
  /\ asked <= 2
  /\ asked # 0 => project.stopping \/ project.status = "stopped"

TidyInv ==
  /\ OneChain /\ Settled /\ Processed /\ \A j \in Jobs : Informed(j)
  /\ CompletedHasSite /\ OneTaskPerPage /\ StopStands

LEMMA ChainGoing ==
  ASSUME TypeInv, TidyInv, NEW j \in Jobs, Chain(j)
  PROVE  /\ project.status \notin Resting
         /\ \A k \in Jobs \ {j} : ~Chain(k) /\ job[k].at \in {"free", "ack"}
BY DEF TidyInv, OneChain, Settled, AtRest, Chain

LEMMA NothingProcessed ==
  ASSUME TypeInv, TidyInv, \A k \in Jobs : job[k].at # "running"
  PROVE  \A t \in DOMAIN tasks : tasks[t].status # "processing"
BY DEF TidyInv, Processed

LEMMA OneProcessed ==
  ASSUME TypeInv, TidyInv, NEW j \in Jobs, Chain(j)
  PROVE  \A t \in DOMAIN tasks :
           tasks[t].status = "processing" => job[j].at = "running" /\ t = job[j].task
BY DEF TidyInv, Processed, OneChain, Chain

\* A message that is no chain knows nothing.
LEMMA Uninformed ==
  \A j : job[j].at \in {"free", "ack", "begin", "await", "run", "running", "report", "retry", "fail"}
           => Informed(j)
BY DEF Informed, Chosen

\* Only the message of the chain changes.
LEMMA LoneJob ==
  ASSUME TypeInv, TidyInv, NEW j \in Jobs, Chain(j), NEW m \in Job, job' = [job EXCEPT ![j] = m],
         Informed(j)', project'.status \in Resting => m.at = "ack",
         Processed', CompletedHasSite', OneTaskPerPage', StopStands'
  PROVE  TidyInv'
<1>1. job'[j] = m /\ \A k \in Jobs \ {j} : job'[k] = job[k] /\ job[k].at \in {"free", "ack"}
  BY Facts, ChainGoing
<1>2. \A k \in Jobs \ {j} : ~Chain(k)'
  BY <1>1 DEF Chain
<1>3. OneChain'
  BY <1>2 DEF OneChain
<1>4. Settled'
  <2>1. m.at = "ack" => ~Chain(j)'
    BY <1>1 DEF Chain
  <2>2. QED
    BY <1>2, <2>1 DEF Settled, AtRest
<1>5. ASSUME NEW k \in Jobs \ {j}
      PROVE  Informed(k)'
  BY <1>1 DEF Informed, Chosen
<1>6. QED
  BY <1>3, <1>4, <1>5 DEF TidyInv

\* A handler's step that leaves the tasks alone.
LEMMA LoneHandler ==
  ASSUME TypeInv, TidyInv, NEW j \in Jobs, Chain(j), job[j].at # "running",
         NEW m \in Job, job' = [job EXCEPT ![j] = m], tasks' = tasks, asked' = asked,
         Informed(j)', project'.status \in Resting => m.at = "ack",
         project'.status = "completed" => project'.zip /\ OpenPages = {},
         project'.stopping = project.stopping \/ project'.status = "stopped"
  PROVE  TidyInv'
<1>1. \A t \in DOMAIN tasks : tasks[t].status # "processing"
  BY OneProcessed
<1>2. Processed'
  BY <1>1 DEF Processed
<1>3. CompletedHasSite' /\ OneTaskPerPage'
  BY DEF TidyInv, CompletedHasSite, OneTaskPerPage, OpenPages, DonePages
<1>4. StopStands'
  BY ChainGoing DEF TidyInv, StopStands, Resting
<1>5. QED
  BY <1>2, <1>3, <1>4, LoneJob

LEMMA SameProject ==
  ASSUME TypeInv, TidyInv, NEW j \in Jobs, Chain(j), job[j].at # "running",
         NEW m \in Job, job' = [job EXCEPT ![j] = m], tasks' = tasks, asked' = asked,
         project' = project, Informed(j)'
  PROVE  TidyInv'
BY ChainGoing, LoneHandler DEF Resting

\* What a commit leaves of the row.
LEMMA CommitRow ==
  ASSUME TypeInv, NEW old \in Project, NEW new \in Project, project' = Written(old, new)
  PROVE  /\ project'.status \in {new.status, project.status}
         /\ new.status # old.status => project'.status = new.status
         /\ new.status = old.status => project'.status = project.status
         /\ new.stopping = old.stopping => project'.stopping = project.stopping
         /\ new.zip = old.zip => project'.zip = project.zip
         /\ new.zip # old.zip => project'.zip = new.zip
BY DEF Written

LEMMA SamePages ==
  ASSUME tasks' = tasks
  PROVE  DonePages' = DonePages /\ OpenPages' = OpenPages
BY DEF DonePages, OpenPages

\* What is known of a message that only moves on.
LEMMA Moved ==
  ASSUME TypeInv, NEW j \in Jobs, NEW m \in Job, job' = [job EXCEPT ![j] = m]
  PROVE  job'[j] = m
BY Facts

LEMMA LoadsTidy ==
  ASSUME TypeInv, TidyInv, NEW j \in Jobs,
         StartLoad(j) \/ AdvanceLoad(j) \/ ChooseNone(j) \/ ChoosePage(j) \/ PageLoad(j)
           \/ Report(j) \/ HandlerError(j)
  PROVE  TidyInv'
<1>1. /\ Chain(j) /\ job[j].at # "running" /\ tasks' = tasks /\ asked' = asked /\ project' = project
  BY DEF StartLoad, AdvanceLoad, ChooseNone, ChoosePage, PageLoad, Report, HandlerError, Chain
<1>2. /\ project.status # "stopped" /\ DonePages' = DonePages /\ OpenPages' = OpenPages
      /\ Informed(j) /\ StopStands
  BY <1>1, ChainGoing, SamePages DEF TidyInv, Resting
<1>3. ASSUME NEW label \in {"begin", "stop", "choose", "open"}, Load(j, label),
             label = "open" => ~project.stopping /\ job[j].kind = "page" /\ job[j].at = "queued"
      PROVE  TidyInv'
  <2>1. PICK m \in Job : /\ job' = [job EXCEPT ![j] = m]
                         /\ m.at = label /\ m.kind = job[j].kind /\ m.page = job[j].page
                         /\ m.seen = project
    BY <1>3, LoadType DEF Labels
  <2>2. label = "open" => m.page \notin DonePages /\ asked <= 1
    <3>1. ASSUME label = "open"
          PROVE  job[j].page \notin DonePages /\ asked = 0
      BY <1>2, <1>3, <3>1 DEF Informed, Chosen, StopStands
    <3>2. QED
      BY <2>1, <3>1
  <2>3. Informed(j)'
    BY <1>1, <1>2, <1>3, <2>1, <2>2, Moved DEF Informed, Chosen
  <2>4. QED
    BY <1>1, <2>1, <2>3, SameProject
<1>4. CASE StartLoad(j)
  <2>1. Load(j, "begin") /\ "begin" \in Labels
    BY <1>4 DEF StartLoad, Labels
  <2>2. QED
    BY <1>3, <2>1
<1>5. CASE AdvanceLoad(j)
  <2>1. \E label \in {"stop", "choose"} : Load(j, label)
    BY <1>5 DEF AdvanceLoad
  <2>2. QED
    BY <1>3, <2>1 DEF Labels
<1>6. CASE PageLoad(j)
  <2>1. CASE project.stopping
    <3>1. Load(j, "stop") /\ "stop" \in Labels
      BY <1>6, <2>1 DEF PageLoad, Labels
    <3>2. QED
      BY <1>3, <3>1
  <2>2. CASE ~project.stopping
    <3>1. Load(j, "open") /\ "open" \in Labels /\ job[j].kind = "page" /\ job[j].at = "queued"
      BY <1>6, <2>2 DEF PageLoad, Labels
    <3>2. QED
      BY <1>3, <2>2, <3>1
  <2>3. QED
    BY <2>1, <2>2
<1>7. CASE Report(j)
  <2>1. CASE project.stopping
    <3>1. Load(j, "stop") /\ "stop" \in Labels
      BY <1>7, <2>1 DEF Report, Labels
    <3>2. QED
      BY <1>3, <3>1
  <2>2. CASE ~project.stopping
    <3>1. PICK m \in Job : job' = [job EXCEPT ![j] = m] /\ m.at = "send" /\ m.kind = job[j].kind
      BY <1>7, <2>2, GotoType DEF Report, Labels
    <3>2. job[j].kind = "page"
      BY <1>7, Facts DEF Report, Fits
    <3>3. Informed(j)'
      BY <3>1, <3>2, Moved DEF Informed, Chosen
    <3>4. QED
      BY <1>1, <3>1, <3>3, SameProject
  <2>3. QED
    BY <2>1, <2>2
<1>8. CASE ChooseNone(j)
  <2>1. PICK m \in Job : /\ job' = [job EXCEPT ![j] = m] /\ m.at = "build" /\ m.seen = job[j].seen
    BY <1>8, GotoType DEF ChooseNone, Labels
  <2>2. OpenPages = {} /\ (job[j].seen.zip => project.zip)
    BY <1>2, <1>8 DEF ChooseNone, Informed
  <2>3. Informed(j)'
    BY <1>1, <1>2, <2>1, <2>2, Moved DEF Informed, Chosen
  <2>4. QED
    BY <1>1, <2>1, <2>3, SameProject
<1>9. CASE ChoosePage(j)
  <2>1. PICK p \in OpenPages, label \in {"await", "generate"} :
          job' = [job EXCEPT ![j].page = p, ![j].at = label]
    BY <1>9 DEF ChoosePage
  <2> DEFINE m == [job[j] EXCEPT !.page = p, !.at = label]
  <2>2. m \in Job /\ m.at = label /\ m.page = p
    <3>1. label \in Labels /\ p \in 0..NPages /\ job[j] \in Job
      BY Sizes, Facts DEF Labels, Pages, OpenPages
    <3>2. QED
      BY <3>1 DEF Job
  <2>3. job' = [job EXCEPT ![j] = m]
    BY <2>1, Facts
  <2> HIDE DEF m
  <2>4. Informed(j)'
    BY <1>2, <2>1, <2>2, <2>3, Moved DEF Informed, Chosen, OpenPages
  <2>5. QED
    BY <1>1, <2>2, <2>3, <2>4, SameProject
<1>10. CASE HandlerError(j)
  <2>1. PICK m \in Job : job' = [job EXCEPT ![j] = m] /\ m.at = "fail"
    BY <1>10, GotoType DEF HandlerError, Labels
  <2>2. Informed(j)'
    BY <2>1, Moved DEF Informed, Chosen
  <2>3. QED
    BY <1>1, <2>1, <2>2, SameProject
<1>11. QED
  BY <1>4, <1>5, <1>6, <1>7, <1>8, <1>9, <1>10

LEMMA CommitsTidy ==
  ASSUME TypeInv, TidyInv, NEW j \in Jobs,
         StartCommit(j) \/ AwaitCommit(j) \/ GenerateCommit(j) \/ Build(j) \/ Finish(j)
           \/ FailCommit(j) \/ StopCommit(j)
  PROVE  TidyInv'
<1> DEFINE old == job[j].seen
<1>1. /\ Chain(j) /\ job[j].at # "running" /\ tasks' = tasks /\ asked' = asked
      /\ old \in Project
  BY Facts DEF StartCommit, AwaitCommit, GenerateCommit, Build, Finish, FailCommit, StopCommit, Chain
<1>2. /\ project.status \notin Resting /\ DonePages' = DonePages /\ OpenPages' = OpenPages
      /\ Informed(j)
  BY <1>1, ChainGoing, SamePages DEF TidyInv
<1>3. ASSUME NEW new \in Project, NEW label \in {"send", "ack"}, Commit(j, new, label),
             new.zip = old.zip, new.stopping = old.stopping \/ new.status # old.status,
             new.stopping = old.stopping \/ new.status = "stopped",
             new.status \in Resting => label = "ack",
             new.status = "completed" => project.zip /\ OpenPages = {},
             label = "send" => job[j].kind # "advance" \/ job[j].at = "generate"
      PROVE  TidyInv'
  <2>1. PICK m \in Job : /\ job' = [job EXCEPT ![j] = m]
                         /\ m.at = label /\ m.kind = job[j].kind /\ m.page = job[j].page
    BY <1>3, CommitType DEF Labels
  <2>2. project' = Written(old, new)
    BY <1>3 DEF Commit
  <2>3. /\ project'.status \in {new.status, project.status} /\ project'.zip = project.zip
        /\ project'.stopping = project.stopping \/ project'.status = "stopped"
    BY <1>1, <1>3, <2>2, CommitRow
  <2>4. Informed(j)'
    <3>1. Chosen(m) => m.page \notin DonePages
      BY <1>2, <1>3, <2>1 DEF Informed, Chosen
    <3>2. m.at \notin {"build", "finish", "choose", "stop", "open"} /\ job'[j] = m
      BY <1>3, <2>1, Moved
    <3>3. QED
      BY <1>2, <3>1, <3>2 DEF Informed
  <2>5. /\ project'.status \in Resting => m.at = "ack"
        /\ project'.status = "completed" => project'.zip /\ OpenPages = {}
    BY <1>2, <1>3, <2>1, <2>3 DEF Resting
  <2>6. QED
    BY <1>1, <2>1, <2>3, <2>4, <2>5, LoneHandler
<1>4. ASSUME NEW status \in ProjectStatus
      PROVE  LET new == [old EXCEPT !.status = status]
             IN  /\ new \in Project /\ new.status = status
                 /\ new.zip = old.zip /\ new.stopping = old.stopping
  BY <1>1 DEF Project
<1>5. CASE StartCommit(j)
  <2> DEFINE new == [old EXCEPT !.status = "generating"]
  <2>1. /\ new \in Project /\ new.status = "generating" /\ new.status \notin Resting
        /\ new.zip = old.zip /\ new.stopping = old.stopping
    BY <1>4 DEF ProjectStatus, Resting
  <2>2. Commit(j, new, "send") /\ job[j].kind # "advance"
    BY <1>5, Facts DEF StartCommit, Fits
  <2> HIDE DEF new
  <2>3. QED
    BY <1>3, <2>1, <2>2
<1>6. CASE AwaitCommit(j)
  <2> DEFINE new == [old EXCEPT !.status = "awaiting_page_approval"]
  <2>1. /\ new \in Project /\ new.status = "awaiting_page_approval"
        /\ new.zip = old.zip /\ new.stopping = old.stopping
    BY <1>4 DEF ProjectStatus
  <2>2. Commit(j, new, "ack")
    BY <1>6 DEF AwaitCommit
  <2> HIDE DEF new
  <2>3. QED
    BY <1>3, <2>1, <2>2
<1>7. CASE GenerateCommit(j)
  <2> DEFINE new == [old EXCEPT !.status = "generating"]
  <2>1. /\ new \in Project /\ new.status = "generating" /\ new.status \notin Resting
        /\ new.zip = old.zip /\ new.stopping = old.stopping
    BY <1>4 DEF ProjectStatus, Resting
  <2>2. Commit(j, new, "send") /\ job[j].at = "generate"
    BY <1>7 DEF GenerateCommit
  <2> HIDE DEF new
  <2>3. QED
    BY <1>3, <2>1, <2>2
<1>8. CASE Build(j)
  <2> DEFINE built == \E t \in DOMAIN tasks : tasks[t].article
             new == [old EXCEPT !.zip = built]
             label == IF built THEN "finish" ELSE "fail"
  <2>1. /\ Commit(j, new, label) /\ label \in Labels /\ job[j].at = "build"
        /\ label \in {"finish", "fail"} /\ (label = "finish" => built)
        /\ project' = Written(old, new)
    BY <1>8 DEF Build, Commit, Labels
  <2>2. built \in BOOLEAN
    OBVIOUS
  <2> HIDE DEF label, built
  <2>3. /\ new \in Project /\ new.zip = built
        /\ new.status = old.status /\ new.stopping = old.stopping
    BY <1>1, <2>2 DEF Project
  <2> HIDE DEF new
  <2>4. PICK m \in Job : job' = [job EXCEPT ![j] = m] /\ m.at = label
    BY <2>1, <2>3, CommitType
  <2>5. project'.status = project.status /\ project'.stopping = project.stopping
    BY <1>1, <2>1, <2>3, CommitRow
  <2>6. label = "finish" => project'.zip
    <3>1. old.zip => project.zip
      BY <1>2, <2>1 DEF Informed
    <3>2. new.zip = old.zip => project'.zip = project.zip
      BY <1>1, <2>1, <2>3, CommitRow
    <3>3. new.zip # old.zip => project'.zip = new.zip
      BY <1>1, <2>1, <2>3, CommitRow
    <3>4. new.zip \in BOOLEAN /\ old.zip \in BOOLEAN /\ (label = "finish" => new.zip)
      BY <1>1, <2>1, <2>3 DEF Project
    <3> QED
      BY <3>1, <3>2, <3>3, <3>4
  <2>7. Informed(j)'
    BY <1>2, <2>1, <2>4, <2>6, Moved DEF Informed, Chosen
  <2>8. QED
    BY <1>1, <1>2, <2>4, <2>5, <2>7, LoneHandler DEF Resting
<1>9. CASE Finish(j)
  <2> DEFINE new == [old EXCEPT !.status = "completed"]
  <2>1. /\ new \in Project /\ new.status = "completed"
        /\ new.zip = old.zip /\ new.stopping = old.stopping
    BY <1>4 DEF ProjectStatus
  <2>2. Commit(j, new, "ack") /\ project.zip /\ OpenPages = {}
    BY <1>2, <1>9 DEF Finish, Informed
  <2> HIDE DEF new
  <2>3. QED
    BY <1>3, <2>1, <2>2
<1>10. CASE FailCommit(j)
  <2> DEFINE new == [old EXCEPT !.status = "failed"]
             label == IF job[j].kind = "page" THEN "send" ELSE "ack"
  <2>1. /\ new \in Project /\ new.status = "failed" /\ new.status \notin Resting
        /\ new.zip = old.zip /\ new.stopping = old.stopping
    BY <1>4 DEF ProjectStatus, Resting
  <2>2. /\ Commit(j, new, label) /\ label \in {"send", "ack"}
        /\ (label = "send" => job[j].kind # "advance")
    BY <1>10 DEF FailCommit
  <2> HIDE DEF new, label
  <2>3. QED
    BY <1>3, <2>1, <2>2
<1>11. CASE StopCommit(j)
  <2> DEFINE new == [old EXCEPT !.status = "stopped", !.stopping = FALSE]
  <2>1. new \in Project /\ new.status = "stopped" /\ new.zip = old.zip
    BY <1>1 DEF ProjectStatus, Project
  <2>2. Commit(j, new, "ack") /\ old.status # "stopped"
    BY <1>2, <1>11 DEF StopCommit, Informed
  <2> HIDE DEF new
  <2>3. QED
    BY <1>3, <2>1, <2>2
<1>12. QED
  BY <1>5, <1>6, <1>7, <1>8, <1>9, <1>10, <1>11

\* One row of the tasks changes; which page it is for does not.
OneRow(t) ==
  /\ tasks' \in [DOMAIN tasks -> Task]
  /\ \A u \in DOMAIN tasks : tasks'[u].page = tasks[u].page
  /\ \A u \in DOMAIN tasks \ {t} : tasks'[u] = tasks[u]

LEMMA RowStatus ==
  ASSUME TypeInv, NEW t \in DOMAIN tasks, NEW status \in TaskStatus,
         tasks' = [tasks EXCEPT ![t].status = status]
  PROVE  OneRow(t) /\ tasks'[t].status = status
<1>1. tasks' \in [DOMAIN tasks -> Task]
  BY TaskFields, Facts
<1>2. tasks'[t].status = status /\ tasks'[t].page = tasks[t].page
  BY Facts DEF Task
<1>3. \A u \in DOMAIN tasks \ {t} : tasks'[u] = tasks[u]
  BY Facts
<1>4. QED
  BY <1>1, <1>2, <1>3 DEF OneRow

LEMMA RowArticle ==
  ASSUME TypeInv, NEW t \in DOMAIN tasks, NEW status \in TaskStatus,
         tasks' = [tasks EXCEPT ![t].status = status, ![t].article = TRUE]
  PROVE  OneRow(t) /\ tasks'[t].status = status
<1>1. tasks' \in [DOMAIN tasks -> Task]
  BY TaskFields, Facts
<1>2. tasks'[t].status = status /\ tasks'[t].page = tasks[t].page
  BY Facts DEF Task
<1>3. \A u \in DOMAIN tasks \ {t} : tasks'[u] = tasks[u]
  BY Facts
<1>4. QED
  BY <1>1, <1>2, <1>3 DEF OneRow

\* A step of the page's handler that changes the row of its task.
LEMMA LonePage ==
  ASSUME TypeInv, TidyInv, NEW j \in Jobs, Chain(j), NEW m \in Job, job' = [job EXCEPT ![j] = m],
         m.at \in {"run", "running", "report", "retry"},
         NEW t \in DOMAIN tasks, OneRow(t),
         job[j].at = "running" => t = job[j].task,
         tasks'[t].status = "processing" =>
           m.at = "running" /\ tasks'[t].claim = j /\ m.task = t,
         project'.status \notin Resting, project'.stopping = project.stopping,
         asked' <= 2, asked' # 0 => asked # 0
  PROVE  TidyInv'
<1>1. job'[j] = m /\ DOMAIN tasks' = DOMAIN tasks
  BY Moved DEF OneRow
<1>2. Informed(j)'
  BY <1>1 DEF Informed, Chosen
<1>3. Processed'
  <2>1. ASSUME NEW u \in DOMAIN tasks, u # t
        PROVE  tasks'[u].status # "processing"
    BY <2>1, OneProcessed DEF OneRow
  <2>2. QED
    BY <1>1, <2>1 DEF Processed
<1>4. OneTaskPerPage'
  BY <1>1 DEF TidyInv, OneTaskPerPage, OneRow
<1>5. CompletedHasSite'
  BY DEF CompletedHasSite, Resting
<1>6. StopStands'
  BY ChainGoing DEF TidyInv, StopStands, Resting
<1>7. QED
  BY <1>2, <1>3, <1>4, <1>5, <1>6, LoneJob DEF Resting

LEMMA Counted ==
  ASSUME TypeInv, asked <= 1, CountPage
  PROVE  asked' <= 2 /\ (asked' # 0 => asked # 0)
BY DEF CountPage, TypeInv, TypeOK

\* The message that opens a page may, and the page is not done.
LEMMA Opens ==
  ASSUME TypeInv, TidyInv, NEW j \in Jobs, job[j].at = "open"
  PROVE  /\ Chain(j) /\ job[j].kind = "page" /\ job[j].page \in Pages
         /\ project.status \notin Resting /\ job[j].page \notin DonePages /\ asked <= 1
<1>1. Chain(j) /\ job[j].kind = "page" /\ job[j].page \in Pages
  BY Facts DEF Chain, Fits
<1>2. QED
  BY <1>1, ChainGoing DEF TidyInv, Informed, Chosen

LEMMA ReuseTidy ==
  ASSUME TypeInv, TidyInv, NEW j \in Jobs, Reuse(j)
  PROVE  TidyInv'
<1>1. job[j].at = "open" /\ project' = project /\ CountPage
  BY DEF Reuse
<1>2. asked' <= 2 /\ (asked' # 0 => asked # 0)
  BY <1>1, Opens, Counted
<1>3. PICK t \in Reusable(j) :
        /\ Update(t, "pending")
        /\ job' = [job EXCEPT ![j].at = "run", ![j].task = t, ![j].seen = NewProject]
  BY Zenon DEF Reuse
<1> DEFINE m == [job[j] EXCEPT !.at = "run", !.task = t, !.seen = NewProject]
<1>4. job' = [job EXCEPT ![j] = m]
  BY <1>3, Facts
<1>5. t \in DOMAIN tasks /\ t \in 0..MaxTasks /\ job[j] \in Job
  BY Facts, Sizes DEF Reusable
<1>6. m \in Job /\ m.at = "run"
  BY <1>5, NewProjectType DEF Job, Labels
<1> HIDE DEF m
<1>7. OneRow(t) /\ tasks'[t].status = "pending"
  BY <1>3, <1>5, RowStatus DEF Update, TaskStatus
<1>8. QED
  BY <1>1, <1>2, <1>4, <1>5, <1>6, <1>7, Opens, LonePage

LEMMA CreateTidy ==
  ASSUME TypeInv, TidyInv, NEW j \in Jobs, CreateTask(j)
  PROVE  TidyInv'
<1> DEFINE task == [page |-> job[j].page, status |-> "pending", article |-> FALSE, claim |-> 0]
           n == Len(tasks) + 1
           m == [job[j] EXCEPT !.at = "run", !.task = n, !.seen = NewProject]
<1>1. job[j].at = "open" /\ project' = project /\ CountPage
  BY DEF CreateTask
<1>2. asked' <= 2 /\ (asked' # 0 => asked # 0)
  BY <1>1, Opens, Counted
<1>3. tasks' = Append(tasks, task) /\ Reusable(j) = {} /\ Len(tasks) < MaxTasks
  BY DEF CreateTask
<1>4. job' = [job EXCEPT ![j] = m]
  BY Facts DEF CreateTask
<1>5. n \in 0..MaxTasks /\ job[j] \in Job
  BY <1>3, Facts, Sizes
<1>6. m \in Job /\ m.at = "run"
  BY <1>5, NewProjectType DEF Job, Labels
<1>7. task.page = job[j].page /\ task.status = "pending"
  OBVIOUS
<1> HIDE DEF task, m
<1>8. /\ DOMAIN tasks' = DOMAIN tasks \cup {n} /\ tasks'[n] = task /\ n \notin DOMAIN tasks
      /\ \A t \in DOMAIN tasks : tasks'[t] = tasks[t]
  BY <1>3, Facts
<1> HIDE DEF n
<1>9. Informed(j)'
  BY <1>4, <1>6, Moved DEF Informed, Chosen
<1>10. \A t \in DOMAIN tasks : tasks[t].status # "processing"
  BY <1>1, Opens, OneProcessed
<1>11. Processed'
  BY <1>7, <1>8, <1>10 DEF Processed
<1>12. \A t \in DOMAIN tasks : tasks[t].page # job[j].page
  <2>1. SUFFICES ASSUME NEW t \in DOMAIN tasks, tasks[t].page = job[j].page
                 PROVE  FALSE
    OBVIOUS
  <2>2. tasks[t].status \in {"completed", "failed", "stale"}
    BY <1>3, <1>10, <2>1, Facts DEF Reusable, Task, TaskStatus
  <2>3. QED
    BY <1>1, <2>1, <2>2, Opens DEF DonePages, DoneStatus
<1>13. OneTaskPerPage'
  BY <1>7, <1>8, <1>12 DEF TidyInv, OneTaskPerPage
<1>14. CompletedHasSite' /\ StopStands'
  BY <1>1, <1>2, Opens DEF TidyInv, CompletedHasSite, StopStands, Resting
<1>15. QED
  BY <1>1, <1>4, <1>6, <1>9, <1>11, <1>13, <1>14, Opens, LoneJob

LEMMA RunsTidy ==
  ASSUME TypeInv, TidyInv, NEW j \in Jobs,
         RunPage(j) \/ PageCompleted(j) \/ PageFailed(j) \/ PageInfra(j)
  PROVE  TidyInv'
<1> DEFINE t == job[j].task
<1>1. Chain(j) /\ job[j].at \in {"run", "running"} /\ t \in DOMAIN tasks /\ asked' = asked
  BY Facts DEF RunPage, PageCompleted, PageFailed, PageInfra, Chain, Fits
<1>2. project.status \notin Resting /\ asked <= 2
  BY <1>1, ChainGoing DEF TidyInv, StopStands
<1>3. CASE RunPage(j)
  <2>1. OneRow(t) /\ tasks'[t].status = "processing" /\ tasks'[t].claim = j
    <3>1. tasks' = [tasks EXCEPT ![t].status = "processing", ![t].claim = j]
      BY <1>3 DEF RunPage
    <3>2. tasks' \in [DOMAIN tasks -> Task]
      BY <3>1, TaskFields, Facts DEF TaskStatus
    <3>3. /\ tasks'[t].status = "processing" /\ tasks'[t].page = tasks[t].page
          /\ tasks'[t].claim = j
      BY <1>1, <3>1, Facts DEF Task
    <3>4. \A u \in DOMAIN tasks \ {t} : tasks'[u] = tasks[u]
      BY <3>1, Facts
    <3>5. QED
      BY <3>2, <3>3, <3>4 DEF OneRow
  <2>2. PICK m \in Job : job' = [job EXCEPT ![j] = m] /\ m.at = "running" /\ m.task = t
    BY <1>3, GotoType DEF RunPage, Labels
  <2>3. project' = project
    BY <1>3 DEF RunPage
  <2>4. QED
    BY <1>1, <1>2, <2>1, <2>2, <2>3, LonePage
<1>4. CASE PageCompleted(j) \/ PageFailed(j)
  <2>1. OneRow(t) /\ tasks'[t].status \in {"completed", "failed"}
    BY <1>1, <1>4, RowStatus, RowArticle DEF PageCompleted, PageFailed, Update, TaskStatus
  <2>2. PICK m \in Job : job' = [job EXCEPT ![j] = m] /\ m.at = "report"
    BY <1>4, GotoType DEF PageCompleted, PageFailed, Labels
  <2>3. project' = project
    BY <1>4 DEF PageCompleted, PageFailed
  <2>4. QED
    BY <1>1, <1>2, <2>1, <2>2, <2>3, LonePage
<1>5. CASE PageInfra(j)
  <2>1. /\ project'.status = "pending" /\ project'.stopping = project.stopping
        /\ project' \in Project
    BY <1>5, Facts DEF PageInfra, Project, ProjectStatus
  <2> DEFINE m == [job[j] EXCEPT !.at = "retry", !.seen = project']
  <2>2. job' = [job EXCEPT ![j] = m]
    BY <1>5, Facts DEF PageInfra
  <2>3. m \in Job
    <3>1. "retry" \in Labels /\ job[j] \in Job
      BY Facts DEF Labels
    <3>2. project' \in Project
      BY <2>1
    <3>3. QED
      BY <3>1, <3>2 DEF Job
  <2>4. m.at = "retry"
    BY <2>3 DEF Job
  <2> HIDE DEF m
  <2>5. OneRow(t) /\ tasks'[t].status # "processing"
    <3>1. CASE tasks[t].status \in {"failed", "completed"}
      BY <1>1, <1>5, <3>1, Facts DEF PageInfra, OneRow
    <3>2. CASE tasks[t].status \notin {"failed", "completed"}
      BY <1>1, <1>5, <3>2, RowStatus DEF PageInfra, Update, TaskStatus
    <3>3. QED
      BY <3>1, <3>2
  <2>6. QED
    BY <1>1, <1>2, <2>1, <2>2, <2>3, <2>4, <2>5, LonePage DEF Resting
<1>6. QED
  BY <1>3, <1>4, <1>5

\* A step that leaves no chain but a message that is new.
LEMMA NewChain ==
  ASSUME job' \in [Jobs -> Job], NEW s \in Jobs,
         \A k \in Jobs \ {s} : job'[k].at \in {"free", "ack"},
         job'[s].at \in {"queued", "free", "ack"},
         job'[s].at = "queued" => project'.status \notin Resting,
         job'[s].kind = "page" /\ job'[s].at = "queued" => job'[s].page \notin DonePages',
         \A t \in DOMAIN tasks' : tasks'[t].status # "processing",
         CompletedHasSite', OneTaskPerPage', StopStands'
  PROVE  TidyInv'
<1>1. OneChain'
  BY DEF OneChain, Chain
<1>2. Settled'
  BY DEF Settled, AtRest, Chain
<1>3. Processed'
  BY DEF Processed
<1>4. ASSUME NEW k \in Jobs
      PROVE  Informed(k)'
  <2>1. job'[k].at \in {"queued", "free", "ack"}
    OBVIOUS
  <2>2. Chosen(job'[k]) => job'[k].page \notin DonePages'
    BY <2>1 DEF Chosen
  <2>3. QED
    BY <2>1, <2>2 DEF Informed
<1>5. QED
  BY <1>1, <1>2, <1>3, <1>4 DEF TidyInv

\* What is left of the tasks when claims are cleared.
LEMMA UnclaimedRows ==
  ASSUME TypeInv, NEW js, tasks' = Unclaimed(js)
  PROVE  /\ DOMAIN tasks' = DOMAIN tasks
         /\ \A t \in DOMAIN tasks : /\ tasks'[t].status = tasks[t].status
                                    /\ tasks'[t].page = tasks[t].page
                                    /\ tasks[t].claim \notin js => tasks'[t] = tasks[t]
         /\ DonePages' = DonePages /\ OpenPages' = OpenPages
<1>1. /\ DOMAIN tasks' = DOMAIN tasks
      /\ \A t \in DOMAIN tasks : /\ tasks'[t].status = tasks[t].status
                                 /\ tasks'[t].page = tasks[t].page
                                 /\ tasks[t].claim \notin js => tasks'[t] = tasks[t]
  BY Facts DEF Unclaimed, Task
<1>2. DonePages' = DonePages
  BY <1>1 DEF DonePages
<1>3. QED
  BY <1>1, <1>2 DEF OpenPages

\* Messages that are dropped hold nothing.
LEMMA DroppedJobs ==
  ASSUME TypeInv, NEW js, job' = Dropped(js)
  PROVE  /\ job' \in [Jobs -> Job]
         /\ \A k \in Jobs : IF k \in js THEN job'[k].at = "free" ELSE job'[k] = job[k]
BY Facts, FreeType DEF Dropped

LEMMA SendTidy ==
  ASSUME TypeInv, TidyInv, NEW j \in Jobs, Send(j)
  PROVE  TidyInv'
<1>1. Chain(j) /\ job[j].at \in {"send", "retry"} /\ UNCHANGED <<project, tasks, asked>>
  BY DEF Send, Chain
<1>2. /\ project.status \notin Resting /\ Informed(j)
      /\ \A k \in Jobs \ {j} : job[k].at \in {"free", "ack"}
      /\ DonePages' = DonePages
  BY <1>1, ChainGoing, SamePages DEF TidyInv
<1>3. PICK s \in Jobs \ {j} :
        job' = [job EXCEPT ![s] = Successor(j), ![j].at = "ack", ![j].seen = NewProject]
  BY SlotType DEF Send
<1> DEFINE m == [job[j] EXCEPT !.at = "ack", !.seen = NewProject]
<1>4. /\ job'[s] = Successor(j) /\ job'[j] = m
      /\ \A k \in Jobs \ {s, j} : job'[k] = job[k]
  BY <1>3, Facts
<1>5. m.at = "ack"
  BY Facts DEF Job
<1> HIDE DEF m
<1>6. job' \in [Jobs -> Job]
  BY EndType DEF TypeInv, TypeOK
<1>7. /\ Successor(j).at = "queued"
      /\ Successor(j).kind = "page" => job[j].kind = "advance" /\ Successor(j).page = job[j].page
  BY DEF Successor, Message
<1>8. job[j].kind = "advance" => job[j].page \notin DonePages
  BY <1>1, <1>2, Facts DEF Informed, Chosen, Fits
<1>9. CompletedHasSite' /\ OneTaskPerPage' /\ StopStands'
  BY <1>1, <1>2 DEF TidyInv, CompletedHasSite, OneTaskPerPage, StopStands, Resting
<1>10. \A t \in DOMAIN tasks' : tasks'[t].status # "processing"
  BY <1>1, OneProcessed
<1>11. QED
  BY <1>1, <1>2, <1>4, <1>5, <1>6, <1>7, <1>8, <1>9, <1>10, NewChain

LEMMA AckTidy ==
  ASSUME TypeInv, TidyInv, NEW j \in Jobs, Ack(j)
  PROVE  TidyInv'
<1>1. /\ job[j].at = "ack" /\ job' = Dropped({j}) /\ tasks' = Unclaimed({j})
      /\ UNCHANGED <<project, asked>>
  BY DEF Ack
<1>2. /\ job'[j].at = "free"
      /\ \A k \in Jobs \ {j} : job'[k] = job[k]
  BY <1>1, DroppedJobs
<1>3. OneChain' /\ Settled'
  BY <1>1, <1>2 DEF TidyInv, OneChain, Settled, AtRest, Chain
<1>4. Processed'
  <2>1. ASSUME NEW t \in DOMAIN tasks, tasks[t].status = "processing"
        PROVE  /\ tasks'[t] = tasks[t] /\ tasks[t].claim \in Jobs \ {j}
               /\ job[tasks[t].claim].at = "running" /\ job[tasks[t].claim].task = t
    <3>1. LET k == tasks[t].claim IN k \in Jobs /\ job[k].at = "running" /\ job[k].task = t
      BY <2>1 DEF TidyInv, Processed
    <3>2. tasks[t].claim # j
      BY <1>1, <3>1
    <3>3. QED
      BY <1>1, <3>1, <3>2, UnclaimedRows
  <2>2. QED
    BY <1>1, <1>2, <2>1, UnclaimedRows DEF Processed
<1>5. ASSUME NEW k \in Jobs
      PROVE  Informed(k)'
  <2>1. CASE k = j
    BY <1>2, <2>1 DEF Informed, Chosen
  <2>2. CASE k # j
    BY <1>1, <1>2, <2>2, UnclaimedRows DEF TidyInv, Informed, Chosen
  <2>3. QED
    BY <2>1, <2>2
<1>6. CompletedHasSite' /\ OneTaskPerPage' /\ StopStands'
  <2>1. CompletedHasSite' /\ StopStands'
    BY <1>1, UnclaimedRows DEF TidyInv, CompletedHasSite, StopStands
  <2>2. OneTaskPerPage'
    <3>1. DOMAIN tasks' = DOMAIN tasks /\ \A t \in DOMAIN tasks : tasks'[t].page = tasks[t].page
      BY <1>1, UnclaimedRows
    <3>2. QED
      BY <3>1 DEF TidyInv, OneTaskPerPage
  <2>3. QED
    BY <2>1, <2>2
<1>7. QED
  BY <1>3, <1>4, <1>5, <1>6 DEF TidyInv

LEMMA SendFailsTidy ==
  ASSUME TypeInv, TidyInv, NEW j \in Jobs, SendFails(j)
  PROVE  TidyInv'
<1>1. /\ Chain(j) /\ job[j].at = "send" /\ job' = Dropped({j}) /\ tasks' = Unclaimed({j})
      /\ UNCHANGED <<project, asked>>
  BY DEF SendFails, Chain
<1>2. /\ job' \in [Jobs -> Job] /\ job'[j].at = "free"
      /\ \A k \in Jobs \ {j} : job'[k].at \in {"free", "ack"}
  BY <1>1, DroppedJobs, ChainGoing
<1>3. \A t \in DOMAIN tasks' : tasks'[t].status # "processing"
  BY <1>1, OneProcessed, UnclaimedRows
<1>4. CompletedHasSite' /\ OneTaskPerPage' /\ StopStands'
  <2>1. CompletedHasSite' /\ StopStands'
    BY <1>1, UnclaimedRows DEF TidyInv, CompletedHasSite, StopStands
  <2>2. OneTaskPerPage'
    <3>1. DOMAIN tasks' = DOMAIN tasks /\ \A t \in DOMAIN tasks : tasks'[t].page = tasks[t].page
      BY <1>1, UnclaimedRows
    <3>2. QED
      BY <3>1 DEF TidyInv, OneTaskPerPage
  <2>3. QED
    BY <2>1, <2>2
<1>5. QED
  BY <1>2, <1>3, <1>4, NewChain

\* A request at rest that queues a message, or is refused.
LEMMA QueueTidy ==
  ASSUME TypeInv, TidyInv, AtRest, NEW m \in Job, m.at = "queued", m.kind # "page",
         Queue(m) \/ QueueNamed(m), project'.status \notin Resting,
         \A t \in DOMAIN tasks' : tasks'[t].status # "processing",
         OneTaskPerPage', StopStands'
  PROVE  TidyInv'
<1>1. CompletedHasSite'
  BY DEF CompletedHasSite, Resting
<1>2. \A k \in Jobs : job[k].at \in {"free", "ack"} /\ job[k] \in Job
  BY Facts DEF AtRest, Chain
<1>3. CASE Refused
  <2>1. PICK s \in Jobs : TRUE
    BY SizeAssumption DEF Jobs
  <2>2. job' = job
    BY <1>3 DEF Refused
  <2>3. QED
    BY <1>1, <1>2, <2>1, <2>2, Facts, NewChain
<1>4. ASSUME NEW s \in Jobs, job' \in [Jobs -> Job], job'[s] = m,
             \A k \in Jobs \ {s} : job'[k].at = job[k].at
      PROVE  TidyInv'
  BY <1>1, <1>2, <1>4, NewChain
<1>5. CASE Slots # {} /\ job' = [job EXCEPT ![Slot] = m]
  BY <1>4, <1>5, SlotType, Facts
<1>6. CASE /\ Slots # {}
           /\ job' = [j \in Jobs |-> IF j = Slot THEN m ELSE [job[j] EXCEPT !.named = FALSE]]
  <2>1. ASSUME NEW k \in Jobs
        PROVE  [job[k] EXCEPT !.named = FALSE] \in Job /\ [job[k] EXCEPT !.named = FALSE].at = job[k].at
    BY <1>2 DEF Job
  <2>2. QED
    BY <1>4, <1>6, <2>1, SlotType
<1>7. QED
  BY <1>3, <1>5, <1>6 DEF Queue, QueueNamed

LEMMA RestTidy ==
  ASSUME TypeInv, TidyInv, Careful, StartProject \/ ResumeProject \/ RetryFailed \/ ApprovePage
  PROVE  TidyInv'
<1>1. AtRest
  BY DEF TidyInv, Settled, Resting, StartProject, ResumeProject, RetryFailed, ApprovePage
<1>2. \A t \in DOMAIN tasks : tasks[t].status # "processing"
  BY <1>1, NothingProcessed DEF AtRest, Chain
<1>3. 0 \in 0..NPages
  BY Sizes
<1>4. ASSUME NEW kind \in {"start", "advance"}, NEW approved \in BOOLEAN, NEW named \in BOOLEAN
      PROVE  LET m == Message(kind, 0, approved, named)
             IN  m \in Job /\ m.at = "queued" /\ m.kind # "page"
  <2>1. Message(kind, 0, approved, named) \in Job
    BY <1>3, MessageType DEF Kinds
  <2>2. QED
    BY <2>1 DEF Message
<1>5. CASE StartProject
  <2> DEFINE m == Message("start", 0, FALSE, TRUE)
  <2>1. m \in Job /\ m.at = "queued" /\ m.kind # "page"
    BY <1>4
  <2>2. QueueNamed(m) /\ UNCHANGED <<project, tasks, asked>> /\ project.status = "pending"
    BY <1>5 DEF StartProject
  <2> HIDE DEF m
  <2>3. OneTaskPerPage' /\ StopStands' /\ project'.status \notin Resting
    BY <2>2 DEF TidyInv, OneTaskPerPage, StopStands, Resting
  <2>4. QED
    BY <1>1, <1>2, <2>1, <2>2, <2>3, QueueTidy
<1>6. CASE ResumeProject
  <2> DEFINE m == Message("start", 0, FALSE, FALSE)
  <2>1. m \in Job /\ m.at = "queued" /\ m.kind # "page"
    BY <1>4
  <2>2. /\ Queue(m) /\ UNCHANGED tasks /\ asked' = 0
        /\ project' = [project EXCEPT !.status = "generating", !.stopping = FALSE]
    BY <1>6 DEF ResumeProject
  <2> HIDE DEF m
  <2>3. project'.status = "generating"
    BY <2>2, Facts DEF Project
  <2>4. OneTaskPerPage' /\ StopStands' /\ project'.status \notin Resting
    BY <2>2, <2>3 DEF TidyInv, OneTaskPerPage, StopStands, Resting
  <2>5. QED
    BY <1>1, <1>2, <2>1, <2>2, <2>4, QueueTidy
<1>7. CASE ApprovePage
  <2> DEFINE m == Message("advance", 0, TRUE, FALSE)
  <2>1. m \in Job /\ m.at = "queued" /\ m.kind # "page"
    BY <1>4
  <2>2. /\ Queue(m) /\ UNCHANGED tasks /\ asked' = 0
        /\ project' = [project EXCEPT !.status = "generating"]
    BY <1>7 DEF ApprovePage
  <2> HIDE DEF m
  <2>3. project'.status = "generating"
    BY <2>2, Facts DEF Project
  <2>4. OneTaskPerPage' /\ StopStands' /\ project'.status \notin Resting
    BY <2>2, <2>3 DEF TidyInv, OneTaskPerPage, StopStands, Resting
  <2>5. QED
    BY <1>1, <1>2, <2>1, <2>2, <2>4, QueueTidy
<1>8. CASE RetryFailed
  <2> DEFINE m == Message("start", 0, FALSE, FALSE)
  <2>1. m \in Job /\ m.at = "queued" /\ m.kind # "page"
    BY <1>4
  <2>2. /\ Queue(m) /\ asked' = 0
        /\ project' = [project EXCEPT !.status = "generating", !.stopping = FALSE]
        /\ tasks' = [t \in DOMAIN tasks |-> IF t \in FailedTasks
                                            THEN [tasks[t] EXCEPT !.status = "pending"]
                                            ELSE tasks[t]]
    BY <1>8 DEF RetryFailed
  <2> HIDE DEF m
  <2>3. project'.status = "generating"
    BY <2>2, Facts DEF Project
  <2>4. /\ DOMAIN tasks' = DOMAIN tasks
        /\ \A t \in DOMAIN tasks : /\ tasks'[t].page = tasks[t].page
                                   /\ tasks'[t].status \in {"pending", tasks[t].status}
    BY <2>2, Facts DEF Task
  <2>5. OneTaskPerPage'
    BY <2>4 DEF TidyInv, OneTaskPerPage
  <2>6. StopStands' /\ project'.status \notin Resting
    BY <2>2, <2>3 DEF StopStands, Resting
  <2>7. \A t \in DOMAIN tasks' : tasks'[t].status # "processing"
    BY <1>2, <2>4
  <2>8. QED
    BY <1>1, <2>1, <2>2, <2>5, <2>6, <2>7, QueueTidy
<1>9. QED
  BY <1>5, <1>6, <1>7, <1>8

LEMMA StopTidy ==
  ASSUME TypeInv, TidyInv, StopProject
  PROVE  TidyInv'
<1>1. /\ tasks' = tasks /\ job' = job /\ asked' = (IF asked = 0 THEN 1 ELSE asked)
      /\ project.status \notin Resting
      /\ project' = [project EXCEPT !.stopping = TRUE]
  BY DEF StopProject, Resting
<1>2. project'.status = project.status /\ project'.zip = project.zip /\ project'.stopping
  BY <1>1, Facts DEF Project
<1>3. OneChain' /\ Settled' /\ Processed'
  BY <1>1, <1>2 DEF TidyInv, OneChain, Settled, AtRest, Chain, Processed
<1>4. \A j \in Jobs : Informed(j)'
  BY <1>1, <1>2, SamePages DEF TidyInv, Informed, Chosen
<1>5. CompletedHasSite' /\ OneTaskPerPage' /\ StopStands'
  BY <1>1, <1>2, SamePages DEF TidyInv, CompletedHasSite, OneTaskPerPage, StopStands
<1>6. QED
  BY <1>3, <1>4, <1>5 DEF TidyInv

LEMMA ResetTidy ==
  ASSUME TypeInv, TidyInv, Careful, ResetStatus
  PROVE  TidyInv'
<1>1. PICK js : job' = Dropped(js) /\ tasks' = Unclaimed(js)
  BY DEF ResetStatus
<1>2. AtRest /\ asked' = 0 /\ project'.status = "failed"
  BY Facts DEF ResetStatus, Project
<1>3. /\ job' \in [Jobs -> Job]
      /\ \A k \in Jobs : job'[k].at \in {"free", "ack"}
  BY <1>1, <1>2, DroppedJobs DEF AtRest, Chain
<1>4. \A t \in DOMAIN tasks' : tasks'[t].status # "processing"
  BY <1>1, <1>2, NothingProcessed, UnclaimedRows DEF AtRest, Chain
<1>5. CompletedHasSite' /\ StopStands'
  BY <1>2 DEF CompletedHasSite, StopStands
<1>6. OneTaskPerPage'
  BY <1>1, UnclaimedRows DEF TidyInv, OneTaskPerPage
<1>7. PICK s \in Jobs : TRUE
  BY SizeAssumption DEF Jobs
<1>8. QED
  BY <1>3, <1>4, <1>5, <1>6, <1>7, NewChain

LEMMA StaleTidy ==
  ASSUME TypeInv, TidyInv, MarkStale
  PROVE  TidyInv'
<1>1. PICK t \in DOMAIN tasks :
        /\ tasks[t].status = "processing"
        /\ tasks' = [Unclaimed({tasks[t].claim} \ {0}) EXCEPT ![t].status = "stale"]
        /\ job' = Dropped({tasks[t].claim} \ {0})
        /\ UNCHANGED <<project, asked>>
  BY DEF MarkStale
<1> DEFINE j == tasks[t].claim
           rows == Unclaimed({j} \ {0})
<1>2. j \in Jobs /\ job[j].at = "running" /\ Chain(j) /\ {j} \ {0} = {j}
  BY <1>1 DEF TidyInv, Processed, Chain, Jobs
<1>3. /\ rows \in [DOMAIN tasks -> Task]
      /\ \A u \in DOMAIN tasks : rows[u].page = tasks[u].page /\ rows[u].status = tasks[u].status
  BY Facts, UnclaimedType DEF Unclaimed, Task
<1>4. tasks' = [rows EXCEPT ![t].status = "stale"] /\ job' = Dropped({j})
  BY <1>1, <1>2
<1> HIDE DEF rows
<1>5. /\ DOMAIN tasks' = DOMAIN tasks /\ tasks'[t].status = "stale"
      /\ \A u \in DOMAIN tasks : tasks'[u].page = tasks[u].page
      /\ \A u \in DOMAIN tasks \ {t} : tasks'[u].status = tasks[u].status
  BY <1>3, <1>4 DEF Task
<1>6. \A u \in DOMAIN tasks' : tasks'[u].status # "processing"
  <2>1. \A u \in DOMAIN tasks : tasks[u].status = "processing" => u = t
    BY <1>1, <1>2, OneProcessed
  <2>2. QED
    BY <1>5, <2>1
<1>7. /\ job' \in [Jobs -> Job] /\ project.status \notin Resting
      /\ \A k \in Jobs : job'[k].at \in {"free", "ack"}
  BY <1>2, <1>4, DroppedJobs, ChainGoing
<1>8. CompletedHasSite' /\ StopStands'
  BY <1>1, <1>7 DEF TidyInv, CompletedHasSite, StopStands, Resting
<1>9. OneTaskPerPage'
  BY <1>5 DEF TidyInv, OneTaskPerPage
<1>10. QED
  BY <1>2, <1>6, <1>7, <1>8, <1>9, NewChain

LEMMA TidyInit == Init => TidyInv
<1> SUFFICES ASSUME Init PROVE TidyInv
  OBVIOUS
<1>1. /\ project.status = "pending" /\ DOMAIN tasks = {} /\ asked = 0
      /\ \A j \in Jobs : \/ job[j] = Free
                         \/ j = 1 /\ job[j] = Message("start", 0, FALSE, TRUE)
  <2>1. project.status = "pending" /\ DOMAIN tasks = {} /\ asked = 0
    BY DEF Init, NewProject
  <2>2. \/ job = [j \in Jobs |-> Free]
        \/ job = [j \in Jobs |-> IF j = 1 THEN Message("start", 0, FALSE, TRUE) ELSE Free]
    BY DEF Init
  <2>3. QED
    BY <2>1, <2>2
<1>2. Free.at = "free"
  BY FreeType, 0 \in Nat
<1>3. \A j \in Jobs : \/ job[j].at = "free"
                      \/ j = 1 /\ job[j].at = "queued" /\ job[j].kind = "start"
  <2> DEFINE m == Message("start", 0, FALSE, TRUE)
  <2>1. m.at = "queued" /\ m.kind = "start"
    BY DEF Message
  <2> HIDE DEF m
  <2>2. \A j \in Jobs : job[j] = Free \/ (j = 1 /\ job[j] = m)
    BY <1>1 DEF m
  <2>3. QED
    BY <1>2, <2>1, <2>2
<1>4. OneChain
  BY <1>3 DEF OneChain, Chain
<1>5. \A j \in Jobs : Informed(j)
  BY <1>3 DEF Informed, Chosen
<1>6. Settled /\ Processed /\ CompletedHasSite /\ OneTaskPerPage /\ StopStands
  BY <1>1 DEF Settled, Resting, Processed, CompletedHasSite, OneTaskPerPage, StopStands
<1>7. QED
  BY <1>4, <1>5, <1>6 DEF TidyInv

LEMMA TidyNext ==
  ASSUME Tidy
  PROVE  TypeInv /\ TidyInv /\ [Next]_vars => TidyInv'
<1> SUFFICES ASSUME TypeInv, TidyInv, [Next]_vars PROVE TidyInv'
  OBVIOUS
<1>1. CASE UNCHANGED vars
  BY <1>1 DEF vars, TidyInv, OneChain, Settled, AtRest, Chain, Processed, Informed, Chosen,
              CompletedHasSite, OneTaskPerPage, OpenPages, DonePages, StopStands
<1>2. CASE Environment
  <2>1. ~Requeue
    BY DEF Tidy, Requeue, Request
  <2>2. QED
    BY <1>2, <2>1, RestTidy, StopTidy, ResetTidy, StaleTidy DEF Environment, Tidy
<1>3. ASSUME NEW j \in Jobs, Work(j) \/ Disturb(j)
      PROVE  TidyInv'
  <2>1. ~Crash(j) /\ ~Lose(j)
    BY DEF Tidy, Crash, Lose
  <2>2. QED
    BY <1>3, <2>1, LoadsTidy, CommitsTidy, ReuseTidy, CreateTidy, RunsTidy, SendTidy, AckTidy,
       SendFailsTidy DEF Work, Disturb
<1>4. QED
  BY <1>1, <1>2, <1>3 DEF Next

LEMMA AlwaysTidy ==
  ASSUME Tidy
  PROVE  Spec => []TidyInv
<1>1. TypeInv /\ TidyInv /\ [Next]_vars => TidyInv'
  BY TidyNext
<1>2. QED
  BY <1>1, TypeInit, TypeNext, TidyInit, PTL DEF Spec

\* A tidy project uses one task per page, through failures, retries, stops and pages that
\* beat has marked stale: no page is written twice (the query for the page's task,
\* tasks.py:224-232).
THEOREM PagesOnce ==
  ASSUME Tidy
  PROVE  Spec => []OneTaskPerPage
<1>1. TidyInv => OneTaskPerPage
  BY DEF TidyInv
<1>2. QED
  BY <1>1, AlwaysTidy, PTL

\* At most the page whose worker has looked at the flag already begins after the operator
\* of a tidy project has asked it to stop (projects.py:1429, tasks.py:204, 368, 400).
THEOREM StopHeeded ==
  ASSUME Tidy
  PROVE  Spec => []StopsAfterCurrentPage
<1>1. TidyInv => StopsAfterCurrentPage
  BY DEF TidyInv, StopStands, StopsAfterCurrentPage
<1>2. QED
  BY <1>1, AlwaysTidy, PTL

\* A tidy project is completed only with its archive and with every page tried
\* (finalize_project, tasks.py:138-176).
THEOREM CompletedIsBuilt ==
  ASSUME Tidy
  PROVE  Spec => []CompletedHasSite
<1>1. TidyInv => CompletedHasSite
  BY DEF TidyInv
<1>2. QED
  BY <1>1, AlwaysTidy, PTL
-----------------------------------------------------------------------------
(* The plan.  An orderly project loses no message: no worker is lost, the     *)
(* broker takes every message, and beat finds no page dead.  It implements    *)
(* SitePlan, of which a step is a step of one handler or request.             *)

Orderly == Tidy /\ "broker" \notin Faults /\ "stale" \notin Requests

SomeDone == \E t \in DOMAIN tasks : tasks[t].status = "completed"
Opening(m) == m.kind = "page" /\ m.at \in {"queued", "open"}

\* What the handler of a message has settled with the plan when it is there.
Agreed(j) ==
  LET m == job[j] IN
  /\ m.at \in {"choose", "generate"} /\ m.seen.status = "generating"
       => project.status = "generating"
  /\ Opening(m) \/ (m.kind = "advance" /\ m.at = "send") => project.status = "generating"
  /\ Chosen(m) => \A q \in OpenPages : m.page <= q
  /\ m.kind = "advance" /\ m.at \in {"generate", "send"} /\ ~m.approved /\ Approval => ~SomeDone
  /\ m.at = "await" => Approval /\ ~m.approved /\ SomeDone /\ OpenPages # {}
  /\ m.at = "finish" => SomeDone
  /\ m.at = "stop" => project.stopping /\ m.seen.stopping
  /\ m.at = "run" => tasks[m.task].status = "pending"
  /\ m.at = "running" => tasks[m.task].status = "processing"
  /\ m.at \in {"run", "running"} => tasks[m.task].page = m.page

\* No task is stale, and a task has an article when it is completed.
Whole ==
  \A t \in DOMAIN tasks : /\ tasks[t].status # "stale"
                          /\ tasks[t].article <=> tasks[t].status = "completed"

PlanInv == Whole /\ \A j \in Jobs : Agreed(j)

PlanStep == [Plan!PlanNext]_(Plan!planVars)

\* The messages that are the operator's leave.
Gives(m) == \/ m.kind = "advance" /\ m.approved /\ m.at \notin {"free", "ack"}
            \/ Opening(m)

\* What the plan is told by the tasks.
LEMMA PlanOpen ==
  ASSUME TypeInv
  PROVE  Plan!OpenOnes = OpenPages /\ (Plan!SomeGood <=> SomeDone)
<1>1. \A t \in DOMAIN tasks : tasks[t].page \in Pages
  BY Facts DEF Task
<1>2. \A p \in Pages : PlanOutcome[p] = "open" <=> p \notin DonePages
  BY DEF PlanOutcome, DonePages, DoneStatus
<1>3. \A p \in Pages :
        PlanOutcome[p] = "good" <=> \E t \in DOMAIN tasks : tasks[t].page = p /\ tasks[t].status = "completed"
  BY DEF PlanOutcome
<1>4. QED
  BY <1>1, <1>2, <1>3 DEF Plan!OpenOnes, Plan!SomeGood, OpenPages, SomeDone, Pages

LEMMA PlanPages ==
  ASSUME DOMAIN tasks' = DOMAIN tasks,
         \A t \in DOMAIN tasks : tasks'[t].page = tasks[t].page /\ tasks'[t].status = tasks[t].status
  PROVE  /\ PlanOutcome' = PlanOutcome /\ DonePages' = DonePages /\ OpenPages' = OpenPages
         /\ SomeDone' <=> SomeDone
<1>1. DonePages' = DonePages
  BY DEF DonePages
<1>2. QED
  BY <1>1 DEF PlanOutcome, OpenPages, SomeDone

\* Where all messages but one are over, that one is what the plan shows.
LEMMA Standing ==
  ASSUME NEW j \in Jobs, \A k \in Jobs \ {j} : job[k].at \in {"free", "ack"}
  PROVE  /\ PlanCurrent = (IF job[j].at \in {"run", "running"} THEN job[j].page ELSE 0)
         /\ PlanLeave <=> Gives(job[j])
<1>1. AtWork = IF job[j].at \in {"run", "running"} THEN {job[j].page} ELSE {}
  BY DEF AtWork
<1>2. PlanLeave <=> Gives(job[j])
  BY DEF PlanLeave, Gives, Opening, Chain
<1>3. QED
  BY <1>1, <1>2 DEF PlanCurrent

LEMMA NextStanding ==
  ASSUME NEW j \in Jobs, \A k \in Jobs \ {j} : job'[k].at \in {"free", "ack"}
  PROVE  /\ PlanCurrent' = (IF job'[j].at \in {"run", "running"} THEN job'[j].page ELSE 0)
         /\ PlanLeave' <=> Gives(job'[j])
<1>1. AtWork' = IF job'[j].at \in {"run", "running"} THEN {job'[j].page} ELSE {}
  BY DEF AtWork
<1>2. PlanLeave' <=> Gives(job'[j])
  BY DEF PlanLeave, Gives, Opening, Chain
<1>3. QED
  BY <1>1, <1>2 DEF PlanCurrent

\* A handler's step that leaves the tasks alone, seen from the plan.
LEMMA PlanHandler ==
  ASSUME TypeInv, TidyInv, PlanInv, NEW j \in Jobs, Chain(j), job[j].at \notin {"run", "running"},
         NEW m \in Job, job' = [job EXCEPT ![j] = m], m.at \notin {"run", "running"},
         tasks' = tasks, Agreed(j)',
         \/ /\ project'.status = project.status /\ project'.stopping = project.stopping
            /\ Gives(m) => Gives(job[j])
         \/ /\ project'.status = "generating" /\ project'.stopping = project.stopping
            /\ Gives(m) <=> Gives(job[j])
         \/ /\ project'.status = "failed" /\ project'.stopping = project.stopping /\ ~Gives(m)
         \/ /\ project'.status = "completed" /\ project'.stopping = project.stopping /\ ~Gives(m)
            /\ OpenPages = {} /\ SomeDone
         \/ /\ project'.status = "awaiting_page_approval" /\ project'.stopping = project.stopping
            /\ ~Gives(m) /\ ~Gives(job[j]) /\ Approval /\ SomeDone /\ OpenPages # {}
         \/ /\ project'.status = "stopped" /\ ~project'.stopping /\ project.stopping /\ ~Gives(m)
            /\ project' \in Project
  PROVE  PlanInv' /\ PlanStep
<1>1. job'[j] = m /\ \A k \in Jobs \ {j} : job'[k] = job[k] /\ job[k].at \in {"free", "ack"}
  BY Facts, ChainGoing
<1>2. PlanInv'
  <2>1. ASSUME NEW k \in Jobs \ {j}
        PROVE  Agreed(k)'
    BY <1>1 DEF Agreed, Chosen, Opening
  <2>2. QED
    BY <2>1 DEF PlanInv, Whole
<1>3. /\ PlanCurrent = 0 /\ PlanCurrent' = 0 /\ PlanOutcome' = PlanOutcome
      /\ PlanLeave <=> Gives(job[j])
      /\ PlanLeave' <=> Gives(m)
      /\ PlanLeave \in BOOLEAN /\ PlanLeave' \in BOOLEAN
  <2>1. PlanOutcome' = PlanOutcome
    BY PlanPages
  <2>2. PlanCurrent = 0 /\ (PlanLeave <=> Gives(job[j]))
    BY <1>1, Standing
  <2>3. PlanCurrent' = 0 /\ (PlanLeave' <=> Gives(m))
    BY <1>1, NextStanding
  <2>4. PlanLeave \in BOOLEAN /\ PlanLeave' \in BOOLEAN
    BY DEF PlanLeave
  <2>5. QED
    BY <2>1, <2>2, <2>3, <2>4
<1>4. /\ Plan!UnderWay
      /\ Plan!OpenOnes = OpenPages /\ (Plan!SomeGood <=> SomeDone)
  BY <1>3, ChainGoing, Facts, PlanOpen DEF Plan!UnderWay, Resting, Project, ProjectStatus
<1>5. CASE /\ project'.status = project.status /\ project'.stopping = project.stopping
           /\ Gives(m) => Gives(job[j])
  <2>1. CASE PlanLeave' = PlanLeave
    BY <1>2, <1>3, <1>5, <2>1 DEF PlanStep, Plan!planVars
  <2>2. CASE PlanLeave' # PlanLeave
    <3>1. PlanLeave /\ PlanLeave' = FALSE
      BY <1>3, <1>5, <2>2
    <3>2. QED
      BY <1>2, <1>3, <1>5, <3>1 DEF PlanStep, Plan!PlanNext, Plan!Withdraw
  <2>3. QED
    BY <2>1, <2>2
<1>6. CASE /\ project'.status = "generating" /\ project'.stopping = project.stopping
           /\ Gives(m) <=> Gives(job[j])
  <2>1. PlanLeave' = PlanLeave
    BY <1>3, <1>6
  <2>2. QED
    BY <1>2, <1>3, <1>4, <1>6, <2>1 DEF PlanStep, Plan!PlanNext, Plan!GoOn
<1>7. CASE /\ project'.status = "failed" /\ project'.stopping = project.stopping /\ ~Gives(m)
  <2>1. PlanLeave' = FALSE
    BY <1>3, <1>7
  <2>2. QED
    BY <1>2, <1>3, <1>4, <1>7, <2>1 DEF PlanStep, Plan!PlanNext, Plan!Fail
<1>8. CASE /\ project'.status = "completed" /\ project'.stopping = project.stopping /\ ~Gives(m)
           /\ OpenPages = {} /\ SomeDone
  <2>1. PlanLeave' = FALSE
    BY <1>3, <1>8
  <2>2. QED
    BY <1>2, <1>3, <1>4, <1>8, <2>1 DEF PlanStep, Plan!PlanNext, Plan!Complete
<1>9. CASE /\ project'.status = "awaiting_page_approval" /\ project'.stopping = project.stopping
           /\ ~Gives(m) /\ ~Gives(job[j]) /\ Approval /\ SomeDone /\ OpenPages # {}
  <2>1. PlanLeave' = PlanLeave /\ ~PlanLeave
    BY <1>3, <1>9
  <2>2. QED
    BY <1>2, <1>3, <1>4, <1>9, <2>1 DEF PlanStep, Plan!PlanNext, Plan!AskOperator
<1>10. CASE /\ project'.status = "stopped" /\ ~project'.stopping /\ project.stopping /\ ~Gives(m)
            /\ project' \in Project
  <2>1. PlanLeave' = FALSE
    BY <1>3, <1>10
  <2>2. project'.stopping = FALSE
    BY <1>10 DEF Project
  <2>3. QED
    BY <1>2, <1>3, <1>4, <1>10, <2>1, <2>2 DEF PlanStep, Plan!PlanNext, Plan!Stop
<1>11. QED
  BY <1>2, <1>5, <1>6, <1>7, <1>8, <1>9, <1>10

LEMMA PlanLoads ==
  ASSUME TypeInv, TidyInv, PlanInv, NEW j \in Jobs,
         StartLoad(j) \/ AdvanceLoad(j) \/ ChooseNone(j) \/ ChoosePage(j) \/ PageLoad(j)
           \/ Report(j) \/ HandlerError(j)
  PROVE  PlanInv' /\ PlanStep
<1>1. /\ Chain(j) /\ job[j].at \notin {"run", "running"} /\ tasks' = tasks /\ project' = project
  BY DEF StartLoad, AdvanceLoad, ChooseNone, ChoosePage, PageLoad, Report, HandlerError, Chain
<1>2. Agreed(j) /\ OpenPages' = OpenPages /\ (SomeDone' <=> SomeDone)
  BY <1>1, SamePages DEF PlanInv, SomeDone
<1>3. ASSUME NEW m \in Job, job' = [job EXCEPT ![j] = m], m.at \notin {"run", "running"},
             Agreed(j)', Gives(m) => Gives(job[j])
      PROVE  PlanInv' /\ PlanStep
  BY <1>1, <1>3, PlanHandler
<1>4. ASSUME NEW label \in {"begin", "stop", "choose", "open"}, Load(j, label),
             label = "open" => job[j].kind = "page" /\ job[j].at = "queued",
             label = "stop" => project.stopping
      PROVE  PlanInv' /\ PlanStep
  <2>1. PICK m \in Job : /\ job' = [job EXCEPT ![j] = m]
                         /\ m.at = label /\ m.kind = job[j].kind /\ m.page = job[j].page
                         /\ m.task = job[j].task /\ m.approved = job[j].approved
                         /\ m.seen = project
    BY <1>4, LoadType DEF Labels
  <2>2. Agreed(j)'
    BY <1>1, <1>2, <1>4, <2>1, Moved DEF Agreed, Chosen, Opening
  <2>3. Gives(m) => Gives(job[j])
    BY <1>1, <1>4, <2>1 DEF Gives, Opening, Chain
  <2>4. QED
    BY <1>3, <1>4, <2>1, <2>2, <2>3
<1>5. ASSUME NEW label \in {"build", "send", "fail"}, Goto(j, label),
             label = "send" => job[j].kind = "page"
      PROVE  PlanInv' /\ PlanStep
  <2>1. PICK m \in Job : /\ job' = [job EXCEPT ![j] = m]
                         /\ m.at = label /\ m.kind = job[j].kind
                         /\ m.approved = job[j].approved
    BY <1>5, GotoType DEF Labels
  <2>2. Agreed(j)'
    BY <1>5, <2>1, Moved DEF Agreed, Chosen, Opening
  <2>3. Gives(m) => Gives(job[j])
    BY <1>1, <1>5, <2>1 DEF Gives, Opening, Chain
  <2>4. QED
    BY <1>3, <1>5, <2>1, <2>2, <2>3
<1>6. CASE StartLoad(j)
  BY <1>4, <1>6 DEF StartLoad
<1>7. CASE AdvanceLoad(j)
  BY <1>4, <1>7, Zenon DEF AdvanceLoad
<1>8. CASE PageLoad(j)
  BY <1>4, <1>8, Zenon DEF PageLoad
<1>9. CASE Report(j)
  <2>1. job[j].kind = "page"
    BY <1>9, Facts DEF Report, Fits
  <2>2. QED
    BY <1>4, <1>5, <1>9, <2>1, Zenon DEF Report
<1>10. CASE ChooseNone(j)
  BY <1>5, <1>10 DEF ChooseNone
<1>11. CASE HandlerError(j)
  BY <1>5, <1>11 DEF HandlerError
<1>12. CASE ChoosePage(j)
  <2>1. PICK p \in OpenPages :
          /\ \A q \in OpenPages : p <= q
          /\ job' = [job EXCEPT ![j].page = p, ![j].at =
               IF Approval /\ ~job[j].approved /\ SomeDone THEN "await" ELSE "generate"]
    BY <1>12 DEF ChoosePage, SomeDone
  <2> DEFINE label == IF Approval /\ ~job[j].approved /\ SomeDone THEN "await" ELSE "generate"
             m == [job[j] EXCEPT !.page = p, !.at = label]
  <2>2. job' = [job EXCEPT ![j] = m] /\ label \in {"await", "generate"} /\ label \in Labels
    BY <2>1, Facts DEF Labels
  <2>3. /\ label = "await" <=> (Approval /\ ~job[j].approved /\ SomeDone)
        /\ label \in {"await", "generate"}
    OBVIOUS
  <2> HIDE DEF label
  <2>4. /\ m \in Job /\ m.at = label /\ m.page = p /\ m.kind = job[j].kind
        /\ m.approved = job[j].approved /\ m.seen = job[j].seen
    <3>1. p \in 0..NPages /\ job[j] \in Job
      BY Sizes, Facts DEF Pages, OpenPages
    <3>2. QED
      BY <2>2, <3>1 DEF Job
  <2> HIDE DEF m
  <2>5. job[j].kind = "advance" /\ job[j].at = "choose"
    <3>1. job[j].at = "choose"
      BY <1>12 DEF ChoosePage
    <3>2. QED
      BY <3>1, Facts DEF Fits
  <2>6. Agreed(j)'
    <3>1. job'[j] = m
      BY <2>2, <2>4, Moved
    <3>2. /\ m.seen.status = "generating" => project'.status = "generating"
          /\ \A q \in OpenPages' : m.page <= q
          /\ m.at = "generate" /\ ~m.approved /\ Approval => ~SomeDone'
          /\ m.at = "await" => Approval /\ ~m.approved /\ SomeDone' /\ OpenPages' # {}
      BY <1>1, <1>2, <2>1, <2>3, <2>4, <2>5 DEF Agreed
    <3>3. m.at \in {"await", "generate"} /\ m.kind = "advance"
      BY <2>3, <2>4, <2>5
    <3>4. QED
      BY <3>1, <3>2, <3>3 DEF Agreed, Chosen, Opening
  <2>7. Gives(m) => Gives(job[j])
    BY <2>3, <2>4, <2>5 DEF Gives, Opening
  <2>8. QED
    BY <1>3, <2>2, <2>3, <2>4, <2>6, <2>7
<1>13. QED
  BY <1>6, <1>7, <1>8, <1>9, <1>10, <1>11, <1>12

LEMMA PlanCommits ==
  ASSUME TypeInv, TidyInv, PlanInv, NEW j \in Jobs,
         StartCommit(j) \/ AwaitCommit(j) \/ GenerateCommit(j) \/ Build(j) \/ Finish(j)
           \/ FailCommit(j) \/ StopCommit(j)
  PROVE  PlanInv' /\ PlanStep
<1> DEFINE old == job[j].seen
<1>1. /\ Chain(j) /\ job[j].at \notin {"run", "running"} /\ tasks' = tasks /\ old \in Project
  BY Facts DEF StartCommit, AwaitCommit, GenerateCommit, Build, Finish, FailCommit, StopCommit, Chain
<1>2. /\ project.status \notin Resting /\ OpenPages' = OpenPages /\ (SomeDone' <=> SomeDone)
      /\ Informed(j) /\ Agreed(j) /\ Whole /\ project \in Project
  BY <1>1, ChainGoing, SamePages, Facts DEF TidyInv, PlanInv, SomeDone
<1>3. ASSUME NEW status \in ProjectStatus
      PROVE  LET new == [old EXCEPT !.status = status]
             IN  new \in Project /\ new.status = status /\ new.stopping = old.stopping
  BY <1>1 DEF Project
<1>4. ASSUME NEW new \in Project, NEW label \in {"send", "ack", "fail", "finish"},
             Commit(j, new, label)
      PROVE  /\ project' \in Project /\ project' = Written(old, new)
             /\ \E m \in Job : /\ job' = [job EXCEPT ![j] = m]
                               /\ m.at = label /\ m.kind = job[j].kind /\ m.page = job[j].page
                               /\ m.approved = job[j].approved
                               /\ Gives(m) => Gives(job[j])
                               /\ label = "ack" => ~Gives(m)
  <2>1. PICK m \in Job : /\ job' = [job EXCEPT ![j] = m]
                         /\ m.at = label /\ m.kind = job[j].kind /\ m.page = job[j].page
                         /\ m.approved = job[j].approved
    BY <1>4, CommitType DEF Labels
  <2>2. (Gives(m) => Gives(job[j])) /\ (label = "ack" => ~Gives(m))
    BY <1>1, <2>1 DEF Gives, Opening, Chain
  <2>3. project' \in Project
    BY <1>4, CommitType DEF Labels
  <2>4. QED
    BY <1>4, <2>1, <2>2, <2>3 DEF Commit
<1>5. CASE StartCommit(j) \/ GenerateCommit(j)
  <2> DEFINE new == [old EXCEPT !.status = "generating"]
  <2>1. new \in Project /\ new.status = "generating" /\ new.stopping = old.stopping
    BY <1>3 DEF ProjectStatus
  <2>2. /\ Commit(j, new, "send")
        /\ \/ job[j].at = "begin" /\ job[j].kind = "start"
           \/ job[j].at = "generate" /\ job[j].kind = "advance"
    <3>1. Commit(j, new, "send") /\ job[j].at \in {"begin", "generate"}
      BY <1>5 DEF StartCommit, GenerateCommit
    <3>2. QED
      BY <3>1, Facts DEF Fits
  <2> HIDE DEF new
  <2>3. PICK m \in Job : /\ job' = [job EXCEPT ![j] = m]
                         /\ m.at = "send" /\ m.kind = job[j].kind /\ m.page = job[j].page
                         /\ m.approved = job[j].approved
    BY <1>4, <2>1, <2>2
  <2>4. /\ project' = Written(old, new) /\ project' \in Project
    BY <1>4, <2>1, <2>2
  <2>5. /\ project'.status \in {"generating", project.status}
        /\ old.status # "generating" => project'.status = "generating"
        /\ old.status = "generating" => project'.status = project.status
        /\ project'.stopping = project.stopping
    BY <1>1, <2>1, <2>4, CommitRow
  <2>6. Gives(m) <=> Gives(job[j])
    BY <2>2, <2>3 DEF Gives, Opening
  <2>7. Agreed(j)'
    <3>1. job'[j] = m
      BY <2>3, Moved
    <3>2. m.kind = "advance" => /\ project'.status = "generating"
                                /\ \A q \in OpenPages' : m.page <= q
                                /\ ~m.approved /\ Approval => ~SomeDone'
      BY <1>2, <2>2, <2>3, <2>5 DEF Agreed, Chosen
    <3>3. m.at = "send" /\ m.kind \in {"start", "advance"}
      BY <2>2, <2>3
    <3>4. QED
      BY <3>1, <3>2, <3>3 DEF Agreed, Chosen, Opening
  <2>8. QED
    BY <1>1, <2>3, <2>5, <2>6, <2>7, PlanHandler
<1>6. ASSUME NEW label \in {"ack", "send"}, NEW new \in Project, Commit(j, new, label),
             label = "send" => job[j].kind = "page"
      PROVE  \E m \in Job : /\ job' = [job EXCEPT ![j] = m] /\ m.at = label
                            /\ ~Gives(m) /\ Agreed(j)'
  <2>1. PICK m \in Job : /\ job' = [job EXCEPT ![j] = m] /\ m.at = label
                         /\ m.kind = job[j].kind /\ (label = "ack" => ~Gives(m))
    BY <1>4, <1>6
  <2>2. ~Gives(m)
    BY <1>6, <2>1 DEF Gives, Opening
  <2>3. Agreed(j)'
    BY <1>6, <2>1, Moved DEF Agreed, Chosen, Opening
  <2>4. QED
    BY <2>1, <2>2, <2>3
<1>7. CASE AwaitCommit(j)
  <2> DEFINE new == [old EXCEPT !.status = "awaiting_page_approval"]
  <2>1. new \in Project /\ new.status = "awaiting_page_approval" /\ new.stopping = old.stopping
    BY <1>3 DEF ProjectStatus
  <2>2. Commit(j, new, "ack") /\ job[j].at = "await"
    BY <1>7 DEF AwaitCommit
  <2> HIDE DEF new
  <2>3. PICK m \in Job : job' = [job EXCEPT ![j] = m] /\ m.at = "ack" /\ ~Gives(m) /\ Agreed(j)'
    BY <1>6, <2>1, <2>2
  <2>4. project' = Written(old, new)
    BY <1>4, <2>1, <2>2
  <2>5. /\ project'.status \in {"awaiting_page_approval", project.status}
        /\ project'.stopping = project.stopping
    BY <1>1, <2>1, <2>4, CommitRow
  <2>6. Approval /\ ~job[j].approved /\ SomeDone /\ OpenPages # {} /\ ~Gives(job[j])
    BY <1>2, <2>2 DEF Agreed, Gives, Opening
  <2>7. QED
    BY <1>1, <2>3, <2>5, <2>6, PlanHandler
<1>8. CASE FailCommit(j)
  <2> DEFINE new == [old EXCEPT !.status = "failed"]
             label == IF job[j].kind = "page" THEN "send" ELSE "ack"
  <2>1. new \in Project /\ new.status = "failed" /\ new.stopping = old.stopping
    BY <1>3 DEF ProjectStatus
  <2>2. /\ Commit(j, new, label) /\ label \in {"send", "ack"}
        /\ label = "send" => job[j].kind = "page"
    BY <1>8 DEF FailCommit
  <2> HIDE DEF new, label
  <2>3. PICK m \in Job : job' = [job EXCEPT ![j] = m] /\ m.at = label /\ ~Gives(m) /\ Agreed(j)'
    BY <1>6, <2>1, <2>2
  <2>4. project' = Written(old, new)
    BY <1>4, <2>1, <2>2
  <2>5. /\ project'.status \in {"failed", project.status} /\ project'.stopping = project.stopping
    BY <1>1, <2>1, <2>4, CommitRow
  <2>6. QED
    BY <1>1, <2>2, <2>3, <2>5, PlanHandler
<1>9. CASE Finish(j)
  <2> DEFINE new == [old EXCEPT !.status = "completed"]
  <2>1. new \in Project /\ new.status = "completed" /\ new.stopping = old.stopping
    BY <1>3 DEF ProjectStatus
  <2>2. Commit(j, new, "ack") /\ OpenPages = {} /\ SomeDone
    BY <1>2, <1>9 DEF Finish, Informed, Agreed
  <2> HIDE DEF new
  <2>3. PICK m \in Job : job' = [job EXCEPT ![j] = m] /\ m.at = "ack" /\ ~Gives(m) /\ Agreed(j)'
    BY <1>6, <2>1, <2>2
  <2>4. project' = Written(old, new)
    BY <1>4, <2>1, <2>2
  <2>5. project'.status \in {"completed", project.status} /\ project'.stopping = project.stopping
    BY <1>1, <2>1, <2>4, CommitRow
  <2>6. QED
    BY <1>1, <2>2, <2>3, <2>5, PlanHandler
<1>10. CASE StopCommit(j)
  <2> DEFINE new == [old EXCEPT !.status = "stopped", !.stopping = FALSE]
  <2>1. new \in Project /\ new.status = "stopped" /\ new.stopping = FALSE
    BY <1>1 DEF ProjectStatus, Project
  <2>2. Commit(j, new, "ack") /\ old.status # "stopped" /\ old.stopping /\ project.stopping
    BY <1>2, <1>10 DEF StopCommit, Informed, Agreed
  <2> HIDE DEF new
  <2>3. PICK m \in Job : job' = [job EXCEPT ![j] = m] /\ m.at = "ack" /\ ~Gives(m) /\ Agreed(j)'
    BY <1>6, <2>1, <2>2
  <2>4. project' = Written(old, new) /\ project' \in Project
    BY <1>4, <2>1, <2>2
  <2>5. project'.status = "stopped" /\ ~project'.stopping
    BY <2>1, <2>2, <2>4 DEF Written
  <2>6. QED
    BY <1>1, <2>2, <2>3, <2>4, <2>5, PlanHandler
<1>11. CASE Build(j)
  <2> DEFINE built == \E t \in DOMAIN tasks : tasks[t].article
             new == [old EXCEPT !.zip = built]
             label == IF built THEN "finish" ELSE "fail"
  <2>1. Commit(j, new, label) /\ label \in {"finish", "fail"} /\ (label = "finish" => built)
    BY <1>11 DEF Build
  <2>2. built \in BOOLEAN /\ (built => SomeDone)
    BY <1>2 DEF Whole, SomeDone
  <2>3. job[j].kind = "advance" /\ job[j].at = "build"
    <3>1. job[j].at = "build"
      BY <1>11 DEF Build
    <3>2. QED
      BY <3>1, Facts DEF Fits
  <2> HIDE DEF label, built
  <2>4. new \in Project /\ new.status = old.status /\ new.stopping = old.stopping
    BY <1>1, <2>2 DEF Project
  <2> HIDE DEF new
  <2>5. PICK m \in Job : /\ job' = [job EXCEPT ![j] = m] /\ m.at = label /\ m.kind = job[j].kind
                         /\ Gives(m) => Gives(job[j])
    BY <1>4, <2>1, <2>4
  <2>6. project' = Written(old, new)
    BY <1>4, <2>1, <2>4
  <2>7. project'.status = project.status /\ project'.stopping = project.stopping
    BY <1>1, <2>4, <2>6, CommitRow
  <2>8. Agreed(j)'
    <3>1. job'[j] = m /\ m.at \in {"finish", "fail"} /\ (m.at = "finish" => SomeDone')
      BY <1>2, <2>1, <2>2, <2>5, Moved
    <3>2. QED
      BY <3>1 DEF Agreed, Chosen, Opening
  <2>9. QED
    BY <1>1, <2>1, <2>5, <2>7, <2>8, PlanHandler
<1>12. QED
  BY <1>5, <1>7, <1>8, <1>9, <1>10, <1>11

\* What the plan is told by the status of a page's only task.
Result(status) == IF status = "completed" THEN "good"
                  ELSE IF status = "failed" THEN "bad" ELSE "open"

LEMMA PlanRow ==
  ASSUME TypeInv, TidyInv, Whole, Whole', NEW t \in DOMAIN tasks, OneRow(t)
  PROVE  /\ PlanOutcome \in [Pages -> {"open", "good", "bad"}] /\ tasks[t].page \in Pages
         /\ PlanOutcome[tasks[t].page] = Result(tasks[t].status)
         /\ PlanOutcome' = [PlanOutcome EXCEPT ![tasks[t].page] = Result(tasks'[t].status)]
<1> DEFINE p == tasks[t].page
<1>1. /\ DOMAIN tasks' = DOMAIN tasks /\ p \in Pages
      /\ \A u \in DOMAIN tasks : tasks'[u].page = tasks[u].page
      /\ \A u \in DOMAIN tasks \ {t} : tasks'[u] = tasks[u] /\ tasks[u].page # p
  BY Facts DEF OneRow, TidyInv, OneTaskPerPage, Task
<1>2. /\ p \in DonePages <=> tasks[t].status \in {"completed", "failed"}
      /\ p \in DonePages' <=> tasks'[t].status \in {"completed", "failed"}
  BY <1>1 DEF DonePages, DoneStatus, Whole
<1>3. \A q \in Pages \ {p} : q \in DonePages' <=> q \in DonePages
  BY <1>1 DEF DonePages
<1>4. PlanOutcome[p] = Result(tasks[t].status) /\ PlanOutcome'[p] = Result(tasks'[t].status)
  BY <1>1, <1>2 DEF PlanOutcome, Result
<1>5. \A q \in Pages \ {p} : PlanOutcome'[q] = PlanOutcome[q]
  BY <1>1, <1>3 DEF PlanOutcome
<1>6. PlanOutcome \in [Pages -> {"open", "good", "bad"}] /\ PlanOutcome' \in [Pages -> {"open", "good", "bad"}]
  BY DEF PlanOutcome
<1> HIDE DEF p
<1>7. PlanOutcome' = [PlanOutcome EXCEPT ![p] = Result(tasks'[t].status)]
  BY <1>1, <1>4, <1>5, <1>6
<1>8. QED
  BY <1>1, <1>4, <1>6, <1>7 DEF p

\* Only the message of the chain changes, and with it the tasks.
LEMMA PlanLone ==
  ASSUME TypeInv, TidyInv, NEW j \in Jobs, Chain(j), NEW m \in Job, job' = [job EXCEPT ![j] = m],
         Agreed(j)', Whole'
  PROVE  /\ PlanInv'
         /\ PlanCurrent = (IF job[j].at \in {"run", "running"} THEN job[j].page ELSE 0)
         /\ PlanCurrent' = (IF m.at \in {"run", "running"} THEN m.page ELSE 0)
         /\ PlanLeave <=> Gives(job[j])
         /\ PlanLeave' <=> Gives(m)
         /\ PlanLeave \in BOOLEAN /\ PlanLeave' \in BOOLEAN
<1>1. job'[j] = m /\ \A k \in Jobs \ {j} : job'[k] = job[k] /\ job[k].at \in {"free", "ack"}
  BY Facts, ChainGoing
<1>2. PlanInv'
  <2>1. ASSUME NEW k \in Jobs \ {j}
        PROVE  Agreed(k)'
    BY <1>1 DEF Agreed, Chosen, Opening
  <2>2. QED
    BY <2>1 DEF PlanInv
<1>3. PlanLeave \in BOOLEAN /\ PlanLeave' \in BOOLEAN
  BY DEF PlanLeave
<1>4. QED
  BY <1>1, <1>2, <1>3, Standing, NextStanding

\* A page is begun.
LEMMA PlanBegins ==
  ASSUME TypeInv, TidyInv, PlanInv, NEW j \in Jobs, job[j].at = "open",
         NEW m \in Job, job' = [job EXCEPT ![j] = m],
         m.at = "run" /\ m.kind = "page" /\ m.page = job[j].page,
         project' = project, PlanOutcome' = PlanOutcome, Whole',
         tasks'[m.task].status = "pending" /\ tasks'[m.task].page = m.page
  PROVE  PlanInv' /\ PlanStep
<1>1. /\ Chain(j) /\ job[j].kind = "page" /\ job[j].page \in OpenPages
      /\ Agreed(j)
  BY Opens DEF OpenPages, PlanInv
<1>2. Agreed(j)'
  <2>1. job'[j] = m
    BY Moved
  <2>2. QED
    BY <2>1 DEF Agreed, Chosen, Opening
<1>3. /\ PlanInv' /\ PlanCurrent = 0 /\ PlanCurrent' = job[j].page
      /\ PlanLeave <=> Gives(job[j])
      /\ PlanLeave' <=> Gives(m)
      /\ PlanLeave \in BOOLEAN /\ PlanLeave' \in BOOLEAN
  BY <1>1, <1>2, PlanLone
<1>4. PlanLeave = TRUE /\ PlanLeave' = FALSE
  BY <1>1, <1>3 DEF Gives, Opening
<1>5. /\ project.status = "generating" /\ Plan!OpenOnes = OpenPages
      /\ \A q \in OpenPages : job[j].page <= q
  BY <1>1, PlanOpen DEF Agreed, Opening, Chosen
<1>6. QED
  BY <1>1, <1>3, <1>4, <1>5 DEF PlanStep, Plan!PlanNext, Plan!BeginPage

LEMMA PlanReuse ==
  ASSUME TypeInv, TidyInv, PlanInv, NEW j \in Jobs, Reuse(j)
  PROVE  PlanInv' /\ PlanStep
<1>1. job[j].at = "open" /\ project' = project
  BY DEF Reuse
<1>2. PICK t \in Reusable(j) :
        /\ Update(t, "pending")
        /\ job' = [job EXCEPT ![j].at = "run", ![j].task = t, ![j].seen = NewProject]
  BY Zenon DEF Reuse
<1> DEFINE m == [job[j] EXCEPT !.at = "run", !.task = t, !.seen = NewProject]
<1>3. job' = [job EXCEPT ![j] = m]
  BY <1>2, Facts
<1>4. /\ t \in DOMAIN tasks /\ t \in 0..MaxTasks /\ job[j] \in Job
      /\ tasks[t].page = job[j].page /\ tasks[t].status \in {"pending", "failed"}
  BY Facts, Sizes DEF Reusable
<1>5. m \in Job /\ m.at = "run" /\ m.task = t /\ m.kind = job[j].kind /\ m.page = job[j].page
  BY <1>4, NewProjectType DEF Job, Labels
<1> HIDE DEF m
<1>6. OneRow(t) /\ tasks'[t].status = "pending" /\ tasks'[t].article = tasks[t].article
  <2>1. OneRow(t) /\ tasks'[t].status = "pending"
    BY <1>2, <1>4, RowStatus DEF Update, TaskStatus
  <2>2. tasks'[t].article = tasks[t].article
    BY <1>2, <1>4, Facts DEF Update, Task
  <2>3. QED
    BY <2>1, <2>2
<1>7. tasks[t].status = "pending"
  BY <1>1, <1>4, Opens DEF DonePages, DoneStatus
<1>8. Whole'
  BY <1>4, <1>6, <1>7 DEF PlanInv, Whole, OneRow
<1>9. PlanOutcome' = PlanOutcome
  <2>1. /\ PlanOutcome' = [PlanOutcome EXCEPT ![tasks[t].page] = Result("pending")]
        /\ PlanOutcome \in [Pages -> {"open", "good", "bad"}] /\ tasks[t].page \in Pages
        /\ PlanOutcome[tasks[t].page] = Result("pending")
    BY <1>4, <1>6, <1>7, <1>8, PlanRow DEF PlanInv
  <2>2. QED
    BY <2>1
<1>10. job[j].kind = "page"
  BY <1>1, Opens
<1>11. tasks'[t].page = job[j].page
  BY <1>4, <1>6 DEF OneRow
<1>12. QED
  BY <1>1, <1>3, <1>5, <1>6, <1>8, <1>9, <1>10, <1>11, PlanBegins

LEMMA PlanCreate ==
  ASSUME TypeInv, TidyInv, PlanInv, NEW j \in Jobs, CreateTask(j)
  PROVE  PlanInv' /\ PlanStep
<1> DEFINE task == [page |-> job[j].page, status |-> "pending", article |-> FALSE, claim |-> 0]
           n == Len(tasks) + 1
           m == [job[j] EXCEPT !.at = "run", !.task = n, !.seen = NewProject]
<1>1. job[j].at = "open" /\ project' = project
  BY DEF CreateTask
<1>2. tasks' = Append(tasks, task) /\ Reusable(j) = {} /\ Len(tasks) < MaxTasks
  BY DEF CreateTask
<1>3. job' = [job EXCEPT ![j] = m]
  BY Facts DEF CreateTask
<1>4. n \in 0..MaxTasks /\ job[j] \in Job
  BY <1>2, Facts, Sizes
<1>5. m \in Job /\ m.at = "run" /\ m.task = n /\ m.kind = job[j].kind /\ m.page = job[j].page
  BY <1>4, NewProjectType DEF Job, Labels
<1>6. task.page = job[j].page /\ task.status = "pending" /\ ~task.article
  OBVIOUS
<1> HIDE DEF task, m
<1>7. /\ DOMAIN tasks' = DOMAIN tasks \cup {n} /\ tasks'[n] = task /\ n \notin DOMAIN tasks
      /\ \A t \in DOMAIN tasks : tasks'[t] = tasks[t]
  BY <1>2, Facts
<1> HIDE DEF n
<1>8. Whole'
  BY <1>6, <1>7 DEF PlanInv, Whole
<1>9. DonePages' = DonePages
  BY <1>6, <1>7 DEF DonePages, DoneStatus
<1>10. PlanOutcome' = PlanOutcome
  <2>1. ASSUME NEW p \in Pages
        PROVE  (\E t \in DOMAIN tasks' : tasks'[t].page = p /\ tasks'[t].status = "completed")
                 <=> \E t \in DOMAIN tasks : tasks[t].page = p /\ tasks[t].status = "completed"
    BY <1>6, <1>7
  <2>2. QED
    BY <1>9, <2>1 DEF PlanOutcome
<1>11. job[j].kind = "page"
  BY <1>1, Opens
<1>12. QED
  BY <1>1, <1>3, <1>5, <1>6, <1>7, <1>8, <1>10, <1>11, PlanBegins

\* A page's run goes on or ends.
LEMMA PlanRuns ==
  ASSUME TypeInv, TidyInv, PlanInv, NEW j \in Jobs,
         RunPage(j) \/ PageCompleted(j) \/ PageFailed(j) \/ PageInfra(j)
  PROVE  PlanInv' /\ PlanStep
<1> DEFINE t == job[j].task
           p == job[j].page
<1>1. /\ Chain(j) /\ job[j].at \in {"run", "running"} /\ t \in DOMAIN tasks
      /\ job[j].kind = "page" /\ p \in Pages /\ p # 0
  <2>1. job[j].at \in {"run", "running"}
    BY DEF RunPage, PageCompleted, PageFailed, PageInfra
  <2>2. job[j].kind = "page" /\ p \in Pages /\ t \in DOMAIN tasks
    BY <2>1, Facts DEF Fits
  <2>3. QED
    BY <2>1, <2>2 DEF Chain, Pages
<1>2. /\ tasks[t].page = p /\ tasks[t].status \in {"pending", "processing"} /\ Whole
      /\ job[j].at = "run" => tasks[t].status = "pending"
      /\ job[j].at = "running" => tasks[t].status = "processing"
  BY <1>1 DEF PlanInv, Agreed
<1>3. ASSUME NEW m \in Job, job' = [job EXCEPT ![j] = m], m.kind = "page",
             m.at \in {"running", "report", "retry"}, m.page = p, m.task = t, OneRow(t),
             tasks'[t].status # "stale",
             tasks'[t].article <=> tasks'[t].status = "completed",
             m.at = "running" => tasks'[t].status = "processing"
      PROVE  /\ PlanInv' /\ PlanCurrent = p
             /\ PlanCurrent' = (IF m.at = "running" THEN p ELSE 0)
             /\ PlanLeave' = PlanLeave
             /\ PlanOutcome' = [PlanOutcome EXCEPT ![p] = Result(tasks'[t].status)]
             /\ PlanOutcome \in [Pages -> {"open", "good", "bad"}] /\ PlanOutcome[p] = "open"
  <2>1. Whole'
    BY <1>1, <1>2, <1>3 DEF Whole, OneRow
  <2>2. tasks'[t].page = p
    BY <1>1, <1>2, <1>3 DEF OneRow
  <2>3. Agreed(j)'
    <3>1. job'[j] = m
      BY <1>3, Moved
    <3>2. QED
      BY <1>3, <2>2, <3>1 DEF Agreed, Chosen, Opening
  <2>4. /\ PlanInv' /\ PlanCurrent = p
        /\ PlanCurrent' = (IF m.at \in {"run", "running"} THEN m.page ELSE 0)
        /\ PlanLeave <=> Gives(job[j])
        /\ PlanLeave' <=> Gives(m)
        /\ PlanLeave \in BOOLEAN /\ PlanLeave' \in BOOLEAN
    BY <1>1, <1>3, <2>1, <2>3, PlanLone
  <2>5. ~Gives(job[j]) /\ ~Gives(m)
    BY <1>1, <1>3 DEF Gives, Opening
  <2>6. /\ PlanOutcome \in [Pages -> {"open", "good", "bad"}]
        /\ PlanOutcome[p] = Result(tasks[t].status)
        /\ PlanOutcome' = [PlanOutcome EXCEPT ![p] = Result(tasks'[t].status)]
    BY <1>1, <1>2, <1>3, <2>1, PlanRow
  <2>7. PlanOutcome[p] = "open"
    BY <1>2, <2>6 DEF Result
  <2>8. PlanLeave' = PlanLeave
    BY <2>4, <2>5
  <2>9. PlanCurrent' = (IF m.at = "running" THEN p ELSE 0)
    BY <1>3, <2>4
  <2>10. QED
    BY <2>4, <2>6, <2>7, <2>8, <2>9
<1>4. CASE RunPage(j)
  <2>1. OneRow(t) /\ tasks'[t].status = "processing" /\ tasks'[t].article = tasks[t].article
    <3>1. tasks' = [tasks EXCEPT ![t].status = "processing", ![t].claim = j]
      BY <1>4 DEF RunPage
    <3>2. tasks' \in [DOMAIN tasks -> Task]
      BY <3>1, TaskFields, Facts DEF TaskStatus
    <3>3. /\ tasks'[t].status = "processing" /\ tasks'[t].page = tasks[t].page
          /\ tasks'[t].article = tasks[t].article
      BY <1>1, <3>1, Facts DEF Task
    <3>4. \A u \in DOMAIN tasks \ {t} : tasks'[u] = tasks[u]
      BY <3>1, Facts
    <3>5. QED
      BY <3>2, <3>3, <3>4 DEF OneRow
  <2>2. PICK m \in Job : /\ job' = [job EXCEPT ![j] = m] /\ m.at = "running" /\ m.task = t
                         /\ m.kind = job[j].kind /\ m.page = p
    BY <1>4, GotoType DEF RunPage, Labels
  <2>3. project' = project
    BY <1>4 DEF RunPage
  <2>4. ~tasks[t].article
    BY <1>1, <1>2 DEF Whole
  <2>5. /\ PlanInv' /\ PlanCurrent' = PlanCurrent /\ PlanLeave' = PlanLeave
        /\ PlanOutcome' = [PlanOutcome EXCEPT ![p] = Result("processing")]
        /\ PlanOutcome \in [Pages -> {"open", "good", "bad"}] /\ PlanOutcome[p] = "open"
    BY <1>1, <1>3, <2>1, <2>2, <2>4
  <2>6. PlanOutcome' = PlanOutcome
    BY <1>1, <2>5 DEF Result
  <2>7. QED
    BY <2>3, <2>5, <2>6 DEF PlanStep, Plan!planVars
<1>5. CASE PageCompleted(j) \/ PageFailed(j)
  <2>1. /\ OneRow(t) /\ tasks'[t].status \in {"completed", "failed"}
        /\ tasks'[t].article <=> tasks'[t].status = "completed"
    <3>1. CASE PageCompleted(j)
      <4>1. tasks' = [tasks EXCEPT ![t].status = "completed", ![t].article = TRUE]
        BY <3>1 DEF PageCompleted
      <4>2. OneRow(t) /\ tasks'[t].status = "completed"
        <5>1. "completed" \in TaskStatus
          BY DEF TaskStatus
        <5>2. QED
          BY <1>1, <4>1, <5>1, RowArticle, Zenon
      <4>3. tasks'[t].article
        BY <1>1, <4>1, Facts DEF Task
      <4>4. QED
        BY <4>2, <4>3
    <3>2. CASE PageFailed(j)
      <4>1. tasks' = [tasks EXCEPT ![t].status = "failed"]
        BY <3>2 DEF PageFailed, Update
      <4>2. OneRow(t) /\ tasks'[t].status = "failed"
        BY <1>1, <4>1, RowStatus DEF TaskStatus
      <4>3. tasks'[t].article = tasks[t].article
        BY <1>1, <4>1, Facts DEF Task
      <4>4. QED
        BY <1>1, <1>2, <4>2, <4>3 DEF Whole
    <3>3. QED
      BY <1>5, <3>1, <3>2
  <2>2. PICK m \in Job : /\ job' = [job EXCEPT ![j] = m] /\ m.at = "report" /\ m.task = t
                         /\ m.kind = job[j].kind /\ m.page = p
    BY <1>5, GotoType DEF PageCompleted, PageFailed, Labels
  <2>3. project' = project
    BY <1>5 DEF PageCompleted, PageFailed
  <2>4. /\ PlanInv' /\ PlanCurrent = p /\ PlanCurrent' = 0 /\ PlanLeave' = PlanLeave
        /\ PlanOutcome' = [PlanOutcome EXCEPT ![p] = Result(tasks'[t].status)]
    BY <1>1, <1>3, <2>1, <2>2
  <2>5. Result(tasks'[t].status) \in {"good", "bad"}
    BY <2>1 DEF Result
  <2>6. Plan!EndPage
    BY <1>1, <2>3, <2>4, <2>5 DEF Plan!EndPage
  <2>7. QED
    BY <2>4, <2>6 DEF PlanStep, Plan!PlanNext
<1>6. CASE PageInfra(j)
  <2>1. /\ project'.status = "pending" /\ project'.stopping = project.stopping
        /\ project' \in Project /\ job[j].at = "running"
    BY <1>6, Facts DEF PageInfra, Project, ProjectStatus
  <2> DEFINE m == [job[j] EXCEPT !.at = "retry", !.seen = project']
  <2>2. job' = [job EXCEPT ![j] = m]
    BY <1>6, Facts DEF PageInfra
  <2>3. m \in Job
    <3>1. "retry" \in Labels /\ job[j] \in Job
      BY Facts DEF Labels
    <3>2. project' \in Project
      BY <2>1
    <3>3. QED
      BY <3>1, <3>2 DEF Job
  <2>4. m.at = "retry" /\ m.kind = job[j].kind /\ m.page = p /\ m.task = t
    BY <2>3 DEF Job
  <2> HIDE DEF m
  <2>5. OneRow(t) /\ tasks'[t].status = "pending" /\ tasks'[t].article = tasks[t].article
    <3>1. tasks' = [tasks EXCEPT ![t].status = "pending"]
      BY <1>2, <1>6, <2>1 DEF PageInfra, Update
    <3>2. OneRow(t) /\ tasks'[t].status = "pending"
      BY <1>1, <3>1, RowStatus DEF TaskStatus
    <3>3. tasks'[t].article = tasks[t].article
      BY <1>1, <3>1, Facts DEF Task
    <3>4. QED
      BY <3>2, <3>3
  <2>6. ~tasks[t].article
    BY <1>1, <1>2 DEF Whole
  <2>7. /\ PlanInv' /\ PlanCurrent = p /\ PlanCurrent' = 0 /\ PlanLeave' = PlanLeave
        /\ PlanOutcome' = [PlanOutcome EXCEPT ![p] = Result("pending")]
        /\ PlanOutcome \in [Pages -> {"open", "good", "bad"}] /\ PlanOutcome[p] = "open"
    BY <1>1, <1>3, <2>2, <2>3, <2>4, <2>5, <2>6
  <2>8. PlanOutcome' = PlanOutcome
    BY <1>1, <2>7 DEF Result
  <2>9. QED
    BY <1>1, <2>1, <2>7, <2>8 DEF PlanStep, Plan!PlanNext, Plan!CutShort
<1>7. QED
  BY <1>4, <1>5, <1>6

LEMMA PlanSend ==
  ASSUME TypeInv, TidyInv, PlanInv, NEW j \in Jobs, Send(j)
  PROVE  PlanInv' /\ PlanStep
<1>1. Chain(j) /\ job[j].at \in {"send", "retry"} /\ UNCHANGED <<project, tasks>>
  BY DEF Send, Chain
<1>2. /\ Agreed(j) /\ OpenPages' = OpenPages /\ PlanOutcome' = PlanOutcome /\ Whole
      /\ \A k \in Jobs \ {j} : job[k].at \in {"free", "ack"}
      /\ job[j].kind \in Kinds /\ (job[j].kind = "advance" => job[j].at = "send")
  <2>1. job[j].kind \in Kinds /\ (job[j].kind = "advance" => job[j].at = "send")
    BY <1>1, Facts DEF Fits, Job
  <2>2. QED
    BY <1>1, <2>1, ChainGoing, SamePages, PlanPages DEF PlanInv
<1>3. PICK s \in Jobs \ {j} :
        job' = [job EXCEPT ![s] = Successor(j), ![j].at = "ack", ![j].seen = NewProject]
  BY SlotType DEF Send
<1> DEFINE m == [job[j] EXCEPT !.at = "ack", !.seen = NewProject]
           next == Successor(j)
<1>4. /\ job'[s] = next /\ job'[j] = m
      /\ \A k \in Jobs \ {s, j} : job'[k] = job[k]
  BY <1>3, Facts
<1>5. m.at = "ack"
  BY Facts DEF Job
<1> HIDE DEF m
<1>6. /\ next.at = "queued" /\ ~next.approved
      /\ next.kind = IF job[j].kind = "advance" THEN "page" ELSE "advance"
      /\ job[j].kind = "advance" => next.page = job[j].page
  BY DEF Successor, Message
<1> HIDE DEF next
<1>7. \A k \in Jobs \ {s} : job'[k].at \in {"free", "ack"}
  BY <1>2, <1>4, <1>5
<1>8. PlanInv'
  <2>1. Agreed(s)'
    BY <1>1, <1>2, <1>4, <1>6 DEF Agreed, Chosen, Opening
  <2>2. \A k \in Jobs \ {s} : Agreed(k)'
    BY <1>7 DEF Agreed, Chosen, Opening
  <2>3. QED
    BY <1>1, <1>2, <2>1, <2>2 DEF PlanInv, Whole
<1>9. /\ PlanCurrent = 0 /\ PlanCurrent' = 0
      /\ PlanLeave <=> Gives(job[j])
      /\ PlanLeave' <=> Gives(next)
      /\ PlanLeave \in BOOLEAN /\ PlanLeave' \in BOOLEAN
  <2>1. PlanCurrent = 0 /\ (PlanLeave <=> Gives(job[j]))
    BY <1>1, <1>2, Standing
  <2>2. PlanCurrent' = 0 /\ (PlanLeave' <=> Gives(next))
    BY <1>4, <1>6, <1>7, NextStanding
  <2>3. QED
    BY <2>1, <2>2 DEF PlanLeave
<1>10. CASE job[j].kind = "advance" /\ ~job[j].approved
  <2>1. PlanLeave' = TRUE
    BY <1>6, <1>9, <1>10 DEF Gives, Opening
  <2>2. project.status = "generating" /\ (Approval => ~Plan!SomeGood)
    BY <1>2, <1>10, PlanOpen DEF Agreed
  <2>3. QED
    BY <1>1, <1>2, <1>8, <1>9, <2>1, <2>2 DEF PlanStep, Plan!PlanNext, Plan!Permit
<1>11. CASE job[j].kind # "advance" \/ job[j].approved
  <2>1. Gives(job[j]) <=> Gives(next)
    BY <1>1, <1>6, <1>11 DEF Gives, Opening
  <2>2. PlanLeave' = PlanLeave
    BY <1>9, <2>1
  <2>3. QED
    BY <1>1, <1>2, <1>8, <1>9, <2>2 DEF PlanStep, Plan!planVars
<1>12. QED
  BY <1>10, <1>11

LEMMA UnclaimedWhole ==
  ASSUME TypeInv, Whole, NEW js, tasks' = Unclaimed(js)
  PROVE  Whole' /\ PlanOutcome' = PlanOutcome
<1>1. /\ DOMAIN tasks' = DOMAIN tasks
      /\ \A t \in DOMAIN tasks : /\ tasks'[t].status = tasks[t].status
                                 /\ tasks'[t].page = tasks[t].page
                                 /\ tasks'[t].article = tasks[t].article
  BY Facts DEF Unclaimed, Task
<1>2. QED
  BY <1>1, PlanPages DEF Whole

LEMMA PlanAck ==
  ASSUME TypeInv, TidyInv, PlanInv, NEW j \in Jobs, Ack(j)
  PROVE  PlanInv' /\ PlanStep
<1>1. job[j].at = "ack" /\ job' = Dropped({j}) /\ tasks' = Unclaimed({j}) /\ project' = project
  BY DEF Ack
<1>2. job'[j].at = "free" /\ \A k \in Jobs \ {j} : job'[k] = job[k]
  BY <1>1, DroppedJobs
<1>3. /\ Whole' /\ PlanOutcome' = PlanOutcome
      /\ DOMAIN tasks' = DOMAIN tasks /\ OpenPages' = OpenPages
      /\ \A t \in DOMAIN tasks : tasks'[t].status = tasks[t].status /\ tasks'[t].page = tasks[t].page
  BY <1>1, UnclaimedWhole, UnclaimedRows DEF PlanInv
<1>4. SomeDone' <=> SomeDone
  BY <1>3 DEF SomeDone
<1>5. ASSUME NEW k \in Jobs \ {j}
      PROVE  Agreed(k)'
  <2>1. job[k].at \in {"run", "running"} => job[k].task \in DOMAIN tasks
    BY Facts DEF Fits
  <2>2. Agreed(k) /\ job'[k] = job[k]
    BY <1>2 DEF PlanInv
  <2>3. job[k].at \in {"run", "running"} =>
          /\ tasks'[job[k].task].status = tasks[job[k].task].status
          /\ tasks'[job[k].task].page = tasks[job[k].task].page
    BY <1>3, <2>1
  <2>4. /\ job[k].at = "run" => tasks'[job[k].task].status = "pending"
        /\ job[k].at = "running" => tasks'[job[k].task].status = "processing"
        /\ job[k].at \in {"run", "running"} => tasks'[job[k].task].page = job[k].page
    BY <2>2, <2>3 DEF Agreed
  <2>5. QED
    BY <1>1, <1>3, <1>4, <2>2, <2>4 DEF Agreed, Chosen, Opening
<1>6. Agreed(j)'
  BY <1>2 DEF Agreed, Chosen, Opening
<1>7. PlanCurrent' = PlanCurrent
  <2>1. AtWork' = AtWork
    BY <1>1, <1>2 DEF AtWork
  <2>2. QED
    BY <2>1 DEF PlanCurrent
<1>8. PlanLeave' = PlanLeave
  <2>1. PlanLeave' <=> PlanLeave
    BY <1>1, <1>2 DEF PlanLeave, Chain
  <2>2. QED
    BY <2>1 DEF PlanLeave
<1>9. QED
  BY <1>1, <1>3, <1>5, <1>6, <1>7, <1>8 DEF PlanInv, PlanStep, Plan!planVars

\* A request at rest that queues a message.
LEMMA PlanQueue ==
  ASSUME TypeInv, AtRest, "broker" \notin Faults, NEW m \in Job, m.at = "queued", m.kind # "page",
         Queue(m) \/ QueueNamed(m), Whole'
  PROVE  /\ PlanInv'
         /\ PlanCurrent = 0 /\ PlanCurrent' = 0 /\ PlanLeave = FALSE
         /\ PlanLeave' = (m.kind = "advance" /\ m.approved)
<1>1. \A k \in Jobs : job[k].at \in {"free", "ack"} /\ job[k] \in Job
  BY Facts DEF AtRest, Chain
<1>2. PICK s \in Jobs : job'[s] = m /\ \A k \in Jobs \ {s} : job'[k].at \in {"free", "ack"}
  <2>1. CASE Slots # {} /\ job' = [job EXCEPT ![Slot] = m]
    BY <1>1, <2>1, SlotType, Facts
  <2>2. CASE /\ Slots # {}
             /\ job' = [j \in Jobs |-> IF j = Slot THEN m ELSE [job[j] EXCEPT !.named = FALSE]]
    <3>1. ASSUME NEW k \in Jobs
          PROVE  [job[k] EXCEPT !.named = FALSE].at = job[k].at
      BY <1>1 DEF Job
    <3>2. QED
      BY <1>1, <2>2, <3>1, SlotType
  <2>3. ~Refused
    BY DEF Refused
  <2>4. QED
    BY <2>1, <2>2, <2>3 DEF Queue, QueueNamed
<1>3. PlanInv'
  <2>1. Agreed(s)'
    BY <1>2 DEF Agreed, Chosen, Opening
  <2>2. \A k \in Jobs \ {s} : Agreed(k)'
    BY <1>2 DEF Agreed, Chosen, Opening
  <2>3. QED
    BY <2>1, <2>2 DEF PlanInv
<1>4. PlanCurrent = 0 /\ PlanLeave = FALSE
  <2>1. PlanCurrent = 0 /\ (PlanLeave <=> Gives(job[s]))
    BY <1>1, Standing
  <2>2. ~Gives(job[s])
    BY <1>1 DEF Gives, Opening
  <2>3. QED
    BY <2>1, <2>2 DEF PlanLeave
<1>5. PlanCurrent' = 0 /\ (PlanLeave' <=> (m.kind = "advance" /\ m.approved))
  <2>1. PlanCurrent' = 0 /\ (PlanLeave' <=> Gives(m))
    BY <1>2, NextStanding
  <2>2. Gives(m) <=> (m.kind = "advance" /\ m.approved)
    BY DEF Gives, Opening
  <2>3. QED
    BY <2>1, <2>2
<1>6. PlanLeave' = (m.kind = "advance" /\ m.approved)
  BY <1>5 DEF PlanLeave
<1>7. QED
  BY <1>3, <1>4, <1>5, <1>6

\* The requests that put a project at rest back to work.
LEMMA PlanRest ==
  ASSUME TypeInv, TidyInv, PlanInv, Orderly,
         StartProject \/ ResumeProject \/ RetryFailed \/ ApprovePage
  PROVE  PlanInv' /\ PlanStep
<1>1. AtRest /\ "broker" \notin Faults /\ Careful
  BY DEF TidyInv, Settled, Resting, StartProject, ResumeProject, RetryFailed, ApprovePage, Orderly, Tidy
<1>2. \A t \in DOMAIN tasks : tasks[t].status # "processing"
  BY <1>1, NothingProcessed DEF AtRest, Chain
<1>3. 0 \in 0..NPages
  BY Sizes
<1>4. ASSUME NEW kind \in {"start", "advance"}, NEW approved \in BOOLEAN, NEW named \in BOOLEAN
      PROVE  LET m == Message(kind, 0, approved, named)
             IN  m \in Job /\ m.at = "queued" /\ m.kind = kind /\ m.approved = approved
  <2>1. Message(kind, 0, approved, named) \in Job
    BY <1>3, MessageType DEF Kinds
  <2>2. QED
    BY <2>1 DEF Message
<1>5. ASSUME tasks' = tasks
      PROVE  Whole' /\ PlanOutcome' = PlanOutcome
  BY <1>5, PlanPages DEF PlanInv, Whole
<1>6. CASE StartProject
  <2> DEFINE m == Message("start", 0, FALSE, TRUE)
  <2>1. m \in Job /\ m.at = "queued" /\ m.kind = "start"
    BY <1>4
  <2>2. QueueNamed(m) /\ UNCHANGED <<project, tasks>>
    BY <1>6 DEF StartProject
  <2> HIDE DEF m
  <2>3. PlanInv' /\ PlanCurrent = 0 /\ PlanCurrent' = 0 /\ PlanLeave = FALSE /\ PlanLeave' = FALSE
    BY <1>1, <1>5, <2>1, <2>2, PlanQueue
  <2>4. QED
    BY <1>5, <2>2, <2>3 DEF PlanStep, Plan!planVars
<1>7. CASE ResumeProject
  <2> DEFINE m == Message("start", 0, FALSE, FALSE)
  <2>1. m \in Job /\ m.at = "queued" /\ m.kind = "start"
    BY <1>4
  <2>2. /\ Queue(m) /\ UNCHANGED tasks /\ project.status = "stopped"
        /\ project' = [project EXCEPT !.status = "generating", !.stopping = FALSE]
    BY <1>7 DEF ResumeProject
  <2> HIDE DEF m
  <2>3. project'.status = "generating" /\ project'.stopping = FALSE
    BY <2>2, Facts DEF Project
  <2>4. PlanInv' /\ PlanCurrent = 0 /\ PlanCurrent' = 0 /\ PlanLeave = FALSE /\ PlanLeave' = FALSE
    BY <1>1, <1>5, <2>1, <2>2, PlanQueue
  <2>5. QED
    BY <1>5, <2>2, <2>3, <2>4 DEF PlanStep, Plan!PlanNext, Plan!Resume
<1>8. CASE ApprovePage
  <2> DEFINE m == Message("advance", 0, TRUE, FALSE)
  <2>1. m \in Job /\ m.at = "queued" /\ m.kind = "advance" /\ m.approved = TRUE
    BY <1>4
  <2>2. /\ Queue(m) /\ UNCHANGED tasks /\ project.status = "awaiting_page_approval"
        /\ project' = [project EXCEPT !.status = "generating"]
    BY <1>8 DEF ApprovePage
  <2> HIDE DEF m
  <2>3. project'.status = "generating" /\ project'.stopping = project.stopping
    BY <2>2, Facts DEF Project
  <2>4. PlanInv' /\ PlanCurrent = 0 /\ PlanCurrent' = 0 /\ PlanLeave = FALSE /\ PlanLeave' = TRUE
    BY <1>1, <1>5, <2>1, <2>2, PlanQueue
  <2>5. QED
    BY <1>5, <2>2, <2>3, <2>4 DEF PlanStep, Plan!PlanNext, Plan!Agree
<1>9. CASE RetryFailed
  <2> DEFINE m == Message("start", 0, FALSE, FALSE)
  <2>1. m \in Job /\ m.at = "queued" /\ m.kind = "start"
    BY <1>4
  <2>2. /\ Queue(m) /\ FailedTasks # {}
        /\ project' = [project EXCEPT !.status = "generating", !.stopping = FALSE]
        /\ tasks' = [t \in DOMAIN tasks |-> IF t \in FailedTasks
                                            THEN [tasks[t] EXCEPT !.status = "pending"]
                                            ELSE tasks[t]]
    BY <1>9 DEF RetryFailed
  <2> HIDE DEF m
  <2>3. project'.status = "generating" /\ project'.stopping = FALSE
    BY <2>2, Facts DEF Project
  <2>4. /\ DOMAIN tasks' = DOMAIN tasks
        /\ \A t \in DOMAIN tasks :
             /\ tasks'[t].page = tasks[t].page /\ tasks'[t].article = tasks[t].article
             /\ tasks'[t].status = IF tasks[t].status = "failed" THEN "pending" ELSE tasks[t].status
    BY <2>2, Facts DEF Task, FailedTasks
  <2>5. Whole'
    BY <2>4 DEF PlanInv, Whole
  <2>6. \A t \in DOMAIN tasks : /\ tasks[t].page \in Pages
                                /\ tasks[t].status \in {"pending", "failed", "completed"}
                                /\ \A u \in DOMAIN tasks : tasks[u].page = tasks[t].page => u = t
    BY <1>2, Facts DEF Task, TaskStatus, PlanInv, Whole, TidyInv, OneTaskPerPage
  <2>7. ASSUME NEW p \in Pages
        PROVE  PlanOutcome'[p] = IF PlanOutcome[p] = "bad" THEN "open" ELSE PlanOutcome[p]
    <3>1. CASE \E t \in DOMAIN tasks : tasks[t].page = p /\ tasks[t].status = "completed"
      BY <2>4, <3>1 DEF PlanOutcome
    <3>2. CASE ~\E t \in DOMAIN tasks : tasks[t].page = p /\ tasks[t].status = "completed"
      <4>1. ~\E t \in DOMAIN tasks' : tasks'[t].page = p /\ tasks'[t].status = "completed"
        BY <2>4, <3>2
      <4>2. p \notin DonePages'
        BY <2>4, <2>6, <3>2 DEF DonePages, DoneStatus
      <4>3. QED
        BY <3>2, <4>1, <4>2 DEF PlanOutcome
    <3>3. QED
      BY <3>1, <3>2
  <2>8. PlanOutcome' = [p \in 1..NPages |-> IF PlanOutcome[p] = "bad" THEN "open" ELSE PlanOutcome[p]]
    BY <2>7 DEF PlanOutcome, Pages
  <2>9. \E p \in 1..NPages : PlanOutcome[p] = "bad"
    <3>1. PICK t \in DOMAIN tasks : tasks[t].status = "failed"
      BY <2>2 DEF FailedTasks
    <3>2. tasks[t].page \in DonePages
      BY <3>1 DEF DonePages, DoneStatus
    <3>3. PlanOutcome[tasks[t].page] = "bad"
      BY <2>6, <3>1, <3>2 DEF PlanOutcome
    <3>4. QED
      BY <2>6, <3>3 DEF Pages
  <2>10. PlanInv' /\ PlanCurrent = 0 /\ PlanCurrent' = 0 /\ PlanLeave = FALSE /\ PlanLeave' = FALSE
    BY <1>1, <2>1, <2>2, <2>5, PlanQueue
  <2>11. QED
    BY <2>3, <2>8, <2>9, <2>10 DEF PlanStep, Plan!PlanNext, Plan!RetryBad
<1>10. QED
  BY <1>6, <1>7, <1>8, <1>9

LEMMA PlanStop ==
  ASSUME TypeInv, PlanInv, StopProject
  PROVE  PlanInv' /\ PlanStep
<1>1. /\ tasks' = tasks /\ job' = job /\ project.status \in {"pending", "generating"}
      /\ project'.status = project.status /\ project'.stopping = TRUE
  BY Facts DEF StopProject, Project
<1>2. Whole' /\ PlanOutcome' = PlanOutcome /\ OpenPages' = OpenPages /\ (SomeDone' <=> SomeDone)
  BY <1>1, PlanPages DEF PlanInv, Whole
<1>3. PlanInv'
  <2>1. ASSUME NEW j \in Jobs
        PROVE  Agreed(j)'
    BY <1>1, <1>2 DEF PlanInv, Agreed, Chosen, Opening
  <2>2. QED
    BY <1>2, <2>1 DEF PlanInv
<1>4. PlanCurrent' = PlanCurrent /\ PlanLeave' = PlanLeave
  BY <1>1 DEF PlanCurrent, AtWork, PlanLeave, Chain
<1>5. QED
  BY <1>1, <1>2, <1>3, <1>4 DEF PlanStep, Plan!PlanNext, Plan!AskStop

LEMMA PlanReset ==
  ASSUME TypeInv, PlanInv, Careful, ResetStatus
  PROVE  PlanInv' /\ PlanStep
<1>1. PICK js : job' = Dropped(js) /\ tasks' = Unclaimed(js)
  BY DEF ResetStatus
<1>2. /\ AtRest /\ project.status \in {"pending", "generating"}
      /\ project'.status = "failed" /\ project'.stopping = FALSE
  BY Facts DEF ResetStatus, Project
<1>3. \A k \in Jobs : job[k].at \in {"free", "ack"} /\ job'[k].at \in {"free", "ack"}
  BY <1>1, <1>2, DroppedJobs DEF AtRest, Chain
<1>4. Whole' /\ PlanOutcome' = PlanOutcome
  BY <1>1, UnclaimedWhole DEF PlanInv
<1>5. PlanInv'
  <2>1. \A k \in Jobs : Agreed(k)'
    BY <1>3 DEF Agreed, Chosen, Opening
  <2>2. QED
    BY <1>4, <2>1 DEF PlanInv
<1>6. PICK s \in Jobs : TRUE
  BY SizeAssumption DEF Jobs
<1>7. PlanCurrent = 0 /\ PlanLeave = FALSE
  <2>1. PlanCurrent = 0 /\ (PlanLeave <=> Gives(job[s]))
    BY <1>3, Standing
  <2>2. ~Gives(job[s])
    BY <1>3 DEF Gives, Opening
  <2>3. QED
    BY <2>1, <2>2 DEF PlanLeave
<1>8. PlanCurrent' = 0 /\ PlanLeave' = FALSE
  <2>1. PlanCurrent' = 0 /\ (PlanLeave' <=> Gives(job'[s]))
    BY <1>3, NextStanding
  <2>2. ~Gives(job'[s])
    BY <1>3 DEF Gives, Opening
  <2>3. QED
    BY <2>1, <2>2 DEF PlanLeave
<1>9. QED
  BY <1>2, <1>4, <1>5, <1>7, <1>8 DEF PlanStep, Plan!PlanNext, Plan!Fail, Plan!UnderWay

LEMMA PlanInitial == Init => PlanInv /\ Plan!PlanInit
<1> SUFFICES ASSUME Init PROVE PlanInv /\ Plan!PlanInit
  OBVIOUS
<1>1. project.status = "pending" /\ project.stopping = FALSE /\ DOMAIN tasks = {}
  BY DEF Init, NewProject
<1>2. \A j \in Jobs : \/ job[j].at = "free"
                      \/ j = 1 /\ job[j].at = "queued" /\ job[j].kind = "start"
  <2>1. \/ job = [j \in Jobs |-> Free]
        \/ job = [j \in Jobs |-> IF j = 1 THEN Message("start", 0, FALSE, TRUE) ELSE Free]
    BY DEF Init
  <2>2. Free.at = "free"
    BY FreeType, 0 \in Nat
  <2> DEFINE m == Message("start", 0, FALSE, TRUE)
  <2>3. m.at = "queued" /\ m.kind = "start"
    BY DEF Message
  <2>4. \A j \in Jobs : job[j] = Free \/ (j = 1 /\ job[j] = m)
    BY <2>1 DEF m
  <2> HIDE DEF m
  <2>5. QED
    BY <2>2, <2>3, <2>4
<1>3. PlanInv
  <2>1. ASSUME NEW j \in Jobs
        PROVE  Agreed(j)
    BY <1>1, <1>2 DEF Agreed, Chosen, Opening
  <2>2. QED
    BY <1>1, <2>1 DEF PlanInv, Whole
<1>4. PlanCurrent = 0
  BY <1>2 DEF PlanCurrent, AtWork
<1>5. PlanLeave = FALSE
  BY <1>2 DEF PlanLeave, Chain
<1>6. PlanOutcome = [p \in 1..NPages |-> "open"]
  BY <1>1 DEF PlanOutcome, DonePages, Pages
<1>7. QED
  BY <1>1, <1>3, <1>4, <1>5, <1>6 DEF Plan!PlanInit

LEMMA PlanFollowed ==
  ASSUME Orderly
  PROVE  TypeInv /\ TidyInv /\ PlanInv /\ [Next]_vars => PlanInv' /\ PlanStep
<1> SUFFICES ASSUME TypeInv, TidyInv, PlanInv, [Next]_vars PROVE PlanInv' /\ PlanStep
  OBVIOUS
<1>1. CASE UNCHANGED vars
  <2>1. project' = project /\ tasks' = tasks /\ job' = job
    BY <1>1 DEF vars
  <2>2. PlanInv'
    BY <2>1 DEF PlanInv, Whole, Agreed, Chosen, Opening, OpenPages, DonePages, SomeDone
  <2>3. PlanOutcome' = PlanOutcome /\ PlanCurrent' = PlanCurrent /\ PlanLeave' = PlanLeave
    BY <2>1 DEF PlanOutcome, DonePages, PlanCurrent, AtWork, PlanLeave, Chain
  <2>4. QED
    BY <2>1, <2>2, <2>3 DEF PlanStep, Plan!planVars
<1>2. CASE Environment
  <2>1. ~Requeue /\ ~MarkStale /\ Careful
    BY DEF Orderly, Tidy, Requeue, MarkStale, Request
  <2>2. QED
    BY <1>2, <2>1, PlanRest, PlanStop, PlanReset DEF Environment
<1>3. ASSUME NEW j \in Jobs, Work(j) \/ Disturb(j)
      PROVE  PlanInv' /\ PlanStep
  <2>1. ~Crash(j) /\ ~Lose(j) /\ ~SendFails(j)
    BY DEF Orderly, Tidy, Crash, Lose, SendFails
  <2>2. QED
    BY <1>3, <2>1, PlanLoads, PlanCommits, PlanReuse, PlanCreate, PlanRuns, PlanSend, PlanAck
       DEF Work, Disturb
<1>4. QED
  BY <1>1, <1>2, <1>3 DEF Next

\* An orderly project keeps to the plan, whatever its size: the steps of the workers, whose
\* copies of the row are old when they commit, and the operators' requests in between are
\* steps of SitePlan or change nothing in it.  Pages are written one at a time and in their
\* order, each with the operator's leave where it is asked for; a written page stays written;
\* the project stops only when it was asked to and is complete only when every page was tried
\* (tasks.py:91-503, projects.py:1316-1503).
THEOREM KeepsToPlan ==
  ASSUME Orderly
  PROVE  Spec => Plan!PlanInit /\ [][Plan!PlanNext]_(Plan!planVars)
<1>1. TypeInv /\ TidyInv /\ [Next]_vars => TidyInv'
  BY TidyNext DEF Orderly
<1>2. TypeInv /\ TidyInv /\ PlanInv /\ [Next]_vars => PlanInv' /\ [Plan!PlanNext]_(Plan!planVars)
  BY PlanFollowed DEF PlanStep
<1>3. Init => PlanInv /\ Plan!PlanInit
  BY PlanInitial
<1>4. QED
  BY <1>1, <1>2, <1>3, TypeInit, TypeNext, TidyInit, PTL DEF Spec

-----------------------------------------------------------------------------
(* What the plan says, said of the coordinator: a step of the plan keeps its  *)
(* promises, and the steps of an orderly project are steps of the plan.       *)

\* The page being written is open.
CurrentOpen == PlanCurrent # 0 => PlanCurrent \in Pages /\ PlanOutcome[PlanCurrent] = "open"

LEMMA CurrentOpenStep ==
  ASSUME CurrentOpen, PlanOutcome \in [Pages -> {"open", "good", "bad"}], PlanStep
  PROVE  CurrentOpen'
<1>1. CASE UNCHANGED Plan!planVars
  BY <1>1 DEF CurrentOpen, Plan!planVars
<1>2. CASE Plan!BeginPage
  BY <1>2 DEF CurrentOpen, Plan!BeginPage, Plan!OpenOnes, Pages
<1>3. CASE Plan!EndPage \/ Plan!CutShort
  BY <1>3 DEF CurrentOpen, Plan!EndPage, Plan!CutShort
<1>4. CASE Plan!RetryBad
  BY <1>4 DEF CurrentOpen, Plan!RetryBad
<1>5. CASE \/ Plan!GoOn \/ Plan!Permit \/ Plan!AskOperator \/ Plan!Agree \/ Plan!Withdraw
           \/ Plan!Complete \/ Plan!Fail \/ Plan!AskStop \/ Plan!Stop \/ Plan!Resume
  BY <1>5 DEF CurrentOpen, Plan!GoOn, Plan!Permit, Plan!AskOperator, Plan!Agree, Plan!Withdraw,
              Plan!Complete, Plan!Fail, Plan!AskStop, Plan!Stop, Plan!Resume
<1>6. QED
  BY <1>1, <1>2, <1>3, <1>4, <1>5 DEF PlanStep, Plan!PlanNext

\* A written page stays written; pages are begun with a leave and in their order; the leave is
\* the operator's once a page is written, where he is to be asked; the project stops only when
\* it was asked to, and is complete only when every page was tried and one is written.
Promises ==
  /\ \A p \in Pages : PlanOutcome[p] = "good" => PlanOutcome'[p] = "good"
  /\ PlanCurrent' \notin {0, PlanCurrent} =>
       PlanLeave /\ \A p \in Pages : PlanOutcome[p] = "open" => PlanCurrent' <= p
  /\ PlanLeave' /\ ~PlanLeave /\ Approval /\ (\E p \in Pages : PlanOutcome[p] = "good") =>
       project.status = "awaiting_page_approval"
  /\ project'.status = "stopped" /\ project.status # "stopped" => project.stopping
  /\ project'.status = "completed" /\ project.status # "completed" =>
       /\ \A p \in Pages : PlanOutcome[p] # "open"
       /\ \E p \in Pages : PlanOutcome[p] = "good"

LEMMA PlanPromises ==
  ASSUME CurrentOpen, PlanOutcome \in [Pages -> {"open", "good", "bad"}], PlanStep
  PROVE  Promises
<1>1. CASE UNCHANGED Plan!planVars
  BY <1>1 DEF Promises, Plan!planVars
<1>2. CASE Plan!BeginPage
  BY <1>2 DEF Promises, Plan!BeginPage, Plan!OpenOnes, Pages
<1>3. CASE Plan!EndPage \/ Plan!CutShort
  BY <1>3 DEF Promises, CurrentOpen, Plan!EndPage, Plan!CutShort
<1>4. CASE Plan!RetryBad
  BY <1>4 DEF Promises, Plan!RetryBad, Pages
<1>5. CASE Plan!GoOn \/ Plan!AskOperator \/ Plan!AskStop \/ Plan!Resume
  BY <1>5 DEF Promises, Plan!GoOn, Plan!AskOperator, Plan!AskStop, Plan!Resume
<1>6. CASE Plan!Withdraw \/ Plan!Fail
  BY <1>6 DEF Promises, Plan!Withdraw, Plan!Fail
<1>7. CASE Plan!Permit \/ Plan!Agree
  BY <1>7 DEF Promises, Plan!Permit, Plan!Agree, Plan!SomeGood, Pages
<1>8. CASE Plan!Complete \/ Plan!Stop
  BY <1>8 DEF Promises, Plan!Complete, Plan!Stop, Plan!SomeGood, Plan!OpenOnes, Pages
<1>9. QED
  BY <1>1, <1>2, <1>3, <1>4, <1>5, <1>6, <1>7, <1>8 DEF PlanStep, Plan!PlanNext

LEMMA OutcomeTyped == PlanOutcome \in [Pages -> {"open", "good", "bad"}]
BY DEF PlanOutcome

\* The promises of the plan hold of the rows, the messages and the workers of an orderly
\* project: no retry, failure or old copy of the row takes a written page back, writes one
\* out of turn or without the operator it has to ask, stops a project nobody asked to stop,
\* or completes one with a page untried (tasks.py:91-503, projects.py:1316-1503).
THEOREM PromisesKept ==
  ASSUME Orderly
  PROVE  Spec => [][Promises]_(Plan!planVars)
<1>1. Plan!PlanInit => CurrentOpen
  BY DEF Plan!PlanInit, CurrentOpen
<1>2. CurrentOpen /\ [Plan!PlanNext]_(Plan!planVars) => CurrentOpen' /\ Promises
  BY CurrentOpenStep, PlanPromises, OutcomeTyped DEF PlanStep
<1>3. Promises => [Promises]_(Plan!planVars)
  OBVIOUS
<1>4. QED
  BY <1>1, <1>2, <1>3, KeepsToPlan, PTL
=============================================================================
