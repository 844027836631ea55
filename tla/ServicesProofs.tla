----------------------------- MODULE ServicesProofs -----------------------------
(* Theorems about ProjectDesk for any projects, sites and requests: type         *)
(* correctness, that a deletion which no request overlaps leaves nothing behind, *)
(* and that projects for one keyword of a site come of overlapping requests; and *)
(* that each of the services keeps what it promises beside the others.           *)
EXTENDS MCServices, LlmStepProofs, SerpFetchProofs, BlueprintRunProofs, CatalogueProofs,
        FiniteSetTheorems, TLAPS

-----------------------------------------------------------------------------
(* The desk: the inductive invariant.                                      *)

HandlerSteps == {"resolve", "newsite", "check", "insert", "worker", "queue", "name", "edit",
                 "articles", "tasks", "remove"}

Handlers == {"create", "launch", "copyto", "clone", "start", "edit", "delete", "site"}

\* What a request holds, whatever it asked for.
RequestType ==
  [op : Handlers \cup {"none"}, left : Seq(HandlerSteps), slot : Slots \cup {0},
   site : SiteRows \cup {NoSite}, key : Keys \cup {0}, purged : BOOLEAN,
   locked : SUBSET Slots, force : BOOLEAN, alone : BOOLEAN]

\* What is left of a handler, from each of its steps on.
Naming == <<"name">>
Queueing == <<"queue", "name">>
Starting == <<"worker", "queue", "name">>
InsertCreate == <<"insert", "worker", "queue", "name">>
CheckCreate == <<"check", "insert", "worker", "queue", "name">>
ResolveCreate == <<"resolve", "check", "insert", "worker", "queue", "name">>
NewCreate == <<"newsite">> \o CheckCreate
InsertLaunch == <<"insert", "queue", "name">>
WorkerLaunch == <<"worker", "insert", "queue", "name">>
CheckLaunch == <<"check", "worker", "insert", "queue", "name">>
ResolveLaunch == <<"resolve", "check", "worker", "insert", "queue", "name">>
NewLaunch == <<"newsite">> \o CheckLaunch
InsertClone == <<"insert">>
CheckClone == <<"check", "insert">>
ResolveClone == <<"resolve", "check", "insert">>
NewClone == <<"newsite">> \o CheckClone
Editing == <<"edit">>
Removing == <<"remove">>
TasksOn == <<"tasks", "remove">>
ArticlesOn == <<"articles", "tasks", "remove">>

\* How far each handler may be, and from when on it has a project.
OnItsWay(r) ==
  \/ /\ r.op = "create" /\ r.slot = 0
     /\ r.left \in {ResolveCreate, NewCreate, CheckCreate, InsertCreate}
  \/ r.op \in {"create", "start"} /\ r.slot \in Slots /\ r.left \in {Starting, Queueing, Naming}
  \/ /\ r.op = "launch" /\ r.slot \in Slots
     /\ r.left \in {ResolveLaunch, NewLaunch, CheckLaunch, WorkerLaunch, InsertLaunch,
                    Queueing, Naming}
  \/ r.op = "copyto" /\ r.slot = 0 /\ r.left \in {ResolveClone, NewClone}
  \/ r.op \in {"copyto", "clone"} /\ r.slot = 0 /\ r.left \in {CheckClone, InsertClone}
  \/ r.op = "edit" /\ r.slot \in Slots /\ r.left = Editing
  \/ r.op = "delete" /\ r.slot \in Slots /\ r.left \in {ArticlesOn, TasksOn, Removing}
  \/ r.op = "site" /\ r.slot = 0 /\ r.left = Removing

RowType ==
  [status : {"none", "draft", "pending", "generating", "completed", "failed"},
   site : SiteRows \cup {NoSite}, key : Keys \cup {0}, archived : BOOLEAN, named : BOOLEAN]
PageType ==
  [status : {"none", "running", "done", "failed"}, site : SiteRows \cup {NoSite},
   article : BOOLEAN, owned : BOOLEAN, own : BOOLEAN]

Founders == {c \in Clients : At(c, "newsite")}

\* Past the launch of what it has: its project is no draft.
Launched(r) ==
  \/ r.op \in {"create", "start"} /\ r.slot # 0
  \/ r.op = "launch" /\ Head(r.left) \in {"queue", "name"}

\* No step of its own: another request begins beside it, or a worker comes in its way.
Waits(d) == request'[d] \in {request[d], [request[d] EXCEPT !.alone = FALSE]}

\* The project is inserted next, or a worker asked for before.
Checked(r) == Head(r.left) = "insert" \/ (r.op = "launch" /\ Head(r.left) = "worker")

DeskShape ==
  /\ DeskTypeOK
  /\ request \in [Clients -> RequestType]
  /\ \A c \in Busy : OnItsWay(request[c])
  /\ Cardinality(sites) + Cardinality(Founders) <= Cardinality(Clients)

\* No request has launched it.
NoneLaunched(s) == \A c \in Busy : request[c].slot = s => ~Launched(request[c])

\* The projects and their pages.
SlotInv(s) ==
  /\ There(s) => page[s].status = "none" \/ page[s].owned
  /\ page[s].status = "none" => page[s] = NoPage
  /\ row[s].status = "draft" => /\ page[s] = NoPage /\ s \notin messages \cup working
                                /\ NoneLaunched(s)

\* A project that nothing works on: no worker, and no delivery of its page's own.
Quiescent(s) ==
  /\ s \notin working /\ ~page[s].own
  /\ row[s].status \in {"draft", "failed", "completed"}

\* The project a deletion without force found, and what it found out of it.
Deletable(r) ==
  /\ Quiescent(r.slot)
  /\ Head(r.left) = "tasks" /\ Mine(r.slot) /\ page[r.slot].article => r.slot \in r.locked
  /\ Head(r.left) = "remove" => r.purged \/ page[r.slot].status = "none"

\* What a request that no other overlaps has read still holds.
AloneInv(c) ==
  LET r == request[c]
  IN /\ Busy = {c}
     /\ r.op = "launch" => Launched(r) \/ row[r.slot].key = r.key
     /\ Checked(r) => \A s \in Slots \ {r.slot} : ~Same(s, r.site, r.key)
     /\ r.op = "edit" => row[r.slot].status = "draft"
     /\ r.op = "delete" /\ ~r.force => Deletable(r)

DeskInv ==
  /\ DeskShape
  /\ \A s \in Slots : SlotInv(s)
  /\ \A c \in Busy : request[c].alone => AloneInv(c)

\* A request after a step of its own, when it is not answered.
Follows(r, q) ==
  /\ q \in RequestType /\ OnItsWay(q) /\ q.left # <<>>
  /\ q.op = r.op /\ q.key = r.key /\ q.force = r.force /\ q.alone = r.alone

\* A request that begins: the others wait.
Asked(c, op) ==
  /\ request' \in [Clients -> RequestType] /\ c \notin Busy /\ Busy' = Busy \cup {c}
  /\ OnItsWay(request'[c]) /\ request'[c].op = op /\ request'[c].left = Path[op]
  /\ request'[c].alone => Busy = {}
  /\ \A d \in Clients \ {c} : Waits(d) /\ (d \in Busy => ~request'[d].alone)
  /\ asks' = asks + 1 /\ asks < MaxAsks

\* A request of one step, or a worker in the way of those in progress.
InTheWay ==
  /\ request' \in [Clients -> RequestType] /\ Busy' = Busy
  /\ \A d \in Clients : Waits(d) /\ (d \in Busy => ~request'[d].alone)

\* The projects, their pages and the sites.
DeskData ==
  /\ row \in [Slots -> RowType] /\ page \in [Slots -> PageType]
  /\ sites \subseteq SiteRows
  /\ \A s \in Slots : {row[s].site, page[s].site} \subseteq sites \cup {NoSite}
  /\ messages \cup working \cup revoked \subseteq Slots
  /\ asks \in 0..MaxAsks

-----------------------------------------------------------------------------
(* The desk: requests.                                                     *)

\* What is left begins with a step, and the rest comes after it.
Goes(left, step, rest) ==
  left \in Seq(HandlerSteps) /\ left # <<>> /\ Head(left) = step /\ Tail(left) = rest

LEMMA NewFirst ==
  ASSUME NEW s \in Seq(HandlerSteps)
  PROVE  Goes(<<"newsite">> \o s, "newsite", s)
<1> DEFINE n == <<"newsite">> \o s
<1>1. n \in Seq(HandlerSteps) /\ n # <<>> /\ Head(n) = "newsite" /\ Tail(n) = s
  BY DEF HandlerSteps
<1> QED BY <1>1 DEF Goes

\* Every step of a handler, and what is left after it.
LEMMA Lefts ==
  /\ Goes(Naming, "name", <<>>)
  /\ Goes(Queueing, "queue", Naming)
  /\ Goes(Starting, "worker", Queueing)
  /\ Goes(InsertCreate, "insert", Starting)
  /\ Goes(CheckCreate, "check", InsertCreate)
  /\ Goes(ResolveCreate, "resolve", CheckCreate)
  /\ Goes(InsertLaunch, "insert", Queueing)
  /\ Goes(WorkerLaunch, "worker", InsertLaunch)
  /\ Goes(CheckLaunch, "check", WorkerLaunch)
  /\ Goes(ResolveLaunch, "resolve", CheckLaunch)
  /\ Goes(InsertClone, "insert", <<>>)
  /\ Goes(CheckClone, "check", InsertClone)
  /\ Goes(ResolveClone, "resolve", CheckClone)
  /\ Goes(Editing, "edit", <<>>)
  /\ Goes(Removing, "remove", <<>>)
  /\ Goes(TasksOn, "tasks", Removing)
  /\ Goes(ArticlesOn, "articles", TasksOn)
  /\ Goes(NewCreate, "newsite", CheckCreate)
  /\ Goes(NewLaunch, "newsite", CheckLaunch)
  /\ Goes(NewClone, "newsite", CheckClone)
<1>1. Goes(Naming, "name", <<>>)
  BY DEF Goes, HandlerSteps, Naming
<1>2. Goes(Queueing, "queue", Naming)
  BY DEF Goes, HandlerSteps, Queueing, Naming
<1>3. Goes(Starting, "worker", Queueing)
  BY DEF Goes, HandlerSteps, Starting, Queueing
<1>4. Goes(InsertCreate, "insert", Starting)
  BY DEF Goes, HandlerSteps, InsertCreate, Starting
<1>5. Goes(CheckCreate, "check", InsertCreate)
  BY DEF Goes, HandlerSteps, CheckCreate, InsertCreate
<1>6. Goes(ResolveCreate, "resolve", CheckCreate)
  BY DEF Goes, HandlerSteps, ResolveCreate, CheckCreate
<1>7. Goes(InsertLaunch, "insert", Queueing)
  BY DEF Goes, HandlerSteps, InsertLaunch, Queueing
<1>8. Goes(WorkerLaunch, "worker", InsertLaunch)
  BY DEF Goes, HandlerSteps, WorkerLaunch, InsertLaunch
<1>9. Goes(CheckLaunch, "check", WorkerLaunch)
  BY DEF Goes, HandlerSteps, CheckLaunch, WorkerLaunch
<1>10. Goes(ResolveLaunch, "resolve", CheckLaunch)
  BY DEF Goes, HandlerSteps, ResolveLaunch, CheckLaunch
<1>11. Goes(InsertClone, "insert", <<>>)
  BY DEF Goes, HandlerSteps, InsertClone
<1>12. Goes(CheckClone, "check", InsertClone)
  BY DEF Goes, HandlerSteps, CheckClone, InsertClone
<1>13. Goes(ResolveClone, "resolve", CheckClone)
  BY DEF Goes, HandlerSteps, ResolveClone, CheckClone
<1>14. Goes(Editing, "edit", <<>>)
  BY DEF Goes, HandlerSteps, Editing
<1>15. Goes(Removing, "remove", <<>>)
  BY DEF Goes, HandlerSteps, Removing
<1>16. Goes(TasksOn, "tasks", Removing)
  BY DEF Goes, HandlerSteps, TasksOn, Removing
<1>17. Goes(ArticlesOn, "articles", TasksOn)
  BY DEF Goes, HandlerSteps, ArticlesOn, TasksOn
<1>18. Goes(NewCreate, "newsite", CheckCreate)
  BY NewFirst, <1>5 DEF Goes, NewCreate
<1>19. Goes(NewLaunch, "newsite", CheckLaunch)
  BY NewFirst, <1>9 DEF Goes, NewLaunch
<1>20. Goes(NewClone, "newsite", CheckClone)
  BY NewFirst, <1>12 DEF Goes, NewClone
<1> QED BY <1>1, <1>2, <1>3, <1>4, <1>5, <1>6, <1>7, <1>8, <1>9, <1>10, <1>11, <1>12, <1>13,
            <1>14, <1>15, <1>16, <1>17, <1>18, <1>19, <1>20

\* The step after this one, and when there is none.
LEMMA LeftOver ==
  ASSUME NEW r, OnItsWay(r)
  PROVE  /\ r.left # <<>>
         /\ Tail(r.left) # <<>> \/ Head(r.left) \in {"name", "edit", "remove"}
              \/ (Head(r.left) = "insert" /\ r.op \in {"copyto", "clone"})
BY Lefts, ZenonT(30) DEF Goes, OnItsWay

\* What is asked for, and with which project, at each step.
LEMMA WhoIsThere ==
  ASSUME NEW r, OnItsWay(r)
  PROVE  /\ Head(r.left) \in {"resolve", "newsite", "check"} =>
              r.op \in {"create", "launch", "copyto", "clone"}
         /\ Head(r.left) = "insert" => r.op \in {"create", "launch", "copyto", "clone"}
         /\ Head(r.left) \in {"resolve", "newsite", "check", "insert"} =>
              (r.op # "launch" => r.slot = 0) /\ (r.op = "launch" => r.slot \in Slots)
         /\ Head(r.left) = "worker" => r.op \in {"create", "start", "launch"} /\ r.slot \in Slots
         /\ Head(r.left) \in {"queue", "name"} =>
              r.op \in {"create", "start", "launch"} /\ r.slot \in Slots
         /\ Head(r.left) = "edit" => r.op = "edit" /\ r.slot \in Slots
         /\ Head(r.left) \in {"articles", "tasks"} => r.op = "delete"
         /\ Head(r.left) = "remove" => r.op \in {"delete", "site"}
         /\ r.op \in {"delete", "edit"} => r.slot \in Slots
BY Lefts DEF Goes, OnItsWay

\* A request one step on.
LEMMA OneOn ==
  ASSUME NEW r, NEW q, OnItsWay(r), q.op = r.op, q.slot = r.slot,
         q.left = Tail(r.left), q.left # <<>>, Head(r.left) # "insert" \/ r.op # "create"
  PROVE  OnItsWay(q)
BY Lefts, ZenonT(30) DEF Goes, OnItsWay

LEMMA OneOnInserted ==
  ASSUME NEW r, NEW q, OnItsWay(r), q.op = r.op, q.slot \in Slots, r.op = "create",
         Head(r.left) = "insert", q.left = Tail(r.left)
  PROVE  OnItsWay(q) /\ q.left # <<>> /\ Head(q.left) = "worker"
BY Lefts DEF Goes, OnItsWay

LEMMA OneOnNew ==
  ASSUME NEW r, NEW q, OnItsWay(r), q.op = r.op, q.slot = r.slot, Head(r.left) = "resolve",
         q.left = <<"newsite">> \o Tail(r.left)
  PROVE  OnItsWay(q) /\ q.left # <<>> /\ Head(q.left) = "newsite"
BY Lefts, ZenonT(30) DEF Goes, OnItsWay, NewCreate, NewLaunch, NewClone

\* What comes after each step.
LEMMA WhatFollows ==
  ASSUME NEW r, OnItsWay(r), Tail(r.left) # <<>>
  PROVE  /\ Head(r.left) \in {"resolve", "newsite"} => Head(Tail(r.left)) = "check"
         /\ Head(r.left) = "check" /\ r.op # "launch" => Head(Tail(r.left)) = "insert"
         /\ Head(r.left) = "check" /\ r.op = "launch" => Head(Tail(r.left)) = "worker"
         /\ Head(r.left) = "worker" /\ r.op # "launch" => Head(Tail(r.left)) = "queue"
         /\ Head(r.left) = "worker" /\ r.op = "launch" => Head(Tail(r.left)) = "insert"
         /\ Head(r.left) = "insert" /\ r.op = "launch" => Head(Tail(r.left)) = "queue"
         /\ Head(r.left) = "insert" /\ r.op = "create" => Head(Tail(r.left)) = "worker"
         /\ Head(r.left) = "queue" => Head(Tail(r.left)) = "name"
         /\ Head(r.left) = "articles" => Head(Tail(r.left)) = "tasks"
         /\ Head(r.left) = "tasks" => Head(Tail(r.left)) = "remove"
BY Lefts, ZenonT(30) DEF Goes, OnItsWay

LEMMA PathLefts ==
  /\ Path["create"] = ResolveCreate /\ Path["launch"] = ResolveLaunch
  /\ Path["copyto"] = ResolveClone /\ Path["clone"] = CheckClone /\ Path["start"] = Starting
  /\ Path["edit"] = Editing /\ Path["delete"] = ArticlesOn /\ Path["site"] = Removing
BY DEF Path, ResolveCreate, ResolveLaunch, ResolveClone, CheckClone, Starting, Editing,
       ArticlesOn, Removing

LEMMA IdleTyped ==
  Idle \in RequestType /\ Idle.left = <<>> /\ Idle.slot = 0 /\ Idle.alone /\ ~Idle.force
BY DEF Idle, RequestType

\* What is asked for goes its way from the start.
LEMMA FromTheStart ==
  ASSUME NEW op \in Handlers, NEW r \in RequestType, r.op = op, r.left = Path[op],
         op \in {"launch", "start", "edit", "delete"} => r.slot \in Slots,
         op \in {"create", "copyto", "clone", "site"} => r.slot = 0
  PROVE  OnItsWay(r)
BY PathLefts DEF OnItsWay, Handlers

\* A step of one request leaves the others where they are.
LEMMA OwnStep ==
  ASSUME request \in [Clients -> RequestType], NEW c \in Clients, NEW q \in RequestType,
         request' = [request EXCEPT ![c] = q]
  PROVE  /\ request' \in [Clients -> RequestType] /\ request'[c] = q
         /\ \A d \in Clients \ {c} : request'[d] = request[d] /\ (d \in Busy' <=> d \in Busy)
         /\ c \in Busy' <=> q.left # <<>>
         /\ \A d \in Clients \ {c} : Waits(d)
BY DEF Busy, Waits

LEMMA NoStep ==
  ASSUME request \in [Clients -> RequestType], UNCHANGED request
  PROVE  request' \in [Clients -> RequestType] /\ Busy' = Busy /\ \A d \in Clients : Waits(d)
BY DEF Busy, Waits

\* A request of one step, or a worker in the way, only marks those in progress.
LEMMA Overlapping ==
  ASSUME request \in [Clients -> RequestType], request' = Overlapped
  PROVE  /\ request' \in [Clients -> RequestType] /\ Busy' = Busy
         /\ \A d \in Clients : Waits(d) /\ (d \in Busy => ~request'[d].alone)
<1>1. \A d \in Clients : [request[d] EXCEPT !.alone = FALSE] \in RequestType
  BY DEF RequestType
<1>2. \A d \in Clients : d \in Busy => request'[d] = [request[d] EXCEPT !.alone = FALSE]
  BY DEF Overlapped
<1>3. \A d \in Clients : d \notin Busy => request'[d] = request[d]
  BY DEF Overlapped
<1>4. request' \in [Clients -> RequestType]
  BY <1>1 DEF Overlapped
<1>5. \A d \in Clients : Waits(d)
  BY <1>2, <1>3 DEF Waits
<1>6. \A d \in Clients : request'[d].left = request[d].left
  BY <1>2, <1>3 DEF RequestType
<1>7. \A d \in Busy : ~request'[d].alone
  BY <1>2 DEF RequestType, Busy
<1> QED BY <1>4, <1>5, <1>6, <1>7 DEF Busy

\* A request begins, and those in progress are marked.
LEMMA Beginning ==
  ASSUME request \in [Clients -> RequestType], NEW c \in Clients, NEW op \in Handlers,
         NEW r \in RequestType, Begin(c, op, r)
  PROVE  /\ request' \in [Clients -> RequestType] /\ c \notin Busy /\ Busy' = Busy \cup {c}
         /\ request'[c] = [r EXCEPT !.op = op, !.left = Path[op], !.alone = @ /\ Busy = {}]
         /\ request'[c] \in RequestType
         /\ \A d \in Clients \ {c} : Waits(d) /\ (d \in Busy => ~request'[d].alone)
<1> DEFINE q == [r EXCEPT !.op = op, !.left = Path[op], !.alone = @ /\ Busy = {}]
<1>1. Path[op] \in Seq(HandlerSteps) /\ Path[op] # <<>>
  BY PathLefts, Lefts, ZenonT(30) DEF Goes, Handlers
<1>2. q \in RequestType
  BY <1>1 DEF RequestType
<1>3. q.left = Path[op]
  BY DEF RequestType
<1> HIDE DEF q
<1>4. Overlapped \in [Clients -> RequestType]
  <2>1. \A d \in Clients : [request[d] EXCEPT !.alone = FALSE] \in RequestType
    BY DEF RequestType
  <2> QED BY <2>1 DEF Overlapped
<1>5. request' = [Overlapped EXCEPT ![c] = q] /\ c \notin Busy
  BY DEF Begin, q
<1>6. request' \in [Clients -> RequestType] /\ request'[c] = q
      /\ \A d \in Clients \ {c} : request'[d] = Overlapped[d]
  BY <1>2, <1>4, <1>5
<1>7. \A d \in Clients \ {c} : d \in Busy => request'[d] = [request[d] EXCEPT !.alone = FALSE]
  BY <1>6 DEF Overlapped
<1>8. \A d \in Clients \ {c} : d \notin Busy => request'[d] = request[d]
  BY <1>6 DEF Overlapped
<1>9. \A d \in Clients \ {c} : Waits(d)
  BY <1>7, <1>8 DEF Waits
<1>10. \A d \in Clients \ {c} : request'[d].left = request[d].left
  BY <1>7, <1>8 DEF RequestType
<1>11. \A d \in Clients \ {c} : d \in Busy => ~request'[d].alone
  BY <1>7, ZenonT(30) DEF RequestType
<1>12. Busy' = Busy \cup {c}
  BY <1>1, <1>3, <1>5, <1>6, <1>10 DEF Busy
<1> QED BY <1>2, <1>5, <1>6, <1>9, <1>11, <1>12 DEF q

\* What waits is where it was.
LEMMA Waiting ==
  ASSUME request \in [Clients -> RequestType], NEW d \in Clients, Waits(d)
  PROVE  /\ request'[d].op = request[d].op /\ request'[d].left = request[d].left
         /\ request'[d].slot = request[d].slot
         /\ d \in Busy' <=> d \in Busy
         /\ OnItsWay(request[d]) => OnItsWay(request'[d])
         /\ Launched(request'[d]) <=> Launched(request[d])
         /\ request'[d].alone => request'[d] = request[d]
<1>1. /\ request'[d].op = request[d].op /\ request'[d].left = request[d].left
      /\ request'[d].slot = request[d].slot
  BY DEF Waits, RequestType
<1>2. d \in Busy' <=> d \in Busy
  BY <1>1 DEF Busy
<1>3. OnItsWay(request[d]) => OnItsWay(request'[d])
  BY <1>1 DEF OnItsWay
<1>4. Launched(request'[d]) <=> Launched(request[d])
  BY <1>1 DEF Launched
<1>5. request'[d].alone => request'[d] = request[d]
  BY DEF Waits, RequestType
<1> QED BY <1>1, <1>2, <1>3, <1>4, <1>5

\* The forms a request takes.
LEMMA AdvancedForm ==
  ASSUME request \in [Clients -> RequestType], NEW c \in Clients,
         request[c].left # <<>>, NEW q, q = [request[c] EXCEPT !.left = Tail(@)]
  PROVE  /\ Advanced(c) = [request EXCEPT ![c] = q]
         /\ q \in RequestType
         /\ q.left = Tail(request[c].left) /\ q.op = request[c].op /\ q.slot = request[c].slot
         /\ q.site = request[c].site /\ q.key = request[c].key /\ q.purged = request[c].purged
         /\ q.locked = request[c].locked /\ q.force = request[c].force
         /\ q.alone = request[c].alone
<1>1. request[c] \in RequestType /\ Tail(request[c].left) \in Seq(HandlerSteps)
  BY DEF RequestType
<1> QED BY <1>1 DEF Advanced, RequestType

LEMMA AnsweredForm ==
  ASSUME request \in [Clients -> RequestType], NEW c \in Clients
  PROVE  Answered(c) = [request EXCEPT ![c] = Idle]
BY DEF Answered

LEMMA SitedForm ==
  ASSUME request \in [Clients -> RequestType], NEW c \in Clients, NEW site \in SiteRows,
         request[c].left # <<>>, request' = [Advanced(c) EXCEPT ![c].site = site]
  PROVE  \E q \in RequestType :
           /\ request' = [request EXCEPT ![c] = q]
           /\ q.left = Tail(request[c].left) /\ q.op = request[c].op /\ q.slot = request[c].slot
           /\ q.site = site /\ q.key = request[c].key /\ q.purged = request[c].purged
           /\ q.locked = request[c].locked /\ q.force = request[c].force
           /\ q.alone = request[c].alone
<1> DEFINE left == Tail(request[c].left)
           f == Advanced(c)
           q == [request[c] EXCEPT !.left = left, !.site = site]
<1>1. /\ request[c] \in RequestType /\ left \in Seq(HandlerSteps)
      /\ f = [request EXCEPT ![c].left = left]
  BY DEF RequestType, Advanced
<1> HIDE DEF left, f
<1>2. /\ q \in RequestType
      /\ q.left = left /\ q.op = request[c].op /\ q.slot = request[c].slot
      /\ q.site = site /\ q.key = request[c].key /\ q.purged = request[c].purged
      /\ q.locked = request[c].locked /\ q.force = request[c].force
      /\ q.alone = request[c].alone
  BY <1>1 DEF RequestType
<1>3. f \in [Clients -> RequestType] /\ f[c] = [request[c] EXCEPT !.left = left]
      /\ \A d \in Clients \ {c} : f[d] = request[d]
  BY <1>1 DEF RequestType
<1>4. [f EXCEPT ![c].site = site] = [f EXCEPT ![c] = [f[c] EXCEPT !.site = site]]
  BY <1>3
<1>5. [f[c] EXCEPT !.site = site] = q
  BY <1>1, <1>3 DEF RequestType
<1> HIDE DEF q
<1>6. [f EXCEPT ![c] = q] = [request EXCEPT ![c] = q]
  BY <1>2, <1>3
<1> QED BY <1>2, <1>4, <1>5, <1>6 DEF left, f

LEMMA SlottedForm ==
  ASSUME request \in [Clients -> RequestType], NEW c \in Clients, NEW s \in Slots,
         request[c].left # <<>>, request' = [Advanced(c) EXCEPT ![c].slot = s]
  PROVE  \E q \in RequestType :
           /\ request' = [request EXCEPT ![c] = q]
           /\ q.left = Tail(request[c].left) /\ q.op = request[c].op /\ q.slot = s
           /\ q.site = request[c].site /\ q.key = request[c].key
           /\ q.force = request[c].force /\ q.alone = request[c].alone
<1> DEFINE left == Tail(request[c].left)
           f == Advanced(c)
           q == [request[c] EXCEPT !.left = left, !.slot = s]
<1>1. /\ request[c] \in RequestType /\ left \in Seq(HandlerSteps)
      /\ f = [request EXCEPT ![c].left = left]
  BY DEF RequestType, Advanced
<1> HIDE DEF left, f
<1>2. /\ q \in RequestType
      /\ q.left = left /\ q.op = request[c].op /\ q.slot = s
      /\ q.site = request[c].site /\ q.key = request[c].key
      /\ q.force = request[c].force /\ q.alone = request[c].alone
  BY <1>1 DEF RequestType
<1>3. f \in [Clients -> RequestType] /\ f[c] = [request[c] EXCEPT !.left = left]
      /\ \A d \in Clients \ {c} : f[d] = request[d]
  BY <1>1 DEF RequestType
<1>4. [f EXCEPT ![c].slot = s] = [f EXCEPT ![c] = [f[c] EXCEPT !.slot = s]]
  BY <1>3
<1>5. [f[c] EXCEPT !.slot = s] = q
  BY <1>1, <1>3 DEF RequestType
<1> HIDE DEF q
<1>6. [f EXCEPT ![c] = q] = [request EXCEPT ![c] = q]
  BY <1>2, <1>3
<1> QED BY <1>2, <1>4, <1>5, <1>6 DEF left, f

LEMMA LockedForm ==
  ASSUME request \in [Clients -> RequestType], NEW c \in Clients, NEW locked \in SUBSET Slots,
         request[c].left # <<>>, request' = [Advanced(c) EXCEPT ![c].locked = locked]
  PROVE  \E q \in RequestType :
           /\ request' = [request EXCEPT ![c] = q]
           /\ q.left = Tail(request[c].left) /\ q.op = request[c].op /\ q.slot = request[c].slot
           /\ q.site = request[c].site /\ q.key = request[c].key
           /\ q.purged = request[c].purged /\ q.locked = locked
           /\ q.force = request[c].force /\ q.alone = request[c].alone
<1> DEFINE left == Tail(request[c].left)
           f == Advanced(c)
           q == [request[c] EXCEPT !.left = left, !.locked = locked]
<1>1. /\ request[c] \in RequestType /\ left \in Seq(HandlerSteps)
      /\ f = [request EXCEPT ![c].left = left]
  BY DEF RequestType, Advanced
<1> HIDE DEF left, f
<1>2. /\ q \in RequestType
      /\ q.left = left /\ q.op = request[c].op /\ q.slot = request[c].slot
      /\ q.site = request[c].site /\ q.key = request[c].key
      /\ q.purged = request[c].purged /\ q.locked = locked
      /\ q.force = request[c].force /\ q.alone = request[c].alone
  BY <1>1 DEF RequestType
<1>3. f \in [Clients -> RequestType] /\ f[c] = [request[c] EXCEPT !.left = left]
      /\ \A d \in Clients \ {c} : f[d] = request[d]
  BY <1>1 DEF RequestType
<1>4. [f EXCEPT ![c].locked = locked] = [f EXCEPT ![c] = [f[c] EXCEPT !.locked = locked]]
  BY <1>3
<1>5. [f[c] EXCEPT !.locked = locked] = q
  BY <1>1, <1>3 DEF RequestType
<1> HIDE DEF q
<1>6. [f EXCEPT ![c] = q] = [request EXCEPT ![c] = q]
  BY <1>2, <1>3
<1> QED BY <1>2, <1>4, <1>5, <1>6 DEF left, f

LEMMA PurgedForm ==
  ASSUME request \in [Clients -> RequestType], NEW c \in Clients, NEW locked \in SUBSET Slots,
         request[c].left # <<>>, request' = [Advanced(c) EXCEPT ![c].locked = locked, ![c].purged = TRUE]
  PROVE  \E q \in RequestType :
           /\ request' = [request EXCEPT ![c] = q]
           /\ q.left = Tail(request[c].left) /\ q.op = request[c].op /\ q.slot = request[c].slot
           /\ q.site = request[c].site /\ q.key = request[c].key
           /\ q.purged /\ q.locked = locked
           /\ q.force = request[c].force /\ q.alone = request[c].alone
<1> DEFINE left == Tail(request[c].left)
           f == Advanced(c)
           q == [request[c] EXCEPT !.left = left, !.locked = locked, !.purged = TRUE]
<1>1. /\ request[c] \in RequestType /\ left \in Seq(HandlerSteps)
      /\ f = [request EXCEPT ![c].left = left]
  BY DEF RequestType, Advanced
<1> HIDE DEF left, f
<1>2. /\ q \in RequestType
      /\ q.left = left /\ q.op = request[c].op /\ q.slot = request[c].slot
      /\ q.site = request[c].site /\ q.key = request[c].key
      /\ q.purged /\ q.locked = locked
      /\ q.force = request[c].force /\ q.alone = request[c].alone
  BY <1>1 DEF RequestType
<1>3. f \in [Clients -> RequestType] /\ f[c] = [request[c] EXCEPT !.left = left]
      /\ \A d \in Clients \ {c} : f[d] = request[d]
  BY <1>1 DEF RequestType
<1>4. [f EXCEPT ![c].locked = locked, ![c].purged = TRUE]
        = [f EXCEPT ![c] = [f[c] EXCEPT !.locked = locked, !.purged = TRUE]]
  BY <1>3
<1>5. [f[c] EXCEPT !.locked = locked, !.purged = TRUE] = q
  BY <1>1, <1>3 DEF RequestType
<1> HIDE DEF q
<1>6. [f EXCEPT ![c] = q] = [request EXCEPT ![c] = q]
  BY <1>2, <1>3
<1> QED BY <1>2, <1>4, <1>5, <1>6 DEF left, f

\* The handlers, step by step.
LEMMA BusyFacts ==
  ASSUME DeskShape, NEW c \in Busy
  PROVE  /\ c \in Clients /\ request[c] \in RequestType /\ OnItsWay(request[c])
         /\ request[c].left # <<>> /\ Tail(request[c].left) \in Seq(HandlerSteps)
         /\ sites \subseteq SiteRows /\ IsFiniteSet(sites) /\ IsFiniteSet(Founders)
<1>1. c \in Clients /\ request[c] \in RequestType /\ request[c].left # <<>>
      /\ OnItsWay(request[c])
  BY DEF DeskShape, Busy
<1>2. Tail(request[c].left) \in Seq(HandlerSteps)
  BY <1>1 DEF RequestType
<1>3. sites \subseteq SiteRows /\ IsFiniteSet(sites) /\ IsFiniteSet(Founders)
  BY DeskConstants, FS_Subset DEF DeskShape, DeskTypeOK, Founders
<1> QED BY <1>1, <1>2, <1>3

\* A site is found, or begun when there is none.
LEMMA ResolveStep ==
  ASSUME DeskShape, NEW c \in Clients, Resolve(c)
  PROVE  \E q \in RequestType :
           /\ request' = [request EXCEPT ![c] = q] /\ Follows(request[c], q)
           /\ q.slot = request[c].slot /\ request[c].op # "delete"
           /\ \/ Head(q.left) = "check"
              \/ Head(q.left) = "newsite" /\ sites = {}
<1> DEFINE r == request[c]
<1>1. c \in Busy /\ Head(r.left) = "resolve"
  BY DEF Resolve, At
<1>2. r \in RequestType /\ OnItsWay(r) /\ r.left # <<>> /\ Tail(r.left) \in Seq(HandlerSteps)
      /\ sites \subseteq SiteRows /\ request \in [Clients -> RequestType]
  BY <1>1, BusyFacts DEF DeskShape
<1>3. r.op \in {"create", "launch", "copyto", "clone"}
  BY <1>1, <1>2, WhoIsThere
<1>4. CASE \E site \in sites : request' = [Advanced(c) EXCEPT ![c].site = site]
  <2>1. PICK site \in SiteRows : request' = [Advanced(c) EXCEPT ![c].site = site]
    BY <1>2, <1>4
  <2>3. PICK q \in RequestType :
          /\ request' = [request EXCEPT ![c] = q]
          /\ q.left = Tail(r.left) /\ q.op = r.op /\ q.slot = r.slot
          /\ q.site = site /\ q.key = r.key /\ q.purged = r.purged
          /\ q.locked = r.locked /\ q.force = r.force
          /\ q.alone = r.alone
    BY <1>2, <2>1, SitedForm
  <2>4. q.left # <<>>
    BY <1>1, <1>2, <2>3, LeftOver
  <2>5. OnItsWay(q)
    BY <1>1, <1>2, <2>3, <2>4, OneOn
  <2>6. Head(q.left) = "check"
    BY <1>1, <1>2, <2>3, <2>4, WhatFollows
  <2> QED BY <1>3, <2>3, <2>4, <2>5, <2>6 DEF Follows
<1>5. CASE sites = {} /\ request' = [request EXCEPT ![c].left = <<"newsite">> \o Tail(@)]
  <2> DEFINE q == [r EXCEPT !.left = <<"newsite">> \o Tail(@)]
  <2>1. <<"newsite">> \o Tail(r.left) \in Seq(HandlerSteps)
    BY <1>2, NewFirst DEF Goes
  <2>2. q \in RequestType /\ q.left = <<"newsite">> \o Tail(r.left)
        /\ q.op = r.op /\ q.slot = r.slot /\ q.key = r.key
        /\ q.force = r.force /\ q.alone = r.alone
    BY <1>2, <2>1 DEF RequestType
  <2>3. request' = [request EXCEPT ![c] = q]
    BY <1>5
  <2> HIDE DEF q
  <2>4. OnItsWay(q) /\ q.left # <<>> /\ Head(q.left) = "newsite"
    BY <1>1, <1>2, <2>2, OneOnNew
  <2> QED BY <1>3, <1>5, <2>2, <2>3, <2>4 DEF Follows
<1> QED BY <1>4, <1>5 DEF Resolve

\* There is a row left for the new site.
LEMMA NewSiteStep ==
  ASSUME DeskShape, NEW c \in Clients, NewSite(c)
  PROVE  \E q \in RequestType, site \in SiteRows \ sites :
           /\ request' = [request EXCEPT ![c] = q] /\ Follows(request[c], q)
           /\ q.slot = request[c].slot /\ request[c].op # "delete"
           /\ Head(q.left) = "check" /\ sites' = sites \cup {site}
<1> DEFINE r == request[c]
           site == CHOOSE x \in SiteRows : x \notin sites
<1>1. c \in Busy /\ Head(r.left) = "newsite"
  BY DEF NewSite, At
<1>2. r \in RequestType /\ OnItsWay(r) /\ r.left # <<>> /\ Tail(r.left) \in Seq(HandlerSteps)
      /\ sites \subseteq SiteRows /\ IsFiniteSet(sites) /\ IsFiniteSet(Founders)
      /\ request \in [Clients -> RequestType]
  BY <1>1, BusyFacts DEF DeskShape
<1>3. r.op \in {"create", "launch", "copyto", "clone"}
  BY <1>1, <1>2, WhoIsThere
<1>4. Cardinality(Founders) # 0
  BY <1>1, <1>2, FS_EmptySet DEF Founders, At
<1>5. sites # SiteRows
  BY <1>2, <1>4, DeskConstants, FS_CardinalityType DEF DeskShape
<1>6. site \in SiteRows \ sites
  BY <1>2, <1>5
<1>7. sites' = sites \cup {site} /\ request' = [Advanced(c) EXCEPT ![c].site = site]
  BY DEF NewSite
<1> HIDE DEF site
<1>9. PICK q \in RequestType :
        /\ request' = [request EXCEPT ![c] = q]
        /\ q.left = Tail(r.left) /\ q.op = r.op /\ q.slot = r.slot
        /\ q.site = site /\ q.key = r.key /\ q.purged = r.purged
        /\ q.locked = r.locked /\ q.force = r.force
        /\ q.alone = r.alone
  BY <1>2, <1>6, <1>7, SitedForm
<1>10. q.left # <<>>
  BY <1>1, <1>2, <1>9, LeftOver
<1>11. OnItsWay(q)
  BY <1>1, <1>2, <1>9, <1>10, OneOn
<1>12. Head(q.left) = "check"
  BY <1>1, <1>2, <1>9, <1>10, WhatFollows
<1> QED BY <1>3, <1>6, <1>7, <1>9, <1>10, <1>11, <1>12 DEF Follows

\* A step that changes nothing else of the request.
LEMMA PlainStep ==
  ASSUME DeskShape, NEW c \in Busy, request' = Advanced(c),
         Head(request[c].left) \in {"check", "worker", "queue", "articles", "tasks"}
           \/ (Head(request[c].left) = "insert" /\ request[c].op = "launch")
  PROVE  \E q \in RequestType :
           /\ request' = [request EXCEPT ![c] = q] /\ Follows(request[c], q)
           /\ q.slot = request[c].slot /\ q.site = request[c].site
           /\ q.purged = request[c].purged /\ q.locked = request[c].locked
           /\ Head(q.left) = Head(Tail(request[c].left))
<1> DEFINE r == request[c]
           q == [request[c] EXCEPT !.left = Tail(@)]
<1>1. c \in Clients /\ r \in RequestType /\ OnItsWay(r) /\ r.left # <<>>
      /\ request \in [Clients -> RequestType]
  BY BusyFacts DEF DeskShape
<1>2. q = [request[c] EXCEPT !.left = Tail(@)]
  OBVIOUS
<1> HIDE DEF q
<1>3. /\ Advanced(c) = [request EXCEPT ![c] = q] /\ q \in RequestType
      /\ q.left = Tail(r.left) /\ q.op = r.op /\ q.slot = r.slot
      /\ q.site = r.site /\ q.key = r.key /\ q.purged = r.purged
      /\ q.locked = r.locked /\ q.force = r.force /\ q.alone = r.alone
  BY <1>1, <1>2, AdvancedForm
<1>4. q.left # <<>>
  BY <1>1, <1>3, LeftOver
<1>5. OnItsWay(q)
  BY <1>1, <1>3, <1>4, OneOn
<1> QED BY <1>3, <1>4, <1>5 DEF Follows

\* No twin was found.
LEMMA CheckStep ==
  ASSUME DeskShape, NEW c \in Clients, Check(c)
  PROVE  \/ request' = [request EXCEPT ![c] = Idle]
         \/ \E q \in RequestType :
              /\ request' = [request EXCEPT ![c] = q] /\ Follows(request[c], q)
              /\ q.slot = request[c].slot /\ q.site = request[c].site
              /\ Head(q.left) \in {"insert", "worker"}
              /\ request[c].op \in {"create", "launch", "copyto", "clone"}
              /\ \A s \in Slots \ {q.slot} : ~Same(s, q.site, q.key)
<1> DEFINE r == request[c]
<1>1. c \in Busy /\ Head(r.left) = "check"
  BY DEF Check, At
<1>2. OnItsWay(r) /\ request \in [Clients -> RequestType]
  BY <1>1, BusyFacts DEF DeskShape
<1>3. CASE \E s \in Slots \ {r.slot} : Same(s, r.site, r.key)
  BY <1>2, <1>3, AnsweredForm DEF Check
<1>4. CASE ~\E s \in Slots \ {r.slot} : Same(s, r.site, r.key)
  <2>1. request' = Advanced(c)
    BY <1>4 DEF Check
  <2>2. PICK q \in RequestType :
          /\ request' = [request EXCEPT ![c] = q] /\ Follows(request[c], q)
          /\ q.slot = request[c].slot /\ q.site = request[c].site
          /\ q.purged = request[c].purged /\ q.locked = request[c].locked
          /\ Head(q.left) = Head(Tail(request[c].left))
    BY <1>1, <2>1, PlainStep
  <2>3. r.op \in {"create", "launch", "copyto", "clone"}
    BY <1>1, <1>2, WhoIsThere
  <2>4. Tail(r.left) # <<>>
    BY <1>1, <1>2, LeftOver
  <2>5. Head(q.left) \in {"insert", "worker"}
    BY <1>1, <1>2, <2>2, <2>4, WhatFollows
  <2>6. \A s \in Slots \ {q.slot} : ~Same(s, q.site, q.key)
    BY <1>4, <2>2 DEF Follows
  <2> QED BY <2>2, <2>3, <2>5, <2>6
<1> QED BY <1>3, <1>4

LEMMA WorkerStep ==
  ASSUME DeskShape, NEW c \in Clients, Worker(c)
  PROVE  \/ request' = [request EXCEPT ![c] = Idle]
         \/ \E q \in RequestType :
              /\ request' = [request EXCEPT ![c] = q] /\ Follows(request[c], q)
              /\ q.slot = request[c].slot /\ q.site = request[c].site
              /\ request[c].op \in {"create", "launch", "start"}
              /\ \/ Head(q.left) = "queue" /\ request[c].op # "launch" /\ q.slot \in Slots
                 \/ Head(q.left) = "insert" /\ request[c].op = "launch"
<1> DEFINE r == request[c]
<1>1. c \in Busy /\ Head(r.left) = "worker"
  BY DEF Worker, At
<1>2. OnItsWay(r) /\ request \in [Clients -> RequestType]
  BY <1>1, BusyFacts DEF DeskShape
<1>3. CASE request' = Answered(c)
  BY <1>2, <1>3, AnsweredForm
<1>4. CASE request' = Advanced(c)
  <2>2. PICK q \in RequestType :
          /\ request' = [request EXCEPT ![c] = q] /\ Follows(request[c], q)
          /\ q.slot = request[c].slot /\ q.site = request[c].site
          /\ q.purged = request[c].purged /\ q.locked = request[c].locked
          /\ Head(q.left) = Head(Tail(request[c].left))
    BY <1>1, <1>4, PlainStep
  <2>3. r.op \in {"create", "launch", "start"} /\ r.slot \in Slots
    BY <1>1, <1>2, WhoIsThere
  <2>4. Tail(r.left) # <<>>
    BY <1>1, <1>2, LeftOver
  <2>5. \/ Head(q.left) = "queue" /\ r.op # "launch"
        \/ Head(q.left) = "insert" /\ r.op = "launch"
    BY <1>1, <1>2, <2>2, <2>4, WhatFollows
  <2> QED BY <2>2, <2>3, <2>5
<1> QED BY <1>3, <1>4 DEF Worker

LEMMA QueueStep ==
  ASSUME DeskShape, NEW c \in Clients, Queue(c)
  PROVE  /\ request[c].slot \in Slots /\ Launched(request[c])
         /\ \/ request' = [request EXCEPT ![c] = Idle]
            \/ \E q \in RequestType :
                 /\ request' = [request EXCEPT ![c] = q] /\ Follows(request[c], q)
                 /\ q.slot = request[c].slot /\ Head(q.left) = "name"
                 /\ request[c].op \in {"create", "launch", "start"}
<1> DEFINE r == request[c]
<1>1. c \in Busy /\ Head(r.left) = "queue"
  BY DEF Queue, At
<1>2. OnItsWay(r) /\ request \in [Clients -> RequestType]
  BY <1>1, BusyFacts DEF DeskShape
<1>3. r.op \in {"create", "launch", "start"} /\ r.slot \in Slots
  BY <1>1, <1>2, WhoIsThere
<1>4. Launched(r)
  BY <1>1, <1>3, DeskConstants DEF Launched
<1>5. CASE request' = Answered(c)
  BY <1>2, <1>3, <1>4, <1>5, AnsweredForm
<1>6. CASE request' = Advanced(c)
  <2>2. PICK q \in RequestType :
          /\ request' = [request EXCEPT ![c] = q] /\ Follows(request[c], q)
          /\ q.slot = request[c].slot /\ q.site = request[c].site
          /\ q.purged = request[c].purged /\ q.locked = request[c].locked
          /\ Head(q.left) = Head(Tail(request[c].left))
    BY <1>1, <1>6, PlainStep
  <2>4. Tail(r.left) # <<>>
    BY <1>1, <1>2, LeftOver
  <2>5. Head(q.left) = "name"
    BY <1>1, <1>2, <2>2, <2>4, WhatFollows
  <2> QED BY <1>3, <1>4, <2>2, <2>5
<1> QED BY <1>5, <1>6 DEF Queue

\* The handlers that end with one more step.
LEMMA NameStep ==
  ASSUME DeskShape, NEW c \in Clients, Name(c)
  PROVE  request' = [request EXCEPT ![c] = Idle] /\ request[c].slot \in Slots /\ c \in Busy
         /\ request[c].op # "delete"
<1>1. c \in Busy /\ Head(request[c].left) = "name" /\ request' = Answered(c)
  BY DEF Name, At
<1>2. OnItsWay(request[c]) /\ request \in [Clients -> RequestType]
  BY <1>1, BusyFacts DEF DeskShape
<1> QED BY <1>1, <1>2, AnsweredForm, WhoIsThere

LEMMA EditStep ==
  ASSUME DeskShape, NEW c \in Clients, Edit(c)
  PROVE  request' = [request EXCEPT ![c] = Idle] /\ request[c].slot \in Slots /\ c \in Busy
         /\ request[c].op = "edit" /\ request[c].key \in Keys \cup {0}
<1>1. c \in Busy /\ Head(request[c].left) = "edit" /\ request' = Answered(c)
  BY DEF Edit, At
<1>2. OnItsWay(request[c]) /\ request \in [Clients -> RequestType]
  BY <1>1, BusyFacts DEF DeskShape
<1>3. request[c].key \in Keys \cup {0}
  BY <1>2 DEF RequestType
<1> QED BY <1>1, <1>2, <1>3, AnsweredForm, WhoIsThere

LEMMA RemoveStep ==
  ASSUME DeskShape, NEW c \in Clients, RemoveProject(c) \/ RemoveSite(c)
  PROVE  /\ request' = [request EXCEPT ![c] = Idle] /\ c \in Busy
         /\ request[c].locked \in SUBSET Slots /\ Head(request[c].left) = "remove"
         /\ request[c].op = "delete" => request[c].slot \in Slots
<1>1. c \in Busy /\ Head(request[c].left) = "remove" /\ request' = Answered(c)
  BY DEF RemoveProject, RemoveSite, At
<1>2. OnItsWay(request[c]) /\ request \in [Clients -> RequestType]
  BY <1>1, BusyFacts DEF DeskShape
<1>3. request[c].locked \in SUBSET Slots
  BY <1>2 DEF RequestType
<1> QED BY <1>1, <1>2, <1>3, AnsweredForm, WhoIsThere

\* A deletion finds the article it has to purge.
LEMMA ArticlesStep ==
  ASSUME DeskShape, NEW c \in Clients, PurgeArticles(c)
  PROVE  \E q \in RequestType :
           /\ request' = [request EXCEPT ![c] = q] /\ Follows(request[c], q)
           /\ q.slot = request[c].slot /\ Head(q.left) = "tasks" /\ request[c].op = "delete"
           /\ q.locked = IF Mine(q.slot) /\ page[q.slot].article THEN {q.slot} ELSE {}
<1> DEFINE r == request[c]
           locked == IF Mine(r.slot) /\ page[r.slot].article THEN {r.slot} ELSE {}
<1>1. c \in Busy /\ Head(r.left) = "articles"
      /\ request' = [Advanced(c) EXCEPT ![c].locked = locked]
  BY DEF PurgeArticles, At
<1>2. OnItsWay(r) /\ request \in [Clients -> RequestType] /\ r.left # <<>>
  BY <1>1, BusyFacts DEF DeskShape
<1>3. r.op = "delete" /\ r.slot \in Slots
  BY <1>1, <1>2, WhoIsThere
<1>4. locked \in SUBSET Slots
  BY <1>3
<1> HIDE DEF locked
<1>5. PICK q \in RequestType :
        /\ request' = [request EXCEPT ![c] = q]
        /\ q.left = Tail(request[c].left) /\ q.op = request[c].op /\ q.slot = request[c].slot
        /\ q.site = request[c].site /\ q.key = request[c].key
        /\ q.purged = request[c].purged /\ q.locked = locked
        /\ q.force = request[c].force /\ q.alone = request[c].alone
  BY <1>1, <1>2, <1>4, LockedForm
<1>6. q.left # <<>>
  BY <1>1, <1>2, <1>5, LeftOver
<1>7. OnItsWay(q)
  BY <1>1, <1>2, <1>5, <1>6, OneOn
<1>8. Head(q.left) = "tasks"
  BY <1>1, <1>2, <1>5, <1>6, WhatFollows
<1> QED BY <1>3, <1>5, <1>6, <1>7, <1>8 DEF Follows, locked

\* It fails, finds no task, or takes it.
LEMMA TasksStep ==
  ASSUME DeskShape, NEW c \in Clients, PurgeTasks(c)
  PROVE  LET s == request[c].slot
         IN /\ s \in Slots /\ request[c].op = "delete" /\ c \in Busy
            /\ \/ /\ request' = [request EXCEPT ![c] = Idle]
                  /\ Mine(s) /\ page[s].article /\ s \notin request[c].locked
               \/ \E q \in RequestType :
                    /\ request' = [request EXCEPT ![c] = q] /\ Follows(request[c], q)
                    /\ q.slot = s /\ Head(q.left) = "remove"
                    /\ Mine(s) => q.purged
<1> DEFINE r == request[c]
           s == request[c].slot
<1>1. c \in Busy /\ Head(r.left) = "tasks"
  BY DEF PurgeTasks, At
<1>2. OnItsWay(r) /\ request \in [Clients -> RequestType] /\ r.left # <<>>
  BY <1>1, BusyFacts DEF DeskShape
<1>3. r.op = "delete" /\ r.slot \in Slots
  BY <1>1, <1>2, WhoIsThere
<1>4. Tail(r.left) # <<>>
  BY <1>1, <1>2, LeftOver
<1>5. Head(Tail(r.left)) = "remove"
  BY <1>1, <1>2, <1>4, WhatFollows
<1>6. CASE ~Mine(s)
  <2>1. request' = Advanced(c)
    BY <1>6 DEF PurgeTasks
  <2>2. PICK q \in RequestType :
          /\ request' = [request EXCEPT ![c] = q] /\ Follows(request[c], q)
          /\ q.slot = request[c].slot /\ q.site = request[c].site
          /\ q.purged = request[c].purged /\ q.locked = request[c].locked
          /\ Head(q.left) = Head(Tail(request[c].left))
    BY <1>1, <2>1, PlainStep
  <2> QED BY <1>1, <1>3, <1>5, <1>6, <2>2
<1>7. CASE Mine(s) /\ page[s].article /\ s \notin r.locked
  BY <1>1, <1>2, <1>3, <1>7, AnsweredForm DEF PurgeTasks
<1>8. CASE Mine(s) /\ ~(page[s].article /\ s \notin r.locked)
  <2> DEFINE locked == {s}
  <2>1. /\ locked \in SUBSET Slots
        /\ request' = [Advanced(c) EXCEPT ![c].locked = locked, ![c].purged = TRUE]
    BY <1>3, <1>8 DEF PurgeTasks
  <2> HIDE DEF locked
  <2>2. PICK q \in RequestType :
          /\ request' = [request EXCEPT ![c] = q]
          /\ q.left = Tail(request[c].left) /\ q.op = request[c].op /\ q.slot = request[c].slot
          /\ q.site = request[c].site /\ q.key = request[c].key
          /\ q.purged /\ q.locked = locked
          /\ q.force = request[c].force /\ q.alone = request[c].alone
    BY <1>2, <2>1, PurgedForm
  <2>3. OnItsWay(q)
    BY <1>1, <1>2, <1>4, <2>2, OneOn
  <2> QED BY <1>1, <1>3, <1>4, <1>5, <2>2, <2>3 DEF Follows
<1> QED BY <1>6, <1>7, <1>8

LEMMA CloneEnds ==
  ASSUME NEW r, OnItsWay(r), Head(r.left) = "insert", r.op \in {"copyto", "clone"}
  PROVE  Tail(r.left) = <<>>
BY Lefts DEF Goes, OnItsWay

\* A project is inserted in a row that nothing remembers, or a draft gets its site.
LEMMA InsertStep ==
  ASSUME DeskShape, NEW c \in Clients, Insert(c)
  PROVE  LET r == request[c]
         IN /\ c \in Busy /\ Head(r.left) = "insert" /\ r.op \in {"create", "launch", "copyto", "clone"}
            /\ r.op # "launch" => r.slot = 0
            /\ r.site \in SiteRows \cup {NoSite} /\ r.key \in Keys \cup {0}
            /\ \/ /\ UNCHANGED <<row, revoked>>
                  /\ request' = [request EXCEPT ![c] = Idle]
               \/ /\ r.slot = 0 /\ r.site \in sites
                  /\ \E new \in Unused, q \in RequestType :
                       /\ row' = [row EXCEPT ![new] = [NoRow EXCEPT !.status = "pending",
                                                          !.site = r.site, !.key = r.key]]
                       /\ revoked' = revoked \ {new}
                       /\ request' = [request EXCEPT ![c] = q]
                       /\ \/ q = Idle
                          \/ Follows(r, q) /\ q.slot = new /\ q.op = "create" /\ Head(q.left) = "worker"
               \/ /\ r.op = "launch" /\ r.slot \in Slots /\ There(r.slot) /\ r.site \in sites
                  /\ row' = [row EXCEPT ![r.slot].status = "pending", ![r.slot].site = r.site]
                  /\ UNCHANGED revoked
                  /\ \E q \in RequestType :
                       /\ request' = [request EXCEPT ![c] = q] /\ Follows(r, q)
                       /\ q.slot = r.slot /\ Head(q.left) = "queue"
<1> DEFINE r == request[c]
           site == request[c].site
           s == request[c].slot
<1>1. c \in Busy /\ Head(r.left) = "insert"
  BY DEF Insert, At
<1>2. OnItsWay(r) /\ request \in [Clients -> RequestType] /\ r.left # <<>>
  BY <1>1, BusyFacts DEF DeskShape
<1>3. /\ r.op \in {"create", "launch", "copyto", "clone"}
      /\ (r.op # "launch" => r.slot = 0) /\ (r.op = "launch" => r.slot \in Slots)
  BY <1>1, <1>2, WhoIsThere
<1>4. site \in SiteRows \cup {NoSite} /\ r.key \in Keys \cup {0}
  BY <1>2 DEF RequestType
<1>5. CASE UNCHANGED <<row, revoked>> /\ request' = Answered(c)
  <2>1. request' = [request EXCEPT ![c] = Idle]
    BY <1>2, <1>5, AnsweredForm
  <2> QED BY <1>1, <1>3, <1>4, <1>5, <2>1
<1>6. CASE /\ site \in sites /\ s = 0 /\ Unused # {}
           /\ LET new == CHOOSE x \in Unused : TRUE
              IN /\ row' = [row EXCEPT ![new] = [NoRow EXCEPT !.status = "pending", !.site = site,
                                                              !.key = request[c].key]]
                 /\ revoked' = revoked \ {new}
                 /\ request' = IF Tail(request[c].left) = <<>> THEN Answered(c)
                               ELSE [Advanced(c) EXCEPT ![c].slot = new]
  <2> DEFINE new == CHOOSE x \in Unused : TRUE
  <2>1. new \in Unused /\ new \in Slots
    BY <1>6 DEF Unused
  <2>2. /\ row' = [row EXCEPT ![new] = [NoRow EXCEPT !.status = "pending", !.site = r.site,
                                                      !.key = r.key]]
        /\ revoked' = revoked \ {new}
        /\ request' = IF Tail(r.left) = <<>> THEN Answered(c)
                      ELSE [Advanced(c) EXCEPT ![c].slot = new]
    BY <1>6
  <2> HIDE DEF new
  <2>3. \E q \in RequestType :
          /\ request' = [request EXCEPT ![c] = q]
          /\ \/ q = Idle
             \/ Follows(r, q) /\ q.slot = new /\ q.op = "create" /\ Head(q.left) = "worker"
    <3>1. CASE Tail(r.left) = <<>>
      <4>1. request' = [request EXCEPT ![c] = Idle]
        BY <1>2, <2>2, <3>1, AnsweredForm
      <4> QED BY <4>1, IdleTyped
    <3>2. CASE Tail(r.left) # <<>>
      <4>1. request' = [Advanced(c) EXCEPT ![c].slot = new]
        BY <2>2, <3>2
      <4>2. PICK q \in RequestType :
              /\ request' = [request EXCEPT ![c] = q]
              /\ q.left = Tail(request[c].left) /\ q.op = request[c].op /\ q.slot = new
              /\ q.site = request[c].site /\ q.key = request[c].key
              /\ q.force = request[c].force /\ q.alone = request[c].alone
        BY <1>2, <2>1, <4>1, SlottedForm
      <4>3. r.op = "create"
        BY <1>1, <1>2, <1>3, <1>6, <3>2, DeskConstants, CloneEnds
      <4>4. OnItsWay(q) /\ q.left # <<>> /\ Head(q.left) = "worker"
        BY <1>1, <1>2, <2>1, <4>2, <4>3, OneOnInserted
      <4> QED BY <4>2, <4>3, <4>4 DEF Follows
    <3> QED BY <3>1, <3>2
  <2>4. PICK q \in RequestType :
          /\ request' = [request EXCEPT ![c] = q]
          /\ \/ q = Idle
             \/ Follows(r, q) /\ q.slot = new /\ q.op = "create" /\ Head(q.left) = "worker"
    BY <2>3
  <2>5. \E n \in Unused, p \in RequestType :
          /\ row' = [row EXCEPT ![n] = [NoRow EXCEPT !.status = "pending",
                                          !.site = r.site, !.key = r.key]]
          /\ revoked' = revoked \ {n}
          /\ request' = [request EXCEPT ![c] = p]
          /\ \/ p = Idle
             \/ Follows(r, p) /\ p.slot = n /\ p.op = "create" /\ Head(p.left) = "worker"
    BY <2>1, <2>2, <2>4, Zenon
  <2> QED BY <1>1, <1>3, <1>4, <1>6, <2>5
<1>7. CASE /\ site \in sites /\ s # 0 /\ There(s)
           /\ row' = [row EXCEPT ![s].status = "pending", ![s].site = site]
           /\ request' = Advanced(c)
           /\ UNCHANGED revoked
  <2>1. r.op = "launch" /\ s \in Slots
    BY <1>3, <1>7
  <2>2. PICK q \in RequestType :
          /\ request' = [request EXCEPT ![c] = q] /\ Follows(request[c], q)
          /\ q.slot = request[c].slot /\ q.site = request[c].site
          /\ q.purged = request[c].purged /\ q.locked = request[c].locked
          /\ Head(q.left) = Head(Tail(request[c].left))
    BY <1>1, <1>7, <2>1, PlainStep
  <2>3. Tail(r.left) # <<>>
    BY <1>1, <1>2, <2>1, LeftOver
  <2>4. Head(q.left) = "queue"
    BY <1>1, <1>2, <2>1, <2>2, <2>3, WhatFollows
  <2> QED BY <1>1, <1>3, <1>4, <1>7, <2>1, <2>2, <2>4
<1> QED BY <1>5, <1>6, <1>7 DEF Insert

\* What a request that begins means for the others.
LEMMA AskWaits ==
  ASSUME request \in [Clients -> RequestType], NEW c \in Clients, NEW op \in Handlers,
         NEW r \in RequestType, Begin(c, op, r),
         op \in {"launch", "start", "edit", "delete"} => r.slot \in Slots,
         op \in {"create", "copyto", "clone", "site"} => r.slot = 0
  PROVE  /\ Asked(c, op)
         /\ request'[c].slot = r.slot /\ request'[c].site = r.site /\ request'[c].key = r.key
         /\ request'[c].force = r.force /\ request'[c].locked = r.locked
         /\ request'[c].purged = r.purged /\ (request'[c].alone => r.alone)
<1> DEFINE q == [r EXCEPT !.op = op, !.left = Path[op], !.alone = @ /\ Busy = {}]
<1>1. /\ request' \in [Clients -> RequestType] /\ c \notin Busy /\ Busy' = Busy \cup {c}
      /\ request'[c] = q /\ request'[c] \in RequestType
      /\ \A d \in Clients \ {c} : Waits(d) /\ (d \in Busy => ~request'[d].alone)
  BY Beginning
<1>2. /\ q.op = op /\ q.left = Path[op] /\ q.slot = r.slot /\ q.site = r.site /\ q.key = r.key
      /\ q.force = r.force /\ q.locked = r.locked /\ q.purged = r.purged
      /\ q.alone = (r.alone /\ Busy = {})
  BY DEF RequestType
<1> HIDE DEF q
<1>3. OnItsWay(q)
  BY <1>1, <1>2, FromTheStart
<1>4. asks' = asks + 1 /\ asks < MaxAsks
  BY DEF Begin
<1> QED BY <1>1, <1>2, <1>3, <1>4 DEF Asked

LEMMA AskedCreate ==
  ASSUME DeskShape, NEW c \in Clients, AskCreate(c)
  PROVE  Asked(c, "create") /\ request'[c].slot = 0
<1>1. PICK k \in Keys : Begin(c, "create", [Idle EXCEPT !.key = k])
  BY DEF AskCreate
<1>2. [Idle EXCEPT !.key = k] \in RequestType /\ [Idle EXCEPT !.key = k].slot = 0
  BY IdleTyped DEF RequestType
<1> QED BY <1>1, <1>2, AskWaits DEF DeskShape, Handlers

LEMMA AskedLaunch ==
  ASSUME DeskShape, NEW c \in Clients, AskLaunch(c)
  PROVE  /\ Asked(c, "launch") /\ request'[c].slot \in Slots
         /\ row[request'[c].slot].key = request'[c].key
<1>1. PICK s \in Slots : Begin(c, "launch", [Idle EXCEPT !.slot = s, !.key = row[s].key])
  BY DEF AskLaunch
<1> DEFINE r == [Idle EXCEPT !.slot = s, !.key = row[s].key]
<1>2. row[s].key \in Keys \cup {0}
  BY DEF DeskShape, DeskTypeOK
<1>3. r \in RequestType /\ r.slot = s /\ r.key = row[s].key
  BY <1>2, IdleTyped DEF RequestType
<1> HIDE DEF r
<1>4. Begin(c, "launch", r)
  BY <1>1 DEF r
<1> QED BY <1>3, <1>4, AskWaits DEF DeskShape, Handlers

LEMMA AskedClone ==
  ASSUME DeskShape, NEW c \in Clients, AskClone(c)
  PROVE  \E op \in {"clone", "copyto"} : Asked(c, op) /\ request'[c].slot = 0
<1>1. PICK s \in Slots, k \in Keys :
        \/ Begin(c, "clone", [Idle EXCEPT !.site = row[s].site, !.key = k])
        \/ Begin(c, "copyto", [Idle EXCEPT !.key = k])
  BY DEF AskClone
<1>2. CASE Begin(c, "clone", [Idle EXCEPT !.site = row[s].site, !.key = k])
  <2> DEFINE r == [Idle EXCEPT !.site = row[s].site, !.key = k]
  <2>1. row[s].site \in SiteRows \cup {NoSite}
    BY DEF DeskShape, DeskTypeOK
  <2>2. r \in RequestType /\ r.slot = 0
    BY <2>1, IdleTyped DEF RequestType
  <2> HIDE DEF r
  <2>3. Begin(c, "clone", r)
    BY <1>2 DEF r
  <2> QED BY <2>2, <2>3, AskWaits DEF DeskShape, Handlers
<1>3. CASE Begin(c, "copyto", [Idle EXCEPT !.key = k])
  <2>1. [Idle EXCEPT !.key = k] \in RequestType /\ [Idle EXCEPT !.key = k].slot = 0
    BY IdleTyped DEF RequestType
  <2> QED BY <1>3, <2>1, AskWaits DEF DeskShape, Handlers
<1> QED BY <1>1, <1>2, <1>3

LEMMA AskedStart ==
  ASSUME DeskShape, NEW c \in Clients, AskStart(c)
  PROVE  /\ Asked(c, "start") /\ request'[c].slot \in Slots
         /\ row[request'[c].slot].status = "pending"
<1>1. PICK s \in Slots :
        row[s].status = "pending" /\ Begin(c, "start", [Idle EXCEPT !.slot = s])
  BY DEF AskStart
<1> DEFINE r == [Idle EXCEPT !.slot = s]
<1>2. r \in RequestType /\ r.slot = s
  BY IdleTyped DEF RequestType
<1>3. row[s].status = "pending" /\ Begin(c, "start", r)
  BY <1>1
<1> HIDE DEF r
<1>4. Asked(c, "start") /\ request'[c].slot = s
  BY <1>2, <1>3, AskWaits DEF DeskShape, Handlers
<1> QED BY <1>3, <1>4

LEMMA AskedEdit ==
  ASSUME DeskShape, NEW c \in Clients, AskEdit(c)
  PROVE  /\ Asked(c, "edit") /\ request'[c].slot \in Slots
         /\ row[request'[c].slot].status = "draft"
<1>1. PICK s \in Slots, k \in Keys :
        row[s].status = "draft" /\ Begin(c, "edit", [Idle EXCEPT !.slot = s, !.key = k])
  BY DEF AskEdit
<1> DEFINE r == [Idle EXCEPT !.slot = s, !.key = k]
<1>2. r \in RequestType /\ r.slot = s
  BY IdleTyped DEF RequestType
<1>3. row[s].status = "draft" /\ Begin(c, "edit", r)
  BY <1>1
<1> HIDE DEF r
<1>4. Asked(c, "edit") /\ request'[c].slot = s
  BY <1>2, <1>3, AskWaits DEF DeskShape, Handlers
<1> QED BY <1>3, <1>4

\* A deletion revokes the message of its project.
LEMMA Revoking ==
  ASSUME DeskShape, NEW ss \in SUBSET Slots, Revoke(ss)
  PROVE  messages' \subseteq messages /\ revoked' \subseteq Slots
BY DEF Revoke, DeskShape, DeskTypeOK

LEMMA AskedDelete ==
  ASSUME DeskShape, NEW c \in Clients, AskDelete(c)
  PROVE  /\ Asked(c, "delete") /\ request'[c].slot \in Slots
         /\ messages' \subseteq messages /\ revoked' \subseteq Slots
         /\ There(request'[c].slot)
         /\ ~request'[c].force => row[request'[c].slot].status \notin {"pending", "generating"}
         /\ request'[c].alone =>
              request'[c].slot \notin working /\ ~page[request'[c].slot].own
<1>1. PICK s \in Slots, force \in BOOLEAN :
        /\ There(s) /\ (force \/ row[s].status \notin {"pending", "generating"})
        /\ Begin(c, "delete", [Idle EXCEPT !.slot = s, !.force = force,
                                            !.alone = s \notin working /\ ~page[s].own])
        /\ Revoke(IF force THEN {s} ELSE {})
  BY DEF AskDelete
<1> DEFINE alone == s \notin working /\ ~page[s].own
           r == [Idle EXCEPT !.slot = s, !.force = force, !.alone = alone]
<1>0. alone \in BOOLEAN
  OBVIOUS
<1> HIDE DEF alone
<1>2. r \in RequestType /\ r.slot = s /\ r.force = force /\ r.alone = alone
  BY <1>0, IdleTyped DEF RequestType
<1> HIDE DEF r
<1>3. Begin(c, "delete", r)
  BY <1>1 DEF r, alone
<1>4. /\ Asked(c, "delete") /\ request'[c].slot = s /\ request'[c].force = force
      /\ request'[c].alone => alone
  BY <1>2, <1>3, AskWaits DEF DeskShape, Handlers
<1>5. messages' \subseteq messages /\ revoked' \subseteq Slots
  BY <1>1, Revoking
<1> QED BY <1>1, <1>4, <1>5 DEF alone

LEMMA AtOnceWay ==
  ASSUME DeskShape, AtOnce
  PROVE  InTheWay /\ asks' = asks + 1 /\ asks < MaxAsks
BY Overlapping DEF AtOnce, InTheWay, DeskShape

LEMMA AskedDeleteSite ==
  ASSUME DeskShape, NEW c \in Clients, AskDeleteSite(c)
  PROVE  /\ messages' \subseteq messages /\ revoked' \subseteq Slots
         /\ \/ Asked(c, "site") /\ request'[c].slot = 0
            \/ InTheWay /\ asks' = asks + 1 /\ asks < MaxAsks
<1>1. PICK site \in sites :
        LET projects == {s \in Slots : row[s].site = site}
            pages == {s \in Slots : page[s].site = site}
        IN \/ /\ projects \cup pages = {}
              /\ Begin(c, "site", [Idle EXCEPT !.site = site])
              /\ UNCHANGED <<messages, revoked>>
           \/ /\ Revoke(projects)
              /\ IF \E s \in pages : page[s].article
                 THEN /\ c \notin Busy /\ AtOnce
                 ELSE /\ \A d \in Busy : request[d].locked \cap pages = {}
                      /\ Begin(c, "site", [Idle EXCEPT !.site = site,
                                            !.locked = projects \cup pages, !.force = TRUE])
  BY DEF AskDeleteSite
<1> DEFINE projects == {s \in Slots : row[s].site = site}
           pages == {s \in Slots : page[s].site = site}
<1>2. site \in SiteRows
  BY DEF DeskShape, DeskTypeOK
<1>3. CASE /\ Begin(c, "site", [Idle EXCEPT !.site = site])
           /\ UNCHANGED <<messages, revoked>>
  <2>1. [Idle EXCEPT !.site = site] \in RequestType /\ [Idle EXCEPT !.site = site].slot = 0
    BY <1>2, IdleTyped DEF RequestType
  <2>2. Asked(c, "site") /\ request'[c].slot = 0
    BY <1>3, <2>1, AskWaits DEF DeskShape, Handlers
  <2> QED BY <1>3, <2>2 DEF DeskShape, DeskTypeOK
<1>4. CASE Revoke(projects) /\ AtOnce
  BY <1>4, AtOnceWay, Revoking
<1>5. CASE /\ Revoke(projects)
           /\ Begin(c, "site", [Idle EXCEPT !.site = site,
                                 !.locked = projects \cup pages, !.force = TRUE])
  <2> DEFINE r == [Idle EXCEPT !.site = site, !.locked = projects \cup pages, !.force = TRUE]
  <2>1. r \in RequestType /\ r.slot = 0
    BY <1>2, IdleTyped DEF RequestType
  <2> HIDE DEF r
  <2>2. Begin(c, "site", r)
    BY <1>5 DEF r
  <2>3. Asked(c, "site") /\ request'[c].slot = 0
    BY <2>1, <2>2, AskWaits DEF DeskShape, Handlers
  <2> QED BY <1>5, <2>3, Revoking
<1> QED BY <1>1, <1>3, <1>4, <1>5

\* A worker on a project that has ended is in the way.
LEMMA LateWay ==
  ASSUME DeskShape, NEW s \in Slots, Late(s)
  PROVE  /\ request' \in [Clients -> RequestType] /\ Busy' = Busy
         /\ \A d \in Clients : Waits(d)
         /\ row[s].status \in {"failed", "completed"} => InTheWay
         /\ row[s].status \notin {"failed", "completed"} => UNCHANGED request
BY Overlapping, NoStep DEF Late, InTheWay, DeskShape

-----------------------------------------------------------------------------
(* The desk: types.                                                        *)

LEMMA DataOfShape == DeskShape => DeskData
BY DEF DeskShape, DeskTypeOK, DeskData, RowType, PageType

LEMMA TypesOf == DeskData /\ request \in [Clients -> RequestType] => DeskTypeOK
BY DEF DeskTypeOK, DeskData, RowType, PageType, RequestType

\* Nobody begins to found a site but by resolving one.
LEMMA NoNewFounder ==
  ASSUME DeskShape, NEW c \in Clients, request' \in [Clients -> RequestType],
         \A d \in Clients \ {c} : Waits(d),
         c \in Busy' => Head(request'[c].left) # "newsite",
         sites' \subseteq sites
  PROVE  Cardinality(sites') + Cardinality(Founders') <= Cardinality(Clients)
<1>1. IsFiniteSet(sites) /\ IsFiniteSet(Founders)
  BY DeskConstants, FS_Subset DEF DeskShape, DeskTypeOK, Founders
<1>2. Founders' \subseteq Founders
  <2>1. \A d \in Clients \ {c} : d \in Founders' => d \in Founders
    BY Waiting DEF Founders, At, DeskShape
  <2>2. c \notin Founders'
    BY DEF Founders, At
  <2> QED BY <2>1, <2>2 DEF Founders
<1>3. /\ Cardinality(sites') <= Cardinality(sites) /\ IsFiniteSet(sites')
      /\ Cardinality(Founders') <= Cardinality(Founders) /\ IsFiniteSet(Founders')
  BY <1>1, <1>2, FS_Subset
<1>4. /\ Cardinality(sites) \in Nat /\ Cardinality(Founders) \in Nat
      /\ Cardinality(sites') \in Nat /\ Cardinality(Founders') \in Nat
      /\ Cardinality(Clients) \in Nat
  BY <1>1, <1>3, DeskConstants, FS_CardinalityType
<1> QED BY <1>3, <1>4 DEF DeskShape

\* The types after a step: of the requests, the data, and the founders.
LEMMA ShapeAfter ==
  ASSUME DeskShape, NEW c \in Clients, request' \in [Clients -> RequestType],
         \A d \in Clients \ {c} : Waits(d),
         c \in Busy' => OnItsWay(request'[c]), DeskData',
         Cardinality(sites') + Cardinality(Founders') <= Cardinality(Clients)
  PROVE  DeskShape'
<1>1. DeskTypeOK'
  <2>1. (DeskData /\ request \in [Clients -> RequestType])' => DeskTypeOK'
    BY TypesOf, PTL
  <2> QED BY <2>1
<1>2. \A d \in Busy' : OnItsWay(request'[d])
  <2> SUFFICES ASSUME NEW d \in Busy' PROVE OnItsWay(request'[d])
    OBVIOUS
  <2>1. d \in Clients
    BY DEF Busy
  <2>2. CASE d = c
    BY <2>2
  <2>3. CASE d # c
    BY <2>1, <2>3, Waiting DEF DeskShape
  <2> QED BY <2>2, <2>3
<1> QED BY <1>1, <1>2 DEF DeskShape

\* A step of a handler that founds no site.
LEMMA ShapeOwn ==
  ASSUME DeskShape, NEW c \in Clients, NEW q \in RequestType,
         request' = [request EXCEPT ![c] = q],
         q = Idle \/ (Follows(request[c], q) /\ Head(q.left) # "newsite"),
         sites' \subseteq sites, DeskData'
  PROVE  DeskShape'
<1>1. /\ request' \in [Clients -> RequestType] /\ request'[c] = q
      /\ c \in Busy' <=> q.left # <<>>
      /\ \A d \in Clients \ {c} : Waits(d)
  BY OwnStep DEF DeskShape
<1>2. c \in Busy' => OnItsWay(request'[c]) /\ Head(request'[c].left) # "newsite"
  BY <1>1, IdleTyped DEF Follows
<1>3. Cardinality(sites') + Cardinality(Founders') <= Cardinality(Clients)
  BY <1>1, <1>2, NoNewFounder
<1> QED BY <1>1, <1>2, <1>3, ShapeAfter

\* A request begins.
LEMMA ShapeAsked ==
  ASSUME DeskShape, NEW c \in Clients, NEW op \in Handlers, Asked(c, op),
         UNCHANGED sites, DeskData'
  PROVE  DeskShape'
<1>1. Head(request'[c].left) # "newsite"
  BY PathLefts, Lefts, ZenonT(30) DEF Goes, Asked, Handlers
<1>2. /\ request' \in [Clients -> RequestType] /\ OnItsWay(request'[c])
      /\ \A d \in Clients \ {c} : Waits(d)
  BY DEF Asked
<1>3. Cardinality(sites') + Cardinality(Founders') <= Cardinality(Clients)
  BY <1>1, <1>2, NoNewFounder
<1> QED BY <1>2, <1>3, ShapeAfter

\* All wait.
LEMMA ShapeWaiting ==
  ASSUME DeskShape, request' \in [Clients -> RequestType], \A d \in Clients : Waits(d),
         UNCHANGED sites, DeskData'
  PROVE  DeskShape'
<1>1. DeskTypeOK'
  <2>1. (DeskData /\ request \in [Clients -> RequestType])' => DeskTypeOK'
    BY TypesOf, PTL
  <2> QED BY <2>1
<1>2. Busy' = Busy /\ \A d \in Busy' : OnItsWay(request'[d])
  BY Waiting DEF DeskShape, Busy
<1>3. Founders' = Founders
  BY <1>2, Waiting DEF Founders, At, DeskShape
<1> QED BY <1>1, <1>2, <1>3 DEF DeskShape

\* Rows and pages of their types, and of sites there are.
LEMMA RowTyped ==
  ASSUME DeskData, NEW s \in Slots
  PROVE  /\ row[s] \in RowType /\ page[s] \in PageType
         /\ row[s].site \in sites \cup {NoSite} /\ page[s].site \in sites \cup {NoSite}
BY DEF DeskData

LEMMA RowChanged ==
  ASSUME DeskData, NEW s \in Slots, NEW r \in RowType, row' = [row EXCEPT ![s] = r],
         r.site \in sites \cup {NoSite}, UNCHANGED <<page, sites, asks>>,
         messages' \cup working' \cup revoked' \subseteq Slots
  PROVE  DeskData'
<1>1. row' \in [Slots -> RowType]
  BY DEF DeskData
<1>2. \A x \in Slots : {row'[x].site, page'[x].site} \subseteq sites' \cup {NoSite}
  BY DEF DeskData
<1> QED BY <1>1, <1>2 DEF DeskData

LEMMA PageChanged ==
  ASSUME DeskData, NEW s \in Slots, NEW p \in PageType, page' = [page EXCEPT ![s] = p],
         p.site \in sites \cup {NoSite}, UNCHANGED <<row, sites, asks>>,
         messages' \cup working' \cup revoked' \subseteq Slots
  PROVE  DeskData'
<1>1. page' \in [Slots -> PageType]
  BY DEF DeskData
<1>2. \A x \in Slots : {row'[x].site, page'[x].site} \subseteq sites' \cup {NoSite}
  BY DEF DeskData
<1> QED BY <1>1, <1>2 DEF DeskData

LEMMA DataSame ==
  ASSUME DeskData, UNCHANGED <<row, page, sites>>, asks' \in 0..MaxAsks,
         messages' \cup working' \cup revoked' \subseteq Slots
  PROVE  DeskData'
BY DEF DeskData

LEMMA ShapeAsks ==
  ASSUME DeskShape, NEW c \in Clients,
         \/ AskCreate(c) \/ AskLaunch(c) \/ AskClone(c) \/ AskStart(c) \/ AskEdit(c)
         \/ AskDelete(c) \/ AskDeleteSite(c)
  PROVE  DeskShape'
<1>1. \/ \E op \in Handlers : Asked(c, op)
      \/ InTheWay /\ asks' = asks + 1 /\ asks < MaxAsks
  BY AskedCreate, AskedLaunch, AskedClone, AskedStart, AskedEdit, AskedDelete,
     AskedDeleteSite DEF Handlers
<1>2. UNCHANGED <<row, page, sites, working>>
  BY DEF AskCreate, AskLaunch, AskClone, AskStart, AskEdit, AskDelete, AskDeleteSite
<1>3. messages' \subseteq messages /\ revoked' \subseteq Slots
  BY AskedDelete, AskedDeleteSite
     DEF AskCreate, AskLaunch, AskClone, AskStart, AskEdit, DeskShape, DeskTypeOK
<1>4. DeskData /\ asks' \in 0..MaxAsks
  BY <1>1, DataOfShape, DeskConstants DEF Asked, DeskShape, DeskTypeOK
<1>5. DeskData'
  BY <1>2, <1>3, <1>4, DataSame DEF DeskData
<1>6. CASE InTheWay
  BY <1>2, <1>5, <1>6, ShapeWaiting DEF InTheWay
<1>7. CASE \E op \in Handlers : Asked(c, op)
  BY <1>2, <1>5, <1>7, ShapeAsked
<1> QED BY <1>1, <1>6, <1>7

LEMMA ShapeSteps ==
  ASSUME DeskShape, NEW c \in Clients,
         \/ Resolve(c) \/ NewSite(c) \/ Check(c) \/ Worker(c) \/ Queue(c)
         \/ PurgeArticles(c) \/ PurgeTasks(c)
  PROVE  DeskShape'
<1>1. DeskData
  BY DataOfShape
<1>2. CASE Resolve(c)
  <2>1. DeskData' /\ UNCHANGED sites
    BY <1>1, <1>2, DataSame DEF Resolve, DeskData
  <2>2. PICK q \in RequestType :
          /\ request' = [request EXCEPT ![c] = q] /\ Follows(request[c], q)
          /\ q.slot = request[c].slot /\ request[c].op # "delete"
          /\ \/ Head(q.left) = "check"
             \/ Head(q.left) = "newsite" /\ sites = {}
    BY <1>2, ResolveStep
  <2>3. /\ request' \in [Clients -> RequestType] /\ request'[c] = q
        /\ \A d \in Clients \ {c} : Waits(d)
    BY <2>2, OwnStep DEF DeskShape
  <2>4. CASE Head(q.left) = "check"
    BY <2>1, <2>2, <2>4, ShapeOwn
  <2>5. CASE sites = {}
    <3>1. Founders' \subseteq Clients
      BY DEF Founders
    <3>2. Cardinality(Founders') <= Cardinality(Clients) /\ IsFiniteSet(Founders')
      BY <3>1, DeskConstants, FS_Subset
    <3>3. Cardinality(sites') = 0
      BY <2>1, <2>5, FS_EmptySet
    <3>4. Cardinality(Founders') \in Nat /\ Cardinality(Clients) \in Nat
      BY <3>2, DeskConstants, FS_CardinalityType
    <3>5. Cardinality(sites') + Cardinality(Founders') <= Cardinality(Clients)
      BY <3>2, <3>3, <3>4
    <3>6. OnItsWay(request'[c])
      BY <2>2, <2>3 DEF Follows
    <3> QED BY <2>1, <2>3, <3>5, <3>6, ShapeAfter
  <2> QED BY <2>2, <2>4, <2>5
<1>3. CASE NewSite(c)
  <2>1. PICK q \in RequestType, site \in SiteRows \ sites :
          /\ request' = [request EXCEPT ![c] = q] /\ Follows(request[c], q)
          /\ q.slot = request[c].slot /\ request[c].op # "delete"
          /\ Head(q.left) = "check" /\ sites' = sites \cup {site}
    BY <1>3, NewSiteStep
  <2>2. DeskData'
    BY <1>1, <1>3, <2>1 DEF NewSite, DeskData
  <2>3. /\ request' \in [Clients -> RequestType] /\ request'[c] = q
        /\ \A d \in Clients \ {c} : Waits(d)
    BY <2>1, OwnStep DEF DeskShape
  <2>4. OnItsWay(request'[c])
    BY <2>1, <2>3 DEF Follows
  <2>5. c \in Founders /\ c \notin Founders'
    BY <1>3, <2>1, <2>3 DEF Founders, NewSite, At
  <2>6. \A d \in Clients \ {c} : d \in Founders' => d \in Founders
    BY <2>3, Waiting DEF Founders, At, DeskShape
  <2>7. Founders' \subseteq Founders \ {c}
    BY <2>5, <2>6 DEF Founders
  <2>8. IsFiniteSet(sites) /\ IsFiniteSet(Founders)
    BY DeskConstants, FS_Subset DEF DeskShape, DeskTypeOK, Founders
  <2>9. IsFiniteSet(Founders \ {c}) /\ Cardinality(Founders \ {c}) = Cardinality(Founders) - 1
    BY <2>5, <2>8, FS_RemoveElement
  <2>10. IsFiniteSet(Founders') /\ Cardinality(Founders') <= Cardinality(Founders \ {c})
    BY <2>7, <2>9, FS_Subset
  <2>11. Cardinality(sites') = Cardinality(sites) + 1
    BY <2>1, <2>8, FS_AddElement
  <2>12. /\ Cardinality(sites) \in Nat /\ Cardinality(Founders) \in Nat
         /\ Cardinality(Founders') \in Nat /\ Cardinality(Clients) \in Nat
    BY <2>8, <2>10, DeskConstants, FS_CardinalityType
  <2>13. Cardinality(sites') + Cardinality(Founders') <= Cardinality(Clients)
    BY <2>9, <2>10, <2>11, <2>12 DEF DeskShape
  <2> QED BY <2>2, <2>3, <2>4, <2>13, ShapeAfter
<1>4. CASE Check(c)
  <2>1. DeskData' /\ UNCHANGED sites
    BY <1>1, <1>4, DataSame DEF Check, DeskData
  <2> QED BY <1>4, <2>1, CheckStep, ShapeOwn, IdleTyped
<1>5. CASE Worker(c)
  <2>1. DeskData' /\ UNCHANGED sites
    BY <1>1, <1>5, DataSame DEF Worker, DeskData
  <2> QED BY <1>5, <2>1, WorkerStep, ShapeOwn, IdleTyped
<1>6. CASE Queue(c)
  <2>1. request[c].slot \in Slots
    BY <1>6, QueueStep
  <2>2. DeskData' /\ UNCHANGED sites
    BY <1>1, <1>6, <2>1, DataSame DEF Queue, DeskData
  <2> QED BY <1>6, <2>2, QueueStep, ShapeOwn, IdleTyped
<1>7. CASE PurgeArticles(c)
  <2>1. DeskData' /\ UNCHANGED sites
    BY <1>1, <1>7, DataSame DEF PurgeArticles, DeskData
  <2> QED BY <1>7, <2>1, ArticlesStep, ShapeOwn
<1>8. CASE PurgeTasks(c)
  <2>1. DeskData' /\ UNCHANGED sites
    BY <1>1, <1>8, DataSame, SMTT(30) DEF PurgeTasks, DeskData
  <2> QED BY <1>8, <2>1, TasksStep, ShapeOwn, IdleTyped
<1> QED BY <1>2, <1>3, <1>4, <1>5, <1>6, <1>7, <1>8

LEMMA ShapeInsert ==
  ASSUME DeskShape, NEW c \in Clients, Insert(c)
  PROVE  DeskShape'
<1> DEFINE r == request[c]
<1>1. DeskData /\ UNCHANGED <<page, sites, messages, working, asks>>
  BY DataOfShape, SMTT(30) DEF Insert
<1>2. r.site \in SiteRows \cup {NoSite} /\ r.key \in Keys \cup {0}
  BY InsertStep
<1>3. CASE /\ UNCHANGED <<row, revoked>>
           /\ request' = [request EXCEPT ![c] = Idle]
  <2>1. DeskData'
    BY <1>1, <1>3 DEF DeskData
  <2> QED BY <1>1, <1>3, <2>1, ShapeOwn, IdleTyped
<1>4. CASE /\ r.slot = 0 /\ r.site \in sites
           /\ \E new \in Unused, q \in RequestType :
                /\ row' = [row EXCEPT ![new] = [NoRow EXCEPT !.status = "pending",
                                                   !.site = r.site, !.key = r.key]]
                /\ revoked' = revoked \ {new}
                /\ request' = [request EXCEPT ![c] = q]
                /\ \/ q = Idle
                   \/ Follows(r, q) /\ q.slot = new /\ q.op = "create" /\ Head(q.left) = "worker"
  <2>1. PICK new \in Unused, q \in RequestType :
                /\ row' = [row EXCEPT ![new] = [NoRow EXCEPT !.status = "pending",
                                                   !.site = r.site, !.key = r.key]]
                /\ revoked' = revoked \ {new}
                /\ request' = [request EXCEPT ![c] = q]
                /\ \/ q = Idle
                   \/ Follows(r, q) /\ q.slot = new /\ q.op = "create" /\ Head(q.left) = "worker"
    BY <1>4
  <2> DEFINE n == [NoRow EXCEPT !.status = "pending", !.site = r.site, !.key = r.key]
  <2>2. n \in RowType /\ n.site = r.site
    BY <1>2 DEF NoRow, RowType
  <2>3. row' = [row EXCEPT ![new] = n] /\ new \in Slots
    BY <2>1 DEF Unused
  <2> HIDE DEF n
  <2>4. messages' \cup working' \cup revoked' \subseteq Slots
    BY <1>1, <2>1 DEF DeskData
  <2>5. DeskData'
    BY <1>1, <1>4, <2>2, <2>3, <2>4, RowChanged
  <2> QED BY <1>1, <2>1, <2>5, ShapeOwn
<1>5. CASE /\ r.op = "launch" /\ r.slot \in Slots /\ There(r.slot) /\ r.site \in sites
           /\ row' = [row EXCEPT ![r.slot].status = "pending", ![r.slot].site = r.site]
           /\ UNCHANGED revoked
           /\ \E q \in RequestType :
                /\ request' = [request EXCEPT ![c] = q] /\ Follows(r, q)
                /\ q.slot = r.slot /\ Head(q.left) = "queue"
  <2> DEFINE n == [row[r.slot] EXCEPT !.status = "pending", !.site = r.site]
  <2>1. row[r.slot] \in RowType
    BY <1>1, <1>5, RowTyped
  <2>2. n \in RowType /\ n.site = r.site
    BY <1>2, <2>1 DEF RowType
  <2>3. row' = [row EXCEPT ![r.slot] = n]
    BY <1>5
  <2> HIDE DEF n
  <2>4. messages' \cup working' \cup revoked' \subseteq Slots
    BY <1>1, <1>5 DEF DeskData
  <2>5. DeskData'
    BY <1>1, <1>5, <2>2, <2>3, <2>4, RowChanged
  <2> QED BY <1>1, <1>5, <2>5, ShapeOwn
<1> QED BY <1>3, <1>4, <1>5, InsertStep

LEMMA ShapeEnds ==
  ASSUME DeskShape, NEW c \in Clients,
         Name(c) \/ Edit(c) \/ RemoveProject(c) \/ RemoveSite(c)
  PROVE  DeskShape'
<1> DEFINE s == request[c].slot
<1>1. DeskData
  BY DataOfShape
<1>2. /\ request' = [request EXCEPT ![c] = Idle]
      /\ (Name(c) \/ Edit(c) \/ RemoveProject(c)) => s \in Slots
  BY NameStep, EditStep, RemoveStep DEF RemoveProject
<1>3. CASE Name(c)
  <2>1. UNCHANGED <<page, sites, messages, working, revoked, asks>>
    BY <1>3 DEF Name
  <2>2. CASE UNCHANGED row
    <3>1. DeskData'
      BY <1>1, <2>1, <2>2 DEF DeskData
    <3> QED BY <1>2, <2>1, <3>1, ShapeOwn, IdleTyped
  <2>3. CASE row' = [row EXCEPT ![s].named = TRUE]
    <3> DEFINE n == [row[s] EXCEPT !.named = TRUE]
    <3>1. row[s] \in RowType /\ row[s].site \in sites \cup {NoSite} /\ s \in Slots
      BY <1>1, <1>2, <1>3, RowTyped
    <3>2. n \in RowType /\ n.site = row[s].site /\ row' = [row EXCEPT ![s] = n]
      BY <2>3, <3>1 DEF RowType
    <3> HIDE DEF n
    <3>3. DeskData'
      BY <1>1, <2>1, <3>1, <3>2, RowChanged DEF DeskData
    <3> QED BY <1>2, <2>1, <3>3, ShapeOwn, IdleTyped
  <2> QED BY <1>3, <2>2, <2>3 DEF Name
<1>4. CASE Edit(c)
  <2>1. UNCHANGED <<page, sites, messages, working, revoked, asks>>
    BY <1>4 DEF Edit
  <2>2. CASE UNCHANGED row
    <3>1. DeskData'
      BY <1>1, <2>1, <2>2 DEF DeskData
    <3> QED BY <1>2, <2>1, <3>1, ShapeOwn, IdleTyped
  <2>3. CASE row' = [row EXCEPT ![s].key = request[c].key]
    <3> DEFINE n == [row[s] EXCEPT !.key = request[c].key]
    <3>1. row[s] \in RowType /\ row[s].site \in sites \cup {NoSite} /\ s \in Slots
          /\ request[c].key \in Keys \cup {0}
      BY <1>1, <1>2, <1>4, RowTyped, EditStep
    <3>2. n \in RowType /\ n.site = row[s].site /\ row' = [row EXCEPT ![s] = n]
      BY <2>3, <3>1 DEF RowType
    <3> HIDE DEF n
    <3>3. DeskData'
      BY <1>1, <2>1, <3>1, <3>2, RowChanged DEF DeskData
    <3> QED BY <1>2, <2>1, <3>3, ShapeOwn, IdleTyped
  <2> QED BY <1>4, <2>2, <2>3 DEF Edit
<1>5. CASE RemoveProject(c)
  <2>1. UNCHANGED <<sites, messages, working, revoked, asks>>
    BY <1>5 DEF RemoveProject
  <2>2. row' = [row EXCEPT ![s] = NoRow]
    BY <1>5 DEF RemoveProject
  <2>3. NoRow \in RowType /\ NoRow.site = NoSite /\ NoPage \in PageType /\ NoPage.site = NoSite
    BY DEF NoRow, NoPage, RowType, PageType
  <2>4. row[s] \in RowType /\ page[s] \in PageType /\ page[s].site \in sites \cup {NoSite} /\ s \in Slots
    BY <1>1, <1>2, <1>5, RowTyped
  <2> DEFINE p == IF request[c].purged \/ page[s].status = "none" THEN NoPage
                  ELSE [page[s] EXCEPT !.owned = FALSE]
  <2>5. page' = [page EXCEPT ![s] = p]
    BY <1>5 DEF RemoveProject
  <2>6. p \in PageType /\ p.site \in sites \cup {NoSite}
    BY <2>3, <2>4 DEF PageType
  <2> HIDE DEF p
  <2>7. /\ row' \in [Slots -> RowType] /\ page' \in [Slots -> PageType]
        /\ row'[s] = NoRow /\ page'[s] = p
        /\ \A x \in Slots \ {s} : row'[x] = row[x] /\ page'[x] = page[x]
    BY <1>1, <2>2, <2>3, <2>4, <2>5, <2>6 DEF DeskData
  <2>8. \A x \in Slots : {row'[x].site, page'[x].site} \subseteq sites \cup {NoSite}
    BY <1>1, <2>3, <2>6, <2>7 DEF DeskData
  <2>9. DeskData'
    BY <1>1, <2>1, <2>7, <2>8 DEF DeskData
  <2> QED BY <1>2, <2>1, <2>9, ShapeOwn, IdleTyped
<1>6. CASE RemoveSite(c)
  <2> DEFINE site == request[c].site
             gone == request[c].locked
  <2>1. UNCHANGED <<messages, working, revoked, asks>>
    BY <1>6 DEF RemoveSite
  <2>2. CASE UNCHANGED <<sites, row, page>>
    <3>1. DeskData'
      BY <1>1, <2>1, <2>2 DEF DeskData
    <3> QED BY <1>2, <2>2, <3>1, ShapeOwn, IdleTyped
  <2>3. CASE /\ \A x \in Slots : row[x].site = site \/ page[x].site = site
                                   => x \in gone /\ ~page[x].article
             /\ sites' = sites \ {site}
             /\ row' = [x \in Slots |-> IF x \in gone THEN NoRow ELSE row[x]]
             /\ page' = [x \in Slots |-> IF x \in gone THEN NoPage ELSE page[x]]
    <3>1. NoRow \in RowType /\ NoRow.site = NoSite /\ NoPage \in PageType /\ NoPage.site = NoSite
      BY DEF NoRow, NoPage, RowType, PageType
    <3>2. row' \in [Slots -> RowType] /\ page' \in [Slots -> PageType]
      BY <1>1, <2>3, <3>1 DEF DeskData
    <3>3. \A x \in Slots : {row'[x].site, page'[x].site} \subseteq sites' \cup {NoSite}
      <4> TAKE x \in Slots
      <4>1. CASE x \in gone
        BY <2>3, <3>1, <4>1
      <4>2. CASE x \notin gone
        <5>1. row'[x] = row[x] /\ page'[x] = page[x] /\ row[x].site # site /\ page[x].site # site
          BY <2>3, <4>2
        <5> QED BY <1>1, <2>3, <5>1 DEF DeskData
      <4> QED BY <4>1, <4>2
    <3>4. DeskData' /\ sites' \subseteq sites
      BY <1>1, <2>1, <2>3, <3>2, <3>3 DEF DeskData
    <3> QED BY <1>2, <3>4, ShapeOwn, IdleTyped
  <2> QED BY <1>6, <2>2, <2>3 DEF RemoveSite
<1> QED BY <1>3, <1>4, <1>5, <1>6

LEMMA ShapeOnce ==
  ASSUME DeskShape,
         NewDraft \/ \E s \in Slots : Archive(s) \/ Reset(s) \/ RetryPages(s) \/ RerunPage(s)
  PROVE  DeskShape'
<1>1. DeskData
  BY DataOfShape
<1>2. AtOnce /\ UNCHANGED <<sites, working>>
  BY DEF NewDraft, Archive, Reset, RetryPages, RerunPage
<1>3. InTheWay /\ asks' \in 0..MaxAsks
  BY <1>1, <1>2, AtOnceWay, DeskConstants DEF DeskData
<1>4. SUFFICES DeskData'
  BY <1>2, <1>3, ShapeWaiting DEF InTheWay
<1>5. CASE NewDraft
  <2> DEFINE s == CHOOSE x \in Unused : TRUE
  <2>1. s \in Slots
    BY <1>5 DEF NewDraft, Unused
  <2>2. PICK k \in Keys : row' = [row EXCEPT ![s] = [NoRow EXCEPT !.status = "draft", !.key = k]]
    BY <1>5 DEF NewDraft
  <2>3. revoked' = revoked \ {s} /\ UNCHANGED <<page, messages>>
    BY <1>5 DEF NewDraft
  <2> HIDE DEF s
  <2> DEFINE n == [NoRow EXCEPT !.status = "draft", !.key = k]
  <2>4. n \in RowType /\ n.site = NoSite
    BY DEF NoRow, RowType
  <2>5. row' = [row EXCEPT ![s] = n]
    BY <2>2
  <2> HIDE DEF n
  <2>6. row' \in [Slots -> RowType] /\ \A x \in Slots : row'[x].site \in sites \cup {NoSite}
    BY <1>1, <2>1, <2>4, <2>5 DEF DeskData
  <2> QED BY <1>1, <1>2, <1>3, <2>3, <2>6 DEF DeskData
<1>6. ASSUME NEW s \in Slots, Archive(s)
      PROVE  DeskData'
  <2>1. row[s] \in RowType /\ row[s].site \in sites \cup {NoSite}
    BY <1>1, RowTyped
  <2> DEFINE n == [row[s] EXCEPT !.archived = ~@]
  <2>2. n \in RowType /\ n.site = row[s].site
    BY <2>1 DEF RowType
  <2>3. row' = [row EXCEPT ![s] = n] /\ UNCHANGED <<page, messages, revoked>>
    BY <1>6 DEF Archive
  <2> HIDE DEF n
  <2>4. row' \in [Slots -> RowType] /\ \A x \in Slots : row'[x].site \in sites \cup {NoSite}
    BY <1>1, <2>1, <2>2, <2>3 DEF DeskData
  <2> QED BY <1>1, <1>2, <1>3, <2>3, <2>4 DEF DeskData
<1>7. ASSUME NEW s \in Slots, Reset(s)
      PROVE  DeskData'
  <2>1. row[s] \in RowType /\ row[s].site \in sites \cup {NoSite}
    BY <1>1, RowTyped
  <2> DEFINE n == [row[s] EXCEPT !.status = "failed", !.named = FALSE]
  <2>2. n \in RowType /\ n.site = row[s].site
    BY <2>1 DEF RowType
  <2>3. row' = [row EXCEPT ![s] = n] /\ UNCHANGED page
    BY <1>7 DEF Reset
  <2> HIDE DEF n
  <2>4. row' \in [Slots -> RowType] /\ \A x \in Slots : row'[x].site \in sites \cup {NoSite}
    BY <1>1, <2>1, <2>2, <2>3 DEF DeskData
  <2>5. messages' \subseteq messages /\ revoked' \subseteq Slots
    BY <1>7, Revoking DEF Reset
  <2> QED BY <1>1, <1>2, <1>3, <2>3, <2>4, <2>5 DEF DeskData
<1>8. ASSUME NEW s \in Slots, RetryPages(s)
      PROVE  DeskData'
  <2>1. row[s] \in RowType /\ row[s].site \in sites \cup {NoSite}
        /\ page[s] \in PageType /\ page[s].site \in sites \cup {NoSite}
    BY <1>1, RowTyped
  <2> DEFINE n == [row[s] EXCEPT !.status = "generating"]
             p == [page[s] EXCEPT !.status = "running"]
  <2>2. n \in RowType /\ n.site = row[s].site /\ p \in PageType /\ p.site = page[s].site
    BY <2>1 DEF RowType, PageType
  <2>3. row' = [row EXCEPT ![s] = n] /\ page' = [page EXCEPT ![s] = p]
    BY <1>8 DEF RetryPages
  <2> HIDE DEF n, p
  <2>4. /\ row' \in [Slots -> RowType] /\ page' \in [Slots -> PageType]
        /\ \A x \in Slots : {row'[x].site, page'[x].site} \subseteq sites \cup {NoSite}
    BY <1>1, <2>1, <2>2, <2>3 DEF DeskData
  <2>5. messages' \cup revoked' \subseteq Slots
    BY <1>1, <1>8 DEF RetryPages, DeskData
  <2> QED BY <1>1, <1>2, <1>3, <2>4, <2>5 DEF DeskData
<1>9. ASSUME NEW s \in Slots, RerunPage(s)
      PROVE  DeskData'
  <2>1. page[s] \in PageType /\ page[s].site \in sites \cup {NoSite}
    BY <1>1, RowTyped
  <2>2. PICK cascade, accepted \in BOOLEAN :
           page' = [page EXCEPT ![s].status = "running", ![s].article = @ /\ ~cascade,
                                ![s].own = @ \/ accepted]
    BY <1>9 DEF RerunPage
  <2> DEFINE article == page[s].article /\ ~cascade
             own == page[s].own \/ accepted
             p == [page[s] EXCEPT !.status = "running", !.article = article, !.own = own]
  <2>3. page' = [page EXCEPT ![s] = p] /\ article \in BOOLEAN /\ own \in BOOLEAN
    BY <1>1, <2>2 DEF DeskData
  <2> HIDE DEF article, own
  <2>4. p \in PageType /\ p.site = page[s].site
    BY <2>1, <2>3 DEF PageType
  <2> HIDE DEF p
  <2>5. page' \in [Slots -> PageType] /\ \A x \in Slots : page'[x].site \in sites \cup {NoSite}
    BY <1>1, <2>1, <2>3, <2>4 DEF DeskData
  <2>6. UNCHANGED <<row, sites, messages, revoked>>
    BY <1>9 DEF RerunPage
  <2> QED BY <1>1, <1>2, <1>3, <2>5, <2>6 DEF DeskData
<1> QED BY <1>5, <1>6, <1>7, <1>8, <1>9

LEMMA ShapeWorkers ==
  ASSUME DeskShape, NEW s \in Slots,
         Take(s) \/ OpenPage(s) \/ WriteArticle(s) \/ EndPage(s) \/ Finish(s) \/ Kill(s) \/ Requeue(s)
  PROVE  DeskShape'
<1>1. DeskData
  BY DataOfShape
<1>2. UNCHANGED <<sites, asks>>
  BY DEF Take, OpenPage, WriteArticle, EndPage, Finish, Kill, Requeue
<1>3. request' \in [Clients -> RequestType] /\ \A d \in Clients : Waits(d)
  <2>1. CASE Take(s) \/ Finish(s)
    BY <2>1, LateWay DEF Take, Finish
  <2>2. CASE UNCHANGED request
    BY <2>2, NoStep DEF DeskShape
  <2> QED BY <2>1, <2>2 DEF OpenPage, WriteArticle, EndPage, Kill, Requeue
<1>4. SUFFICES DeskData'
  BY <1>2, <1>3, ShapeWaiting
<1>5. row[s] \in RowType /\ row[s].site \in sites \cup {NoSite}
      /\ page[s] \in PageType /\ page[s].site \in sites \cup {NoSite}
  BY <1>1, RowTyped
<1>6. CASE Take(s)
  <2>1. messages' \cup working' \cup revoked' \subseteq Slots /\ UNCHANGED page
    BY <1>1, <1>6 DEF Take, DeskData
  <2>2. CASE UNCHANGED row
    BY <1>1, <1>2, <2>1, <2>2 DEF DeskData
  <2>3. CASE row' = [row EXCEPT ![s].status = "generating"]
    <3> DEFINE n == [row[s] EXCEPT !.status = "generating"]
    <3>1. n \in RowType /\ n.site = row[s].site /\ row' = [row EXCEPT ![s] = n]
      BY <1>5, <2>3 DEF RowType
    <3> HIDE DEF n
    <3> QED BY <1>1, <1>2, <1>5, <2>1, <3>1, RowChanged
  <2> QED BY <1>6, <2>2, <2>3 DEF Take
<1>7. CASE OpenPage(s)
  <2> DEFINE p == [status |-> "running", site |-> row[s].site, article |-> FALSE, owned |-> TRUE,
              own |-> FALSE]
  <2>1. p \in PageType /\ p.site = row[s].site /\ page' = [page EXCEPT ![s] = p]
    BY <1>5, <1>7 DEF OpenPage, PageType, RowType
  <2>2. UNCHANGED <<row, messages, working, revoked>>
    BY <1>7 DEF OpenPage
  <2> HIDE DEF p
  <2> QED BY <1>1, <1>2, <1>5, <2>1, <2>2, PageChanged DEF DeskData
<1>8. CASE WriteArticle(s)
  <2> DEFINE p == [page[s] EXCEPT !.article = TRUE]
  <2>1. p \in PageType /\ p.site = page[s].site /\ page' = [page EXCEPT ![s] = p]
    BY <1>5, <1>8 DEF WriteArticle, PageType
  <2>2. UNCHANGED <<row, messages, working, revoked>>
    BY <1>8 DEF WriteArticle
  <2> HIDE DEF p
  <2> QED BY <1>1, <1>2, <1>5, <2>1, <2>2, PageChanged DEF DeskData
<1>9. CASE Finish(s)
  <2> DEFINE p == IF page[s].status # "running" THEN page[s]
                  ELSE [page[s] EXCEPT !.status = IF page[s].article THEN "done" ELSE "failed"]
             n == IF ~There(s) THEN row[s]
                  ELSE [row[s] EXCEPT !.status = IF page[s].article THEN "completed" ELSE "failed"]
  <2>1. p \in PageType /\ p.site = page[s].site
    BY <1>5 DEF PageType
  <2>2. n \in RowType /\ n.site = row[s].site
    BY <1>5 DEF RowType
  <2>3. page' = [page EXCEPT ![s] = p]
    BY <1>1, <1>9 DEF Finish, DeskData
  <2>4. row' = [row EXCEPT ![s] = n]
    BY <1>1, <1>9 DEF Finish, DeskData
  <2>5. messages' \cup working' \cup revoked' \subseteq Slots
    BY <1>1, <1>9 DEF Finish, DeskData
  <2> HIDE DEF n, p
  <2>6. /\ row' \in [Slots -> RowType] /\ page' \in [Slots -> PageType]
        /\ \A x \in Slots : {row'[x].site, page'[x].site} \subseteq sites \cup {NoSite}
    BY <1>1, <1>5, <2>1, <2>2, <2>3, <2>4 DEF DeskData
  <2> QED BY <1>1, <1>2, <2>5, <2>6 DEF DeskData
<1>10. CASE Kill(s) \/ Requeue(s)
  BY <1>1, <1>2, <1>10 DEF Kill, Requeue, DeskData
<1>11. CASE EndPage(s)
  <2>1. PICK done \in BOOLEAN :
           page' = [page EXCEPT ![s].own = FALSE, ![s].article = @ \/ done,
                                ![s].status = IF done THEN "done" ELSE "failed"]
    BY <1>11 DEF EndPage
  <2> DEFINE article == page[s].article \/ done
             status == IF done THEN "done" ELSE "failed"
             p == [page[s] EXCEPT !.own = FALSE, !.article = article, !.status = status]
  <2>2. page' = [page EXCEPT ![s] = p] /\ article \in BOOLEAN /\ status \in {"done", "failed"}
    BY <1>1, <2>1 DEF DeskData
  <2> HIDE DEF article, status
  <2>3. p \in PageType /\ p.site = page[s].site
    BY <1>5, <2>2 DEF PageType
  <2>4. UNCHANGED <<row, messages, working, revoked>>
    BY <1>11 DEF EndPage
  <2> HIDE DEF p
  <2> QED BY <1>1, <1>2, <1>5, <2>2, <2>3, <2>4, PageChanged DEF DeskData
<1> QED BY <1>6, <1>7, <1>8, <1>9, <1>10, <1>11

LEMMA ShapeStep == DeskShape /\ DeskNext => DeskShape'
BY ShapeAsks, ShapeSteps, ShapeInsert, ShapeEnds, ShapeOnce, ShapeWorkers DEF DeskNext

LEMMA ShapeStutter == DeskShape /\ UNCHANGED deskVars => DeskShape'
BY DEF deskVars, DeskShape, DeskTypeOK, Busy, Founders, At

LEMMA ShapeInit == DeskInit => DeskShape
<1> SUFFICES ASSUME DeskInit PROVE DeskShape
  OBVIOUS
<1>1. request \in [Clients -> RequestType] /\ Busy = {}
  BY IdleTyped DEF DeskInit, Busy
<1>2. DeskData
  BY DeskConstants DEF DeskInit, DeskData, NoRow, NoPage, RowType, PageType
<1>3. Founders = {} /\ sites = {}
  BY <1>1 DEF Founders, At, DeskInit
<1>4. Cardinality(sites) + Cardinality(Founders) <= Cardinality(Clients)
  BY <1>3, DeskConstants, FS_EmptySet, FS_CardinalityType
<1> QED BY <1>1, <1>2, <1>4, TypesOf DEF DeskShape

-----------------------------------------------------------------------------
(* The desk: projects and pages.                                           *)

\* Who waits launches nothing.
LEMMA LaunchedWaiting ==
  ASSUME DeskShape, NEW s \in Slots, NoneLaunched(s), \A d \in Clients : Waits(d)
  PROVE  NoneLaunched(s)'
<1>1. \A d \in Clients : /\ d \in Busy' <=> d \in Busy
                         /\ request'[d].slot = request[d].slot
                         /\ Launched(request'[d]) <=> Launched(request[d])
  BY Waiting DEF DeskShape
<1>2. Busy' \subseteq Clients
  BY DEF Busy
<1> QED BY <1>1, <1>2 DEF NoneLaunched

\* A step of one request launches no project but its own.
LEMMA LaunchedOwn ==
  ASSUME DeskShape, NEW s \in Slots, NoneLaunched(s), NEW c \in Busy, NEW q \in RequestType,
         request' = [request EXCEPT ![c] = q],
         \/ q = Idle
         \/ q.slot # s
         \/ q.slot = request[c].slot /\ (Launched(q) => Launched(request[c]))
  PROVE  NoneLaunched(s)'
<1>1. c \in Clients
  BY DEF Busy
<1>2. /\ request'[c] = q /\ \A d \in Clients \ {c} : Waits(d)
      /\ c \in Busy' <=> q.left # <<>>
  BY <1>1, OwnStep DEF DeskShape
<1>3. \A d \in Clients \ {c} : /\ d \in Busy' <=> d \in Busy
                               /\ request'[d].slot = request[d].slot
                               /\ Launched(request'[d]) <=> Launched(request[d])
  BY <1>2, Waiting DEF DeskShape
<1>4. Busy' \subseteq Clients
  BY DEF Busy
<1>5. c \in Busy' /\ request'[c].slot = s => ~Launched(request'[c])
  BY <1>2, IdleTyped DEF NoneLaunched
<1> QED BY <1>3, <1>4, <1>5 DEF NoneLaunched

LEMMA LaunchedAsked ==
  ASSUME DeskShape, NEW s \in Slots, NoneLaunched(s), NEW c \in Clients, NEW op \in Handlers,
         Asked(c, op), op = "start" => request'[c].slot # s, op = "create" => request'[c].slot = 0
  PROVE  NoneLaunched(s)'
<1>1. \A d \in Clients \ {c} : /\ d \in Busy' <=> d \in Busy
                               /\ request'[d].slot = request[d].slot
                               /\ Launched(request'[d]) <=> Launched(request[d])
  BY Waiting DEF DeskShape, Asked
<1>2. Busy' \subseteq Clients
  BY DEF Busy
<1>3. Head(Path["launch"]) = "resolve"
  BY PathLefts, Lefts DEF Goes
<1>4. request'[c].slot = s => ~Launched(request'[c])
  BY <1>3, DeskConstants DEF Asked, Launched
<1> QED BY <1>1, <1>2, <1>4 DEF NoneLaunched

\* A step that leaves a project and its page alone.
LEMMA SlotAlone ==
  ASSUME NEW s \in Slots, SlotInv(s), row'[s].status = row[s].status, page'[s] = page[s],
         row[s].status = "draft" => /\ s \notin messages' \cup working'
                                    /\ NoneLaunched(s) => NoneLaunched(s)'
  PROVE  SlotInv(s)'
BY DEF SlotInv, There

LEMMA SlotAsks ==
  ASSUME DeskShape, NEW s \in Slots, SlotInv(s), NEW c \in Clients,
         \/ AskCreate(c) \/ AskLaunch(c) \/ AskClone(c) \/ AskStart(c) \/ AskEdit(c)
         \/ AskDelete(c) \/ AskDeleteSite(c)
  PROVE  SlotInv(s)'
<1>1. UNCHANGED <<row, page, working>>
  BY DEF AskCreate, AskLaunch, AskClone, AskStart, AskEdit, AskDelete, AskDeleteSite
<1>2. messages' \subseteq messages
  BY AskedDelete, AskedDeleteSite DEF AskCreate, AskLaunch, AskClone, AskStart, AskEdit
<1>3. ASSUME row[s].status = "draft", NoneLaunched(s)
      PROVE  NoneLaunched(s)'
  <2>1. CASE InTheWay
    BY <1>3, <2>1, LaunchedWaiting DEF InTheWay
  <2>2. CASE AskCreate(c)
    BY <1>3, <2>2, AskedCreate, LaunchedAsked DEF Handlers
  <2>3. CASE AskLaunch(c)
    BY <1>3, <2>3, AskedLaunch, LaunchedAsked DEF Handlers
  <2>4. CASE AskClone(c)
    BY <1>3, <2>4, AskedClone, LaunchedAsked DEF Handlers
  <2>5. CASE AskStart(c)
    BY <1>3, <2>5, AskedStart, LaunchedAsked DEF Handlers
  <2>6. CASE AskEdit(c)
    BY <1>3, <2>6, AskedEdit, LaunchedAsked DEF Handlers
  <2>7. CASE AskDelete(c)
    BY <1>3, <2>7, AskedDelete, LaunchedAsked DEF Handlers
  <2>8. CASE AskDeleteSite(c)
    BY <1>3, <2>1, <2>8, AskedDeleteSite, LaunchedAsked DEF Handlers
  <2> QED BY <2>2, <2>3, <2>4, <2>5, <2>6, <2>7, <2>8
<1> QED BY <1>1, <1>2, <1>3, SlotAlone, SMTT(30) DEF SlotInv

LEMMA SlotSteps ==
  ASSUME DeskShape, NEW s \in Slots, SlotInv(s), NEW c \in Clients,
         \/ Resolve(c) \/ NewSite(c) \/ Check(c) \/ Worker(c) \/ Queue(c)
         \/ PurgeArticles(c) \/ PurgeTasks(c)
  PROVE  SlotInv(s)'
<1>1. UNCHANGED <<row, page, working>> /\ c \in Busy
  BY DEF Resolve, NewSite, Check, Worker, Queue, PurgeArticles, PurgeTasks, At
<1>2. \E q \in RequestType :
        /\ request' = [request EXCEPT ![c] = q]
        /\ \/ q = Idle
           \/ q.slot = request[c].slot /\ (Launched(q) => Launched(request[c]))
  <2>1. CASE Resolve(c)
    BY <2>1, ResolveStep DEF Follows, Launched
  <2>2. CASE NewSite(c)
    BY <2>2, NewSiteStep DEF Follows, Launched
  <2>3. CASE Check(c)
    BY <2>3, CheckStep, IdleTyped DEF Follows, Launched
  <2>4. CASE Worker(c)
    BY <2>4, WorkerStep, IdleTyped DEF Follows, Launched
  <2>5. CASE Queue(c)
    BY <2>5, QueueStep, IdleTyped
  <2>6. CASE PurgeArticles(c)
    BY <2>6, ArticlesStep DEF Follows, Launched
  <2>7. CASE PurgeTasks(c)
    BY <2>7, TasksStep, IdleTyped DEF Follows, Launched
  <2> QED BY <2>1, <2>2, <2>3, <2>4, <2>5, <2>6, <2>7
<1>3. NoneLaunched(s) => NoneLaunched(s)'
  BY <1>1, <1>2, LaunchedOwn
<1>4. row[s].status = "draft" => s \notin messages'
  <2>1. CASE Queue(c)
    BY <1>1, <2>1, QueueStep DEF SlotInv, NoneLaunched, Queue
  <2>2. CASE UNCHANGED messages
    BY <2>2, SMTT(30) DEF SlotInv
  <2> QED BY <2>1, <2>2 DEF Resolve, NewSite, Check, Worker, PurgeArticles, PurgeTasks
<1> QED BY <1>1, <1>3, <1>4, SlotAlone DEF SlotInv

LEMMA SlotInsert ==
  ASSUME DeskShape, NEW s \in Slots, SlotInv(s), NEW c \in Clients, Insert(c)
  PROVE  SlotInv(s)'
<1> DEFINE r == request[c]
<1>1. UNCHANGED <<page, messages, working>> /\ c \in Busy /\ row \in [Slots -> RowType]
  BY DataOfShape DEF Insert, At, DeskData
<1>2. CASE /\ UNCHANGED <<row, revoked>>
           /\ request' = [request EXCEPT ![c] = Idle]
  <2>1. NoneLaunched(s) => NoneLaunched(s)'
    BY <1>1, <1>2, LaunchedOwn, IdleTyped
  <2> QED BY <1>1, <1>2, <2>1, SlotAlone DEF SlotInv
<1>3. CASE /\ r.slot = 0 /\ r.site \in sites
           /\ \E new \in Unused, q \in RequestType :
                /\ row' = [row EXCEPT ![new] = [NoRow EXCEPT !.status = "pending",
                                                   !.site = r.site, !.key = r.key]]
                /\ revoked' = revoked \ {new}
                /\ request' = [request EXCEPT ![c] = q]
                /\ \/ q = Idle
                   \/ Follows(r, q) /\ q.slot = new /\ q.op = "create" /\ Head(q.left) = "worker"
  <2>1. PICK new \in Unused, q \in RequestType :
                /\ row' = [row EXCEPT ![new] = [NoRow EXCEPT !.status = "pending",
                                                   !.site = r.site, !.key = r.key]]
                /\ revoked' = revoked \ {new}
                /\ request' = [request EXCEPT ![c] = q]
                /\ \/ q = Idle
                   \/ Follows(r, q) /\ q.slot = new /\ q.op = "create" /\ Head(q.left) = "worker"
    BY <1>3
  <2>2. new \in Slots /\ page[new] = NoPage
    BY DEF Unused
  <2>3. CASE s = new
    <3>1. row'[s].status = "pending" /\ page'[s] = NoPage
      BY <1>1, <2>1, <2>2, <2>3 DEF NoRow
    <3> QED BY <3>1 DEF SlotInv, NoPage
  <2>4. CASE s # new
    <3>1. row'[s] = row[s] /\ page'[s] = page[s]
      BY <1>1, <2>1, <2>2, <2>4
    <3>2. NoneLaunched(s) => NoneLaunched(s)'
      BY <1>1, <2>1, <2>4, LaunchedOwn
    <3> QED BY <1>1, <3>1, <3>2, SlotAlone DEF SlotInv
  <2> QED BY <2>3, <2>4
<1>4. CASE /\ r.op = "launch" /\ r.slot \in Slots /\ There(r.slot) /\ r.site \in sites
           /\ row' = [row EXCEPT ![r.slot].status = "pending", ![r.slot].site = r.site]
           /\ UNCHANGED revoked
           /\ \E q \in RequestType :
                /\ request' = [request EXCEPT ![c] = q] /\ Follows(r, q)
                /\ q.slot = r.slot /\ Head(q.left) = "queue"
  <2>1. CASE s = r.slot
    <3>1. row'[s].status = "pending" /\ page'[s] = page[s]
      BY <1>1, <1>4, <2>1 DEF RowType
    <3> QED BY <1>4, <2>1, <3>1 DEF SlotInv, There
  <2>2. CASE s # r.slot
    <3>1. row'[s] = row[s] /\ page'[s] = page[s]
      BY <1>1, <1>4, <2>2
    <3>2. NoneLaunched(s) => NoneLaunched(s)'
      BY <1>1, <1>4, <2>2, LaunchedOwn
    <3> QED BY <1>1, <3>1, <3>2, SlotAlone DEF SlotInv
  <2> QED BY <2>1, <2>2
<1> QED BY <1>2, <1>3, <1>4, InsertStep

LEMMA SlotEnds ==
  ASSUME DeskShape, NEW s \in Slots, SlotInv(s), NEW c \in Clients,
         Name(c) \/ Edit(c) \/ RemoveProject(c) \/ RemoveSite(c)
  PROVE  SlotInv(s)'
<1> DEFINE x == request[c].slot
<1>1. /\ c \in Busy /\ request' = [request EXCEPT ![c] = Idle]
      /\ Name(c) \/ Edit(c) \/ RemoveProject(c) => x \in Slots
  BY NameStep, EditStep, RemoveStep DEF RemoveProject
<1>2. NoneLaunched(s) => NoneLaunched(s)'
  BY <1>1, LaunchedOwn, IdleTyped
<1>3. row \in [Slots -> RowType] /\ page \in [Slots -> PageType]
  BY DataOfShape DEF DeskData
<1>4. CASE Name(c) \/ Edit(c)
  <2>1. UNCHANGED <<page, messages, working>>
    BY <1>4 DEF Name, Edit
  <2>2. row'[s].status = row[s].status
    BY <1>1, <1>3, <1>4 DEF Name, Edit, RowType
  <2> QED BY <1>2, <2>1, <2>2, SlotAlone DEF SlotInv
<1>5. CASE RemoveProject(c)
  <2>1. row' = [row EXCEPT ![x] = NoRow] /\ UNCHANGED <<messages, working>>
    BY <1>5 DEF RemoveProject
  <2>2. page' = [page EXCEPT ![x] = IF request[c].purged \/ page[x].status = "none" THEN NoPage
                                    ELSE [page[x] EXCEPT !.owned = FALSE]]
    BY <1>5 DEF RemoveProject
  <2>3. CASE s = x
    <3>1. row'[s] = NoRow
      BY <1>1, <1>3, <1>5, <2>1, <2>3
    <3>2. page'[s].status = "none" => page'[s] = NoPage
      BY <1>1, <1>3, <1>5, <2>2, <2>3 DEF PageType
    <3> QED BY <3>1, <3>2 DEF SlotInv, NoRow, There
  <2>4. CASE s # x
    <3>1. row'[s] = row[s] /\ page'[s] = page[s]
      BY <1>3, <2>1, <2>2, <2>4
    <3> QED BY <1>2, <2>1, <3>1, SlotAlone DEF SlotInv
  <2> QED BY <2>3, <2>4
<1>6. CASE RemoveSite(c)
  <2>1. UNCHANGED <<messages, working>>
    BY <1>6 DEF RemoveSite
  <2>2. \/ UNCHANGED <<row, page>>
        \/ /\ row' = [y \in Slots |-> IF y \in request[c].locked THEN NoRow ELSE row[y]]
           /\ page' = [y \in Slots |-> IF y \in request[c].locked THEN NoPage ELSE page[y]]
    BY <1>6 DEF RemoveSite
  <2>3. \/ row'[s] = row[s] /\ page'[s] = page[s]
        \/ row'[s] = NoRow /\ page'[s] = NoPage
    BY <2>2
  <2>4. CASE row'[s] = row[s] /\ page'[s] = page[s]
    BY <1>2, <2>1, <2>4, SlotAlone DEF SlotInv
  <2>5. CASE row'[s] = NoRow /\ page'[s] = NoPage
    BY <2>5 DEF SlotInv, NoRow, NoPage, There
  <2> QED BY <2>3, <2>4, <2>5
<1> QED BY <1>4, <1>5, <1>6

LEMMA SlotOnce ==
  ASSUME DeskShape, NEW s \in Slots, SlotInv(s),
         NewDraft \/ \E x \in Slots : Archive(x) \/ Reset(x) \/ RetryPages(x) \/ RerunPage(x)
  PROVE  SlotInv(s)'
<1>1. AtOnce /\ UNCHANGED working
  BY DEF NewDraft, Archive, Reset, RetryPages, RerunPage
<1>2. InTheWay
  BY <1>1, AtOnceWay
<1>3. NoneLaunched(s) => NoneLaunched(s)'
  BY <1>2, LaunchedWaiting DEF InTheWay
<1>4. row \in [Slots -> RowType] /\ page \in [Slots -> PageType]
  BY DataOfShape DEF DeskData
<1>5. CASE NewDraft
  <2> DEFINE new == CHOOSE x \in Unused : TRUE
  <2>1. new \in Slots /\ page[new] = NoPage /\ new \notin messages \cup working
        /\ \A c \in Busy : request[c].slot # new
    BY <1>5 DEF NewDraft, Unused
  <2>2. PICK k \in Keys : row' = [row EXCEPT ![new] = [NoRow EXCEPT !.status = "draft", !.key = k]]
    BY <1>5 DEF NewDraft
  <2>3. UNCHANGED <<page, messages>>
    BY <1>5 DEF NewDraft
  <2> HIDE DEF new
  <2>4. CASE s = new
    <3>1. row'[s].status = "draft"
      BY <1>4, <2>1, <2>2, <2>4 DEF NoRow
    <3>2. NoneLaunched(s)
      BY <2>1, <2>4 DEF NoneLaunched
    <3> QED BY <1>1, <1>3, <2>1, <2>3, <2>4, <3>1, <3>2 DEF SlotInv, NoPage
  <2>5. CASE s # new
    <3>1. row'[s] = row[s]
      BY <1>4, <2>2, <2>5
    <3> QED BY <1>1, <1>3, <2>3, <3>1, SlotAlone DEF SlotInv
  <2> QED BY <2>4, <2>5
<1>6. ASSUME NEW x \in Slots, Archive(x)
      PROVE  SlotInv(s)'
  <2>1. UNCHANGED <<page, messages>> /\ row' = [row EXCEPT ![x].archived = ~@]
    BY <1>6 DEF Archive
  <2>2. row'[s].status = row[s].status
    BY <1>4, <2>1 DEF RowType
  <2> QED BY <1>1, <1>3, <2>1, <2>2, SlotAlone DEF SlotInv
<1>7. ASSUME NEW x \in Slots, Reset(x)
      PROVE  SlotInv(s)'
  <2>1. /\ UNCHANGED page /\ messages' \subseteq messages
        /\ row' = [row EXCEPT ![x].status = "failed", ![x].named = FALSE]
        /\ row[x].status \in {"pending", "generating"}
    BY <1>7, Revoking DEF Reset
  <2>2. CASE s = x
    <3>1. row'[s].status = "failed" /\ page'[s] = page[s]
      BY <1>4, <2>1, <2>2 DEF RowType
    <3> QED BY <2>1, <2>2, <3>1 DEF SlotInv, There
  <2>3. CASE s # x
    <3>1. row'[s] = row[s]
      BY <1>4, <2>1, <2>3
    <3> QED BY <1>1, <1>3, <2>1, <3>1, SlotAlone DEF SlotInv
  <2> QED BY <2>2, <2>3
<1>8. ASSUME NEW x \in Slots, RetryPages(x)
      PROVE  SlotInv(s)'
  <2>1. /\ There(x) /\ page[x].status = "failed" /\ page[x].owned
        /\ page' = [page EXCEPT ![x].status = "running"]
        /\ row' = [row EXCEPT ![x].status = "generating"]
        /\ messages' \subseteq messages \cup {x}
    BY <1>8 DEF RetryPages
  <2>2. CASE s = x
    <3>1. row'[s].status = "generating" /\ page'[s].status = "running" /\ page'[s].owned
      BY <1>4, <2>1, <2>2 DEF RowType, PageType
    <3> QED BY <3>1 DEF SlotInv
  <2>3. CASE s # x
    <3>1. row'[s] = row[s] /\ page'[s] = page[s]
      BY <1>4, <2>1, <2>3
    <3> QED BY <1>1, <1>3, <2>1, <2>3, <3>1, SlotAlone DEF SlotInv
  <2> QED BY <2>2, <2>3
<1>9. ASSUME NEW x \in Slots, RerunPage(x)
      PROVE  SlotInv(s)'
  <2>1. PICK cascade, accepted \in BOOLEAN :
           page' = [page EXCEPT ![x].status = "running", ![x].article = @ /\ ~cascade,
                                ![x].own = @ \/ accepted]
    BY <1>9 DEF RerunPage
  <2>2. page[x].status # "none" /\ UNCHANGED <<row, messages>>
    BY <1>9 DEF RerunPage
  <2>3. CASE s = x
    <3>1. page'[s].status = "running" /\ page'[s].owned = page[s].owned
      BY <1>4, <2>1, <2>3 DEF PageType
    <3>2. page[s] # NoPage /\ row'[s] = row[s]
      BY <2>2, <2>3 DEF NoPage
    <3> QED BY <2>2, <2>3, <3>1, <3>2 DEF SlotInv, There
  <2>4. CASE s # x
    <3>1. row'[s] = row[s] /\ page'[s] = page[s]
      BY <1>4, <2>1, <2>2, <2>4
    <3> QED BY <1>1, <1>3, <2>2, <3>1, SlotAlone DEF SlotInv
  <2> QED BY <2>3, <2>4
<1> QED BY <1>5, <1>6, <1>7, <1>8, <1>9

LEMMA SlotWorkers ==
  ASSUME DeskShape, NEW s \in Slots, SlotInv(s), NEW x \in Slots,
         Take(x) \/ OpenPage(x) \/ WriteArticle(x) \/ EndPage(x) \/ Finish(x) \/ Kill(x) \/ Requeue(x)
  PROVE  SlotInv(s)'
<1>1. request' \in [Clients -> RequestType] /\ \A d \in Clients : Waits(d)
  <2>1. CASE Take(x) \/ Finish(x)
    BY <2>1, LateWay DEF Take, Finish
  <2>2. CASE UNCHANGED request
    BY <2>2, NoStep DEF DeskShape
  <2> QED BY <2>1, <2>2 DEF OpenPage, WriteArticle, EndPage, Kill, Requeue
<1>2. NoneLaunched(s) => NoneLaunched(s)'
  BY <1>1, LaunchedWaiting
<1>3. row \in [Slots -> RowType] /\ page \in [Slots -> PageType]
  BY DataOfShape DEF DeskData
<1>4. CASE Take(x)
  <2>1. /\ x \in messages /\ messages' = messages \ {x} /\ UNCHANGED page
        /\ IF There(x)
           THEN row' = [row EXCEPT ![x].status = "generating"] /\ working' = working \cup {x}
           ELSE UNCHANGED <<row, working>>
    BY <1>4 DEF Take
  <2>2. CASE s = x /\ There(x)
    <3>1. row'[s].status = "generating" /\ page'[s] = page[s]
      BY <1>3, <2>1, <2>2 DEF RowType
    <3> QED BY <2>2, <3>1 DEF SlotInv, There
  <2>3. CASE s # x \/ ~There(x)
    <3>1. row'[s] = row[s] /\ (s \in working' => s \in working)
      BY <1>3, <2>1, <2>3
    <3> QED BY <1>2, <2>1, <3>1, SlotAlone DEF SlotInv
  <2> QED BY <2>2, <2>3
<1>5. CASE OpenPage(x)
  <2>1. /\ x \in working /\ UNCHANGED <<row, messages, working>>
        /\ page' = [page EXCEPT ![x] = [status |-> "running", site |-> row[x].site,
                                        article |-> FALSE, owned |-> TRUE, own |-> FALSE]]
    BY <1>5 DEF OpenPage
  <2>2. CASE s = x
    <3>1. page'[s].status = "running" /\ page'[s].owned /\ ~page'[s].article
      BY <1>3, <2>1, <2>2
    <3>2. There(x) /\ page[x] = NoPage
      BY <1>5 DEF OpenPage
    <3> QED BY <2>1, <2>2, <3>1, <3>2 DEF SlotInv, NoPage
  <2>3. CASE s # x
    <3>1. page'[s] = page[s]
      BY <1>3, <2>1, <2>3
    <3> QED BY <1>2, <2>1, <3>1, SlotAlone DEF SlotInv
  <2> QED BY <2>2, <2>3
<1>6. CASE WriteArticle(x)
  <2>1. /\ x \in working /\ page[x].status = "running" /\ UNCHANGED <<row, messages, working>>
        /\ page' = [page EXCEPT ![x].article = TRUE]
    BY <1>6 DEF WriteArticle
  <2>2. CASE s = x
    <3>1. page'[s].status = "running" /\ page'[s].owned = page[s].owned
      BY <1>3, <2>1, <2>2 DEF PageType
    <3> QED BY <2>1, <2>2, <3>1 DEF SlotInv, There
  <2>3. CASE s # x
    <3>1. page'[s] = page[s]
      BY <1>3, <2>1, <2>3
    <3> QED BY <1>2, <2>1, <3>1, SlotAlone DEF SlotInv
  <2> QED BY <2>2, <2>3
<1>7. CASE Finish(x)
  <2>1. /\ x \in working /\ working' = working \ {x} /\ UNCHANGED messages
        /\ page' = IF page[x].status # "running" THEN page
                   ELSE [page EXCEPT ![x].status = IF page[x].article THEN "done" ELSE "failed"]
        /\ row' = IF ~There(x) THEN row
                  ELSE [row EXCEPT ![x].status = IF page[x].article THEN "completed" ELSE "failed"]
    BY <1>7 DEF Finish
  <2>2. CASE s = x
    <3>1. row'[s].status = IF ~There(s) THEN "none"
                           ELSE IF page[s].article THEN "completed" ELSE "failed"
      BY <1>3, <2>1, <2>2 DEF RowType, There
    <3>2. /\ page'[s].status = IF page[s].status # "running" THEN page[s].status
                               ELSE IF page[s].article THEN "done" ELSE "failed"
          /\ page'[s].owned = page[s].owned
          /\ page[s].status # "running" => page'[s] = page[s]
      BY <1>3, <2>1, <2>2 DEF PageType
    <3>3. page'[s].status = "none" => page[s].status = "none" /\ page'[s] = page[s]
      BY <3>2
    <3>4. row'[s].status # "draft" /\ (There(s)' => There(s))
      BY <3>1 DEF There
    <3> QED BY <3>2, <3>3, <3>4 DEF SlotInv
  <2>3. CASE s # x
    <3>1. page'[s] = page[s] /\ row'[s] = row[s]
      BY <1>3, <2>1, <2>3
    <3> QED BY <1>2, <2>1, <3>1, SlotAlone DEF SlotInv
  <2> QED BY <2>2, <2>3
<1>8. CASE Kill(x)
  BY <1>2, <1>8, SlotAlone DEF SlotInv, Kill
<1>10. CASE EndPage(x)
  <2>1. PICK done \in BOOLEAN :
           page' = [page EXCEPT ![x].own = FALSE, ![x].article = @ \/ done,
                                ![x].status = IF done THEN "done" ELSE "failed"]
    BY <1>10 DEF EndPage
  <2>2. page[x].own /\ UNCHANGED <<row, messages, working>>
    BY <1>10 DEF EndPage
  <2>3. CASE s = x
    <3>1. page'[s].status \in {"done", "failed"} /\ page'[s].owned = page[s].owned
      BY <1>3, <2>1, <2>3 DEF PageType
    <3>2. page[s] # NoPage /\ row'[s] = row[s]
      BY <2>2, <2>3 DEF NoPage
    <3> QED BY <2>2, <2>3, <3>1, <3>2 DEF SlotInv, There, NoPage
  <2>4. CASE s # x
    <3>1. page'[s] = page[s]
      BY <1>3, <2>1, <2>4
    <3> QED BY <1>2, <2>2, <3>1, SlotAlone DEF SlotInv
  <2> QED BY <2>3, <2>4
<1>9. CASE Requeue(x)
  <2>1. UNCHANGED <<row, page, working>> /\ row[x].status = "pending"
        /\ messages' = messages \cup {x}
    BY <1>9 DEF Requeue
  <2> QED BY <1>2, <2>1, SlotAlone DEF SlotInv
<1> QED BY <1>4, <1>5, <1>6, <1>7, <1>8, <1>9, <1>10

LEMMA SlotStep ==
  ASSUME DeskShape, NEW s \in Slots, SlotInv(s), DeskNext
  PROVE  SlotInv(s)'
BY SlotAsks, SlotSteps, SlotInsert, SlotEnds, SlotOnce, SlotWorkers DEF DeskNext

-----------------------------------------------------------------------------
(* The desk: requests that no other overlaps.                              *)

\* Whoever is alone after a step of a request took it, and was alone before.
LEMMA LoneOwn ==
  ASSUME DeskInv, NEW c \in Busy, NEW q \in RequestType,
         request' = [request EXCEPT ![c] = q], q = Idle \/ Follows(request[c], q),
         NEW d \in Busy', request'[d].alone
  PROVE  /\ d = c /\ request'[d] = q /\ Follows(request[c], q)
         /\ Busy' = {d} /\ AloneInv(d)
<1>1. c \in Clients /\ d \in Clients /\ request \in [Clients -> RequestType]
  BY DEF Busy, DeskInv, DeskShape
<1>2. /\ request'[c] = q /\ (c \in Busy' <=> q.left # <<>>)
      /\ \A e \in Clients \ {c} : Waits(e) /\ (e \in Busy' <=> e \in Busy)
  BY <1>1, OwnStep
<1>3. d = c
  <2> SUFFICES ASSUME d # c PROVE FALSE
    OBVIOUS
  <2>1. request'[d] = request[d] /\ d \in Busy
    BY <1>1, <1>2, Waiting
  <2>2. Busy = {d}
    BY <2>1 DEF DeskInv, AloneInv
  <2> QED BY <2>2
<1>4. Follows(request[c], q)
  BY <1>2, <1>3, IdleTyped
<1>5. AloneInv(c)
  BY <1>2, <1>3, <1>4 DEF Follows, DeskInv
<1>6. Busy' = {d}
  <2>1. \A e \in Clients : e \in Busy' => e = c
    BY <1>2, <1>5 DEF AloneInv
  <2> QED BY <1>3, <2>1 DEF Busy
<1> QED BY <1>2, <1>3, <1>4, <1>5, <1>6

LEMMA LoneAsked ==
  ASSUME DeskInv, NEW c \in Clients, NEW op, Asked(c, op), NEW d \in Busy', request'[d].alone
  PROVE  d = c /\ Busy' = {d}
<1>1. d \in Busy \/ d = c
  BY DEF Asked
<1>2. Busy \subseteq Clients
  BY DEF Busy
<1> QED BY <1>1, <1>2 DEF Asked

LEMMA LoneInTheWay ==
  ASSUME InTheWay, NEW d \in Busy', request'[d].alone
  PROVE  FALSE
BY DEF InTheWay, Busy

LEMMA AloneAsks ==
  ASSUME DeskInv, NEW c \in Clients,
         \/ AskCreate(c) \/ AskLaunch(c) \/ AskClone(c) \/ AskStart(c) \/ AskEdit(c)
         \/ AskDelete(c) \/ AskDeleteSite(c),
         NEW d \in Busy', request'[d].alone
  PROVE  AloneInv(d)'
<1>1. UNCHANGED <<row, page, working>> /\ DeskShape
  BY DEF AskCreate, AskLaunch, AskClone, AskStart, AskEdit, AskDelete, AskDeleteSite, DeskInv
<1>2. /\ Head(Path["create"]) = "resolve" /\ Head(Path["launch"]) = "resolve"
      /\ Head(Path["copyto"]) = "resolve" /\ Head(Path["clone"]) = "check"
      /\ Head(Path["start"]) = "worker" /\ Head(Path["edit"]) = "edit"
      /\ Head(Path["delete"]) = "articles" /\ Head(Path["site"]) = "remove"
  BY PathLefts, Lefts DEF Goes
<1>3. ASSUME NEW op \in Handlers \ {"launch", "edit", "delete"}, Asked(c, op)
      PROVE  AloneInv(d)'
  <2>1. d = c /\ Busy' = {d} /\ request'[d].op = op /\ request'[d].left = Path[op]
    BY <1>3, LoneAsked DEF Asked
  <2>2. ~Checked(request'[d])
    BY <1>2, <2>1 DEF Checked, Handlers
  <2> QED BY <2>1, <2>2 DEF AloneInv, Handlers
<1>4. CASE AskCreate(c)
  BY <1>1, <1>3, <1>4, AskedCreate DEF Handlers
<1>5. CASE AskLaunch(c)
  <2>1. /\ Asked(c, "launch") /\ row[request'[c].slot].key = request'[c].key
    BY <1>1, <1>5, AskedLaunch
  <2>2. d = c /\ Busy' = {d} /\ request'[d].op = "launch" /\ request'[d].left = Path["launch"]
    BY <2>1, LoneAsked DEF Asked
  <2>3. ~Checked(request'[d])
    BY <1>2, <2>2 DEF Checked
  <2> QED BY <1>1, <2>1, <2>2, <2>3 DEF AloneInv
<1>6. CASE AskClone(c)
  BY <1>1, <1>3, <1>6, AskedClone DEF Handlers
<1>7. CASE AskStart(c)
  BY <1>1, <1>3, <1>7, AskedStart DEF Handlers
<1>8. CASE AskEdit(c)
  <2>1. Asked(c, "edit") /\ row[request'[c].slot].status = "draft"
    BY <1>1, <1>8, AskedEdit
  <2>2. d = c /\ Busy' = {d} /\ request'[d].op = "edit" /\ request'[d].left = Path["edit"]
    BY <2>1, LoneAsked DEF Asked
  <2>3. ~Checked(request'[d])
    BY <1>2, <2>2 DEF Checked
  <2> QED BY <1>1, <2>1, <2>2, <2>3 DEF AloneInv
<1>9. CASE AskDelete(c)
  <2> DEFINE s == request'[c].slot
  <2>1. /\ Asked(c, "delete") /\ s \in Slots /\ There(s)
        /\ ~request'[c].force => row[s].status \notin {"pending", "generating"}
        /\ request'[c].alone => s \notin working /\ ~page[s].own
    BY <1>1, <1>9, AskedDelete
  <2>2. d = c /\ Busy' = {d} /\ request'[d].op = "delete" /\ request'[d].left = Path["delete"]
    BY <2>1, LoneAsked DEF Asked
  <2>3. ~Checked(request'[d]) /\ Head(request'[d].left) = "articles"
    BY <1>2, <2>2 DEF Checked
  <2>4. row[s].status \in {"none", "draft", "pending", "generating", "completed", "failed"}
        /\ SlotInv(s)
    BY <2>1, DataOfShape DEF DeskInv, DeskData, RowType
  <2>5. ~request'[d].force => Deletable(request[d])'
    BY <1>1, <2>1, <2>2, <2>3, <2>4 DEF Deletable, Quiescent, There
  <2> QED BY <2>2, <2>3, <2>5 DEF AloneInv
<1>10. CASE AskDeleteSite(c)
  <2>1. Asked(c, "site") \/ InTheWay
    BY <1>1, <1>10, AskedDeleteSite
  <2> QED BY <1>3, <2>1, LoneInTheWay DEF Handlers
<1> QED BY <1>4, <1>5, <1>6, <1>7, <1>8, <1>9, <1>10, SMTT(30)

\* A step that leaves the projects alone.
LEMMA AloneSteps ==
  ASSUME DeskInv, NEW c \in Clients,
         \/ Resolve(c) \/ NewSite(c) \/ Check(c) \/ Worker(c) \/ Queue(c)
         \/ PurgeArticles(c) \/ PurgeTasks(c),
         NEW d \in Busy', request'[d].alone
  PROVE  AloneInv(d)'
<1> DEFINE r == request[c]
<1>1. UNCHANGED <<row, page, working>> /\ c \in Busy /\ DeskShape
  BY DEF Resolve, NewSite, Check, Worker, Queue, PurgeArticles, PurgeTasks, At, DeskInv
<1>2. OnItsWay(r)
  BY <1>1, BusyFacts
<1>3. CASE Resolve(c)
  <2>1. PICK q \in RequestType :
          /\ request' = [request EXCEPT ![c] = q] /\ Follows(r, q)
          /\ q.slot = r.slot /\ r.op # "delete"
          /\ \/ Head(q.left) = "check"
             \/ Head(q.left) = "newsite" /\ sites = {}
    BY <1>1, <1>3, ResolveStep
  <2>2. d = c /\ request'[d] = q /\ Busy' = {d} /\ AloneInv(c)
    BY <1>1, <2>1, LoneOwn
  <2>3. Head(r.left) = "resolve"
    BY <1>3 DEF Resolve, At
  <2>4. r.op \in {"create", "launch", "copyto", "clone"} /\ (r.op = "launch" => ~Launched(r))
    BY <1>2, <2>3, WhoIsThere DEF Launched
  <2>5. ~Checked(q)
    BY <2>1 DEF Checked
  <2> QED BY <1>1, <2>1, <2>2, <2>4, <2>5 DEF AloneInv, Follows
<1>4. CASE NewSite(c)
  <2>1. PICK q \in RequestType, site \in SiteRows \ sites :
          /\ request' = [request EXCEPT ![c] = q] /\ Follows(r, q)
          /\ q.slot = r.slot /\ r.op # "delete"
          /\ Head(q.left) = "check" /\ sites' = sites \cup {site}
    BY <1>1, <1>4, NewSiteStep
  <2>2. d = c /\ request'[d] = q /\ Busy' = {d} /\ AloneInv(c)
    BY <1>1, <2>1, LoneOwn
  <2>3. Head(r.left) = "newsite"
    BY <1>4 DEF NewSite, At
  <2>4. r.op \in {"create", "launch", "copyto", "clone"} /\ (r.op = "launch" => ~Launched(r))
    BY <1>2, <2>3, WhoIsThere DEF Launched
  <2>5. ~Checked(q)
    BY <2>1 DEF Checked
  <2> QED BY <1>1, <2>1, <2>2, <2>4, <2>5 DEF AloneInv, Follows
<1>5. CASE Check(c)
  <2>1. PICK q \in RequestType :
          /\ request' = [request EXCEPT ![c] = q]
          /\ \/ q = Idle
             \/ /\ Follows(r, q) /\ q.slot = r.slot /\ q.site = r.site
                /\ Head(q.left) \in {"insert", "worker"}
                /\ r.op \in {"create", "launch", "copyto", "clone"}
                /\ \A s \in Slots \ {q.slot} : ~Same(s, q.site, q.key)
    BY <1>1, <1>5, CheckStep, IdleTyped
  <2>2. d = c /\ request'[d] = q /\ Busy' = {d} /\ AloneInv(c) /\ Follows(r, q)
    BY <1>1, <2>1, LoneOwn
  <2>3. Head(r.left) = "check" /\ q.left # <<>>
    BY <1>5, <2>2 DEF Check, At, Follows
  <2>4. q # Idle
    BY <2>3, IdleTyped
  <2>5. r.op = "launch" => ~Launched(r)
    BY <2>3 DEF Launched
  <2>6. \A s \in Slots \ {q.slot} : ~Same(s, q.site, q.key)'
    BY <1>1, <2>1, <2>4 DEF Same
  <2> QED BY <1>1, <2>1, <2>2, <2>4, <2>5, <2>6 DEF AloneInv, Follows, Same
<1>6. CASE Worker(c)
  <2>1. PICK q \in RequestType :
          /\ request' = [request EXCEPT ![c] = q]
          /\ \/ q = Idle
             \/ /\ Follows(r, q) /\ q.slot = r.slot /\ q.site = r.site
                /\ r.op \in {"create", "launch", "start"}
                /\ \/ Head(q.left) = "queue" /\ r.op # "launch"
                   \/ Head(q.left) = "insert" /\ r.op = "launch"
    BY <1>1, <1>6, WorkerStep, IdleTyped
  <2>2. d = c /\ request'[d] = q /\ Busy' = {d} /\ AloneInv(c) /\ Follows(r, q)
    BY <1>1, <2>1, LoneOwn
  <2>3. Head(r.left) = "worker" /\ q.left # <<>>
    BY <1>6, <2>2 DEF Worker, At, Follows
  <2>4. q # Idle
    BY <2>3, IdleTyped
  <2>5. r.op = "launch" => ~Launched(r) /\ Checked(r)
    BY <2>3 DEF Launched, Checked
  <2>6. Checked(q) => r.op = "launch"
    BY <2>1, <2>4 DEF Checked, Follows
  <2>7. Checked(q) => \A s \in Slots \ {q.slot} : ~Same(s, q.site, q.key)'
    BY <1>1, <2>1, <2>2, <2>4, <2>5, <2>6 DEF AloneInv, Same, Follows
  <2> QED BY <1>1, <2>1, <2>2, <2>4, <2>5, <2>7 DEF AloneInv, Follows, Same
<1>7. CASE Queue(c)
  <2>1. PICK q \in RequestType :
          /\ request' = [request EXCEPT ![c] = q]
          /\ \/ q = Idle
             \/ /\ Follows(r, q) /\ q.slot = r.slot /\ Head(q.left) = "name"
                /\ r.op \in {"create", "launch", "start"}
    BY <1>1, <1>7, QueueStep, IdleTyped
  <2>2. d = c /\ request'[d] = q /\ Busy' = {d} /\ Follows(r, q)
    BY <1>1, <2>1, LoneOwn
  <2>3. q # Idle
    BY <2>2, IdleTyped DEF Follows
  <2>4. ~Checked(q) /\ (q.op = "launch" => Launched(q))
    BY <2>1, <2>3 DEF Checked, Launched
  <2> QED BY <2>1, <2>2, <2>3, <2>4 DEF AloneInv, Follows, Launched
<1>8. CASE PurgeArticles(c)
  <2>1. PICK q \in RequestType :
          /\ request' = [request EXCEPT ![c] = q] /\ Follows(r, q)
          /\ q.slot = r.slot /\ Head(q.left) = "tasks" /\ r.op = "delete"
          /\ q.locked = IF Mine(q.slot) /\ page[q.slot].article THEN {q.slot} ELSE {}
    BY <1>1, <1>8, ArticlesStep
  <2>2. d = c /\ request'[d] = q /\ Busy' = {d} /\ AloneInv(c)
    BY <1>1, <2>1, LoneOwn
  <2>3. ~Checked(q) /\ q.op = "delete" /\ q.force = r.force
    BY <2>1 DEF Checked, Follows
  <2>4. ~r.force => Deletable(r)
    BY <2>1, <2>2 DEF AloneInv
  <2>5. ~q.force => Deletable(request[d])'
    BY <1>1, <2>1, <2>2, <2>3, <2>4 DEF Deletable, Quiescent, Mine
  <2> QED BY <2>2, <2>3, <2>5 DEF AloneInv
<1>9. CASE PurgeTasks(c)
  <2>1. r.slot \in Slots /\ r.op = "delete"
    BY <1>1, <1>9, TasksStep
  <2>2. PICK q \in RequestType :
          /\ request' = [request EXCEPT ![c] = q]
          /\ \/ q = Idle
             \/ /\ Follows(r, q) /\ q.slot = r.slot /\ Head(q.left) = "remove"
                /\ Mine(r.slot) => q.purged
    BY <1>1, <1>9, TasksStep, IdleTyped
  <2>3. d = c /\ request'[d] = q /\ Busy' = {d} /\ AloneInv(c) /\ Follows(r, q)
    BY <1>1, <2>2, LoneOwn
  <2>4. q # Idle
    BY <2>3, IdleTyped DEF Follows
  <2>5. ~Checked(q) /\ q.op = "delete" /\ q.force = r.force
    BY <2>1, <2>2, <2>4 DEF Checked, Follows
  <2>6. ~r.force => Deletable(r)
    BY <2>1, <2>3 DEF AloneInv
  <2>7. SlotInv(r.slot)
    BY <2>1 DEF DeskInv
  <2>8. ~q.force => Deletable(request[d])'
    BY <1>1, <2>2, <2>3, <2>4, <2>5, <2>6, <2>7 DEF Deletable, Quiescent, There, Mine, SlotInv
  <2> QED BY <2>3, <2>5, <2>8 DEF AloneInv
<1> QED BY <1>3, <1>4, <1>5, <1>6, <1>7, <1>8, <1>9, Zenon

LEMMA AloneInsert ==
  ASSUME DeskInv, NEW c \in Clients, Insert(c), NEW d \in Busy', request'[d].alone
  PROVE  AloneInv(d)'
<1>1. DeskShape /\ c \in Busy
  BY DEF DeskInv, Insert, At
<1>2. PICK q \in RequestType :
        /\ request' = [request EXCEPT ![c] = q]
        /\ \/ q = Idle
           \/ Follows(request[c], q) /\ q.op = "create" /\ Head(q.left) = "worker"
           \/ Follows(request[c], q) /\ q.op = "launch" /\ Head(q.left) = "queue"
  <2> DEFINE r == request[c]
  <2>1. \/ request' = [request EXCEPT ![c] = Idle]
        \/ \E q \in RequestType :
             /\ request' = [request EXCEPT ![c] = q]
             /\ \/ q = Idle
                \/ Follows(r, q) /\ q.op = "create" /\ Head(q.left) = "worker"
        \/ r.op = "launch" /\ \E q \in RequestType :
             request' = [request EXCEPT ![c] = q] /\ Follows(r, q) /\ Head(q.left) = "queue"
    BY <1>1, InsertStep
  <2>2. \A q : Follows(r, q) => q.op = r.op
    BY DEF Follows
  <2> QED BY <2>1, <2>2, IdleTyped, SMTT(30)
<1>3. d = c /\ request'[d] = q /\ Busy' = {d} /\ Follows(request[c], q)
  BY <1>1, <1>2, LoneOwn
<1>4. q # Idle
  BY <1>3, IdleTyped DEF Follows
<1>5. ~Checked(q) /\ (q.op = "launch" => Launched(q)) /\ q.op \in {"create", "launch"}
  BY <1>2, <1>4 DEF Checked, Launched
<1> QED BY <1>3, <1>5 DEF AloneInv, Launched

LEMMA AloneEnds ==
  ASSUME DeskInv, NEW c \in Clients,
         Name(c) \/ Edit(c) \/ RemoveProject(c) \/ RemoveSite(c),
         NEW d \in Busy', request'[d].alone
  PROVE  AloneInv(d)'
<1>1. c \in Busy /\ request' = [request EXCEPT ![c] = Idle]
  BY NameStep, EditStep, RemoveStep DEF DeskInv
<1>2. Follows(request[c], Idle)
  BY <1>1, LoneOwn, IdleTyped
<1> QED BY <1>2, IdleTyped DEF Follows

\* What workers leave as it was.
LEMMA WorkerKeeps ==
  ASSUME DeskInv, NEW x \in Slots, NEW s \in Slots,
         \/ (Take(x) \/ Finish(x)) /\ row[x].status # "failed"
         \/ OpenPage(x) \/ WriteArticle(x) \/ EndPage(x) \/ Kill(x) \/ Requeue(x)
  PROVE  /\ row'[s].key = row[s].key /\ row'[s].site = row[s].site
         /\ Active(row'[s]) => Active(row[s])
         /\ row[s].status = "draft" => row'[s].status = "draft"
         /\ Quiescent(s) /\ (Take(x) => row[x].status # "completed") =>
              page'[s] = page[s] /\ Quiescent(s)'
<1>1. /\ row \in [Slots -> RowType] /\ page \in [Slots -> PageType]
      /\ row[s] \in RowType /\ page[s] \in PageType /\ SlotInv(s) /\ DeskShape
  BY DataOfShape DEF DeskInv, DeskData
<1>2. CASE Take(x) /\ row[x].status # "failed"
  <2>1. /\ UNCHANGED page /\ x \in messages
        /\ IF There(x)
           THEN row' = [row EXCEPT ![x].status = "generating"] /\ working' = working \cup {x}
           ELSE UNCHANGED <<row, working>>
    BY <1>2 DEF Take
  <2>2. CASE s = x /\ There(x)
    <3>1. /\ row'[s].status = "generating" /\ row'[s].key = row[s].key
          /\ row'[s].site = row[s].site /\ row'[s].archived = row[s].archived
      BY <1>1, <2>1, <2>2 DEF RowType
    <3>2. row[s].status \notin {"none", "draft", "failed"}
      BY <1>1, <1>2, <2>1, <2>2 DEF SlotInv, There
    <3> QED BY <1>2, <2>1, <2>2, <3>1, <3>2 DEF Active, Quiescent
  <2>3. CASE s # x \/ ~There(x)
    <3>1. row'[s] = row[s] /\ (s \in working' => s \in working)
      BY <1>1, <2>1, <2>3
    <3> QED BY <2>1, <3>1 DEF Quiescent
  <2> QED BY <2>2, <2>3
<1>3. CASE Finish(x) /\ row[x].status # "failed"
  <2>1. /\ x \in working /\ working' = working \ {x}
        /\ page' = IF page[x].status # "running" THEN page
                   ELSE [page EXCEPT ![x].status = IF page[x].article THEN "done" ELSE "failed"]
        /\ row' = IF ~There(x) THEN row
                  ELSE [row EXCEPT ![x].status = IF page[x].article THEN "completed" ELSE "failed"]
    BY <1>3 DEF Finish
  <2>2. CASE s = x
    <3>1. /\ row'[s].status = IF ~There(s) THEN row[s].status
                              ELSE IF page[s].article THEN "completed" ELSE "failed"
          /\ row'[s].key = row[s].key
          /\ row'[s].site = row[s].site /\ row'[s].archived = row[s].archived
      BY <1>1, <2>1, <2>2 DEF RowType
    <3>2. row[s].status \notin {"draft", "failed"}
      BY <1>1, <1>3, <2>1, <2>2 DEF SlotInv
    <3>3. ~Quiescent(s)
      BY <2>1, <2>2 DEF Quiescent
    <3> QED BY <3>1, <3>2, <3>3 DEF Active, There
  <2>3. CASE s # x
    <3>1. row'[s] = row[s] /\ page'[s] = page[s]
      BY <1>1, <2>1, <2>3
    <3> QED BY <2>1, <2>3, <3>1 DEF Quiescent
  <2> QED BY <2>2, <2>3
<1>4. CASE OpenPage(x) \/ WriteArticle(x) \/ EndPage(x)
  <2>1. UNCHANGED <<row, working>> /\ ~Quiescent(x)
    BY <1>4 DEF OpenPage, WriteArticle, EndPage, Quiescent
  <2>2. s # x => page'[s] = page[s]
    BY <1>1, <1>4 DEF OpenPage, WriteArticle, EndPage
  <2> QED BY <2>1, <2>2 DEF Quiescent
<1>5. CASE Kill(x) \/ Requeue(x)
  BY <1>5 DEF Kill, Requeue, Quiescent
<1> QED BY <1>2, <1>3, <1>4, <1>5

LEMMA AloneWorkers ==
  ASSUME DeskInv, NEW x \in Slots,
         Take(x) \/ OpenPage(x) \/ WriteArticle(x) \/ EndPage(x) \/ Finish(x) \/ Kill(x) \/ Requeue(x),
         NEW d \in Busy', request'[d].alone
  PROVE  AloneInv(d)'
<1>1. /\ UNCHANGED request
      /\ \/ (Take(x) \/ Finish(x)) /\ row[x].status # "failed"
         \/ OpenPage(x) \/ WriteArticle(x) \/ EndPage(x) \/ Kill(x) \/ Requeue(x)
      /\ Take(x) => row[x].status # "completed"
  <2>1. CASE Take(x) \/ Finish(x)
    BY <2>1, LateWay, LoneInTheWay DEF Take, Finish, DeskInv
  <2> QED BY <2>1 DEF OpenPage, WriteArticle, EndPage, Kill, Requeue
<1>2. Busy' = Busy /\ request'[d] = request[d] /\ AloneInv(d) /\ DeskShape /\ d \in Busy
  BY <1>1 DEF Busy, DeskInv
<1> DEFINE r == request[d]
<1>3. \A s \in Slots :
        /\ row'[s].key = row[s].key /\ row'[s].site = row[s].site
        /\ Active(row'[s]) => Active(row[s])
        /\ row[s].status = "draft" => row'[s].status = "draft"
        /\ Quiescent(s) => page'[s] = page[s] /\ Quiescent(s)'
  BY <1>1, WorkerKeeps
<1>4. /\ r.op \in {"delete", "edit", "launch"} => r.slot \in Slots
      /\ Launched(r)' <=> Launched(r)
  BY <1>2, BusyFacts, WhoIsThere DEF Launched, OnItsWay
<1>5. Checked(r) => \A s \in Slots \ {r.slot} : ~Same(s, r.site, r.key)'
  BY <1>1, <1>2, <1>3 DEF AloneInv, Same
<1>6. r.op = "launch" => Launched(r) \/ row'[r.slot].key = r.key
  BY <1>2, <1>3, <1>4 DEF AloneInv
<1>7. r.op = "edit" => row'[r.slot].status = "draft"
  BY <1>2, <1>3, <1>4 DEF AloneInv
<1>8. r.op = "delete" /\ ~r.force => Deletable(request[d])'
  <2> SUFFICES ASSUME r.op = "delete", ~r.force PROVE Deletable(request[d])'
    OBVIOUS
  <2>1. Deletable(r) /\ r.slot \in Slots
    BY <1>2, <1>4 DEF AloneInv
  <2>2. PICK s \in Slots : s = r.slot /\ Quiescent(s)
    BY <2>1 DEF Deletable
  <2>3. page'[s] = page[s] /\ Quiescent(s)'
    BY <1>3, <2>2
  <2> QED BY <1>2, <2>1, <2>2, <2>3 DEF Deletable, Quiescent, Mine
<1> QED BY <1>2, <1>5, <1>6, <1>7, <1>8 DEF AloneInv, Launched, Checked, Same

LEMMA AloneOnce ==
  ASSUME DeskInv,
         NewDraft \/ \E s \in Slots : Archive(s) \/ Reset(s) \/ RetryPages(s) \/ RerunPage(s),
         NEW d \in Busy', request'[d].alone
  PROVE  AloneInv(d)'
BY AtOnceWay, LoneInTheWay DEF NewDraft, Archive, Reset, RetryPages, RerunPage, DeskInv

LEMMA AloneStep ==
  ASSUME DeskInv, DeskNext, NEW d \in Busy', request'[d].alone
  PROVE  AloneInv(d)'
BY AloneAsks, AloneSteps, AloneInsert, AloneEnds, AloneWorkers, AloneOnce DEF DeskNext

-----------------------------------------------------------------------------
(* The desk: what its requests keep.                                       *)

LEMMA DeskOpens == DeskInit => DeskInv
<1> SUFFICES ASSUME DeskInit PROVE DeskInv
  OBVIOUS
<1>1. DeskShape /\ Busy = {}
  BY ShapeInit, IdleTyped DEF DeskInit, Busy
<1>2. \A s \in Slots : SlotInv(s)
  BY DEF DeskInit, SlotInv, NoRow, NoPage, There
<1> QED BY <1>1, <1>2 DEF DeskInv

LEMMA DeskStays == DeskInv /\ UNCHANGED deskVars => DeskInv'
<1> SUFFICES ASSUME DeskInv, UNCHANGED deskVars PROVE DeskInv'
  OBVIOUS
<1>1. DeskShape'
  BY ShapeStutter DEF DeskInv
<1>2. \A s \in Slots : SlotInv(s)'
  BY DEF DeskInv, deskVars, SlotInv, There, NoneLaunched, Busy, Launched
<1>3. Busy' = Busy /\ \A d \in Busy : AloneInv(d) => AloneInv(d)'
  BY DEF deskVars, AloneInv, Busy, Launched, Checked, Same, Deletable, Quiescent, There, Mine
<1> QED BY <1>1, <1>2, <1>3 DEF DeskInv, deskVars

LEMMA DeskStep == DeskInv /\ [DeskNext]_deskVars => DeskInv'
<1> SUFFICES ASSUME DeskInv, DeskNext PROVE DeskInv'
  BY DeskStays
<1>1. DeskShape'
  BY ShapeStep DEF DeskInv
<1>2. \A s \in Slots : SlotInv(s)'
  BY SlotStep DEF DeskInv
<1>3. \A d \in Busy' : request'[d].alone => AloneInv(d)'
  BY AloneStep
<1> QED BY <1>1, <1>2, <1>3 DEF DeskInv

\* A request in progress stays where it is unless it takes a step.
LEMMA StaysInPlace ==
  ASSUME DeskInv, NEW c \in Busy, request[c].alone, DeskNext,
         ~(\/ Resolve(c) \/ NewSite(c) \/ Check(c) \/ Insert(c) \/ Worker(c) \/ Queue(c) \/ Name(c)
           \/ Edit(c) \/ PurgeArticles(c) \/ PurgeTasks(c) \/ RemoveProject(c) \/ RemoveSite(c))
  PROVE  request'[c].left = request[c].left
<1>1. DeskShape /\ Busy = {c} /\ c \in Clients /\ request \in [Clients -> RequestType]
  BY DEF DeskInv, AloneInv, Busy, DeskShape
<1>2. SUFFICES Waits(c)
  BY <1>1, Waiting
<1>3. ASSUME NEW d \in Clients,
             \/ AskCreate(d) \/ AskLaunch(d) \/ AskClone(d) \/ AskStart(d) \/ AskEdit(d)
             \/ AskDelete(d) \/ AskDeleteSite(d)
      PROVE  Waits(c)
  <2>1. InTheWay \/ \E op : Asked(d, op)
    BY <1>1, <1>3, AskedCreate, AskedLaunch, AskedClone, AskedStart, AskedEdit, AskedDelete,
       AskedDeleteSite
  <2> QED BY <1>1, <2>1 DEF InTheWay, Asked
<1>4. ASSUME NEW d \in Clients,
             \/ Resolve(d) \/ NewSite(d) \/ Check(d) \/ Insert(d) \/ Worker(d) \/ Queue(d)
             \/ Name(d) \/ Edit(d) \/ PurgeArticles(d) \/ PurgeTasks(d) \/ RemoveProject(d)
             \/ RemoveSite(d)
      PROVE  Waits(c)
  <2>1. d \in Busy
    BY <1>4, ZenonT(30) DEF Resolve, NewSite, Check, Insert, Worker, Queue, Name, Edit, PurgeArticles,
                PurgeTasks, RemoveProject, RemoveSite, At
  <2>2. d = c
    BY <1>1, <2>1
  <2> QED BY <1>4, <2>2, SMTT(30)
<1>5. CASE NewDraft \/ \E s \in Slots : Archive(s) \/ Reset(s) \/ RetryPages(s) \/ RerunPage(s)
  BY <1>1, <1>5, AtOnceWay DEF NewDraft, Archive, Reset, RetryPages, RerunPage, InTheWay
<1>6. ASSUME NEW s \in Slots, Take(s) \/ OpenPage(s) \/ WriteArticle(s) \/ EndPage(s) \/ Finish(s) \/ Kill(s)
                                \/ Requeue(s)
      PROVE  Waits(c)
  <2>1. CASE Take(s) \/ Finish(s)
    BY <1>1, <2>1, LateWay DEF Take, Finish
  <2>2. CASE UNCHANGED request
    BY <1>1, <2>2, NoStep
  <2> QED BY <1>6, <2>1, <2>2 DEF OpenPage, WriteArticle, EndPage, Kill, Requeue
<1> QED BY <1>3, <1>4, <1>5, <1>6 DEF DeskNext

\* What DeleteClean and NoTwin say of a step.
CleanDelete(c) ==
  request[c].op = "delete" /\ ~request[c].force /\ request[c].alone =>
    /\ At(c, "tasks") => request'[c].left # <<>>
    /\ At(c, "remove") /\ request'[c].left = <<>> => page'[request[c].slot] = NoPage

Excused(st) ==
  \/ \E s \in {st[1], st[2]} : row[s].archived \/ row[s].status = "failed"
  \/ \E c \in Busy : ~request[c].alone

LEMMA CleanStep == DeskInv /\ [DeskNext]_deskVars => [\A c \in Busy : CleanDelete(c)]_deskVars
<1> SUFFICES ASSUME DeskInv, DeskNext, NEW c \in Busy, request[c].op = "delete",
                    ~request[c].force, request[c].alone
             PROVE  /\ At(c, "tasks") => request'[c].left # <<>>
                    /\ At(c, "remove") /\ request'[c].left = <<>>
                         => page'[request[c].slot] = NoPage
  BY DEF CleanDelete
<1> DEFINE r == request[c]
<1>1. /\ c \in Clients /\ OnItsWay(r) /\ r.left # <<>> /\ DeskShape /\ Deletable(r)
      /\ r.slot \in Slots /\ SlotInv(r.slot)
  BY BusyFacts, WhoIsThere DEF DeskInv, AloneInv
<1>2. ASSUME At(c, "tasks")
      PROVE  request'[c].left # <<>>
  <2>1. Head(r.left) = "tasks"
    BY <1>2 DEF At
  <2>2. CASE PurgeTasks(c)
    <3>1. ~(Mine(r.slot) /\ page[r.slot].article /\ r.slot \notin r.locked)
      BY <1>1, <2>1 DEF Deletable
    <3>2. PICK q \in RequestType : request' = [request EXCEPT ![c] = q] /\ Follows(r, q)
      BY <1>1, <2>2, <3>1, TasksStep
    <3>3. request'[c] = q
      BY <1>1, <3>2, OwnStep DEF DeskShape
    <3> QED BY <3>2, <3>3 DEF Follows
  <2>3. CASE ~PurgeTasks(c)
    <3>1. ~(\/ Resolve(c) \/ NewSite(c) \/ Check(c) \/ Insert(c) \/ Worker(c) \/ Queue(c)
            \/ Name(c) \/ Edit(c) \/ PurgeArticles(c) \/ PurgeTasks(c) \/ RemoveProject(c)
            \/ RemoveSite(c))
      BY <2>1, <2>3 DEF Resolve, NewSite, Check, Insert, Worker, Queue, Name, Edit,
                        PurgeArticles, RemoveProject, RemoveSite, At
    <3> QED BY <1>1, <3>1, StaysInPlace
  <2> QED BY <2>2, <2>3
<1>3. ASSUME At(c, "remove"), request'[c].left = <<>>
      PROVE  page'[r.slot] = NoPage
  <2>1. Head(r.left) = "remove"
    BY <1>3 DEF At
  <2>2. r.purged \/ page[r.slot].status = "none"
    BY <1>1, <2>1 DEF Deletable
  <2>3. RemoveProject(c) \/ RemoveSite(c)
    <3>1. SUFFICES ASSUME ~RemoveProject(c), ~RemoveSite(c) PROVE FALSE
      OBVIOUS
    <3>2. ~(\/ Resolve(c) \/ NewSite(c) \/ Check(c) \/ Insert(c) \/ Worker(c) \/ Queue(c)
            \/ Name(c) \/ Edit(c) \/ PurgeArticles(c) \/ PurgeTasks(c) \/ RemoveProject(c)
            \/ RemoveSite(c))
      BY <2>1, <3>1 DEF Resolve, NewSite, Check, Insert, Worker, Queue, Name, Edit,
                        PurgeArticles, PurgeTasks, At
    <3>3. request'[c].left = r.left
      BY <3>2, StaysInPlace
    <3> QED BY <1>1, <1>3, <3>3
  <2>4. RemoveProject(c)
    BY <2>3 DEF RemoveSite
  <2>5. page' = [page EXCEPT ![r.slot] =
                   IF r.purged \/ page[r.slot].status = "none" THEN NoPage
                   ELSE [page[r.slot] EXCEPT !.owned = FALSE]]
    BY <2>4 DEF RemoveProject
  <2> QED BY <1>1, <2>2, <2>5, DataOfShape DEF DeskData
<1> QED BY <1>2, <1>3

\* No pair comes of a step that makes no project active.
LEMMA NoneNew ==
  ASSUME NEW st \in Twins' \ Twins,
         \A s \in Slots : Active(row'[s]) =>
           \/ Active(row[s]) /\ row'[s].site = row[s].site /\ row'[s].key = row[s].key
           \/ row[s].archived \/ row[s].status = "failed"
  PROVE  Excused(st)
<1>1. /\ st \in Slots \X Slots /\ st[1] # st[2] /\ st[1] \in Slots /\ st[2] \in Slots
      /\ Active(row'[st[1]]) /\ Active(row'[st[2]])
      /\ row'[st[2]].site = row'[st[1]].site /\ row'[st[2]].key = row'[st[1]].key
  BY DEF Twins, Same
<1>2. ~(Active(row[st[1]]) /\ Active(row[st[2]])
          /\ row[st[2]].site = row[st[1]].site /\ row[st[2]].key = row[st[1]].key)
  BY <1>1 DEF Twins, Same
<1> QED BY <1>1, <1>2 DEF Excused

LEMMA TwinStep ==
  DeskInv /\ [DeskNext]_deskVars => [\A st \in Twins' \ Twins : Excused(st)]_deskVars
<1> SUFFICES ASSUME DeskInv, DeskNext, NEW st \in Twins' \ Twins PROVE Excused(st)
  OBVIOUS
<1>1. SUFFICES ASSUME \A c \in Busy : request[c].alone PROVE Excused(st)
  BY DEF Excused
<1>2. row \in [Slots -> RowType] /\ DeskShape /\ \A s \in Slots : SlotInv(s)
  BY DataOfShape DEF DeskInv, DeskData
<1>3. CASE UNCHANGED row
  BY <1>3, NoneNew, SMTT(30)
<1>4. ASSUME NEW c \in Clients, Insert(c)
      PROVE  Excused(st)
  <2> DEFINE r == request[c]
  <2>1. c \in Busy /\ Head(r.left) = "insert" /\ Checked(r)
    BY <1>4 DEF Insert, At, Checked
  <2>2. AloneInv(c) /\ \A s \in Slots \ {r.slot} : ~Same(s, r.site, r.key)
    BY <1>1, <2>1 DEF DeskInv, AloneInv
  <2>3. /\ st \in Slots \X Slots /\ st[1] # st[2] /\ st[1] \in Slots /\ st[2] \in Slots
        /\ Active(row'[st[1]]) /\ Active(row'[st[2]])
        /\ row'[st[2]].site = row'[st[1]].site /\ row'[st[2]].key = row'[st[1]].key
    BY DEF Twins, Same
  <2>4. ASSUME NEW s \in Slots, r.slot = 0 \/ r.slot = s,
               row'[s].site = r.site, row'[s].key = r.key,
               \A x \in Slots \ {s} : row'[x] = row[x]
        PROVE  Excused(st)
    <3>1. CASE st[1] = s
      <4>1. row'[st[2]] = row[st[2]] /\ Same(st[2], r.site, r.key)
        BY <2>3, <2>4, <3>1 DEF Same
      <4> QED BY <2>2, <2>3, <2>4, <3>1, <4>1, DeskConstants
    <3>2. CASE st[2] = s
      <4>1. row'[st[1]] = row[st[1]] /\ Same(st[1], r.site, r.key)
        BY <2>3, <2>4, <3>2 DEF Same
      <4> QED BY <2>2, <2>3, <2>4, <3>2, <4>1, DeskConstants
    <3>3. CASE st[1] # s /\ st[2] # s
      BY <2>3, <2>4, <3>3 DEF Twins, Same
    <3> QED BY <3>1, <3>2, <3>3
  <2>5. CASE /\ r.slot = 0 /\ r.site \in sites
             /\ \E new \in Unused, q \in RequestType :
                  /\ row' = [row EXCEPT ![new] = [NoRow EXCEPT !.status = "pending",
                                                     !.site = r.site, !.key = r.key]]
                  /\ revoked' = revoked \ {new}
                  /\ request' = [request EXCEPT ![c] = q]
                  /\ \/ q = Idle
                     \/ Follows(r, q) /\ q.slot = new /\ q.op = "create" /\ Head(q.left) = "worker"
    <3>1. PICK new \in Unused :
            row' = [row EXCEPT ![new] = [NoRow EXCEPT !.status = "pending",
                                            !.site = r.site, !.key = r.key]]
      BY <2>5
    <3>2. new \in Slots
      BY DEF Unused
    <3>3. /\ row'[new].site = r.site /\ row'[new].key = r.key
          /\ \A x \in Slots \ {new} : row'[x] = row[x]
      BY <1>2, <3>1, <3>2 DEF NoRow
    <3> QED BY <2>4, <2>5, <3>2, <3>3
  <2>6. CASE /\ r.op = "launch" /\ r.slot \in Slots /\ There(r.slot) /\ r.site \in sites
             /\ row' = [row EXCEPT ![r.slot].status = "pending", ![r.slot].site = r.site]
    <3>1. row[r.slot].key = r.key
      BY <2>1, <2>2, <2>6 DEF AloneInv, Launched
    <3>2. /\ row'[r.slot].site = r.site /\ row'[r.slot].key = r.key
          /\ \A x \in Slots \ {r.slot} : row'[x] = row[x]
      BY <1>2, <2>6, <3>1 DEF RowType
    <3> QED BY <2>4, <2>6, <3>2
  <2> QED BY <1>2, <1>3, <1>4, <2>5, <2>6, InsertStep
<1>5. ASSUME NEW c \in Clients, Name(c)
      PROVE  Excused(st)
  <2>1. \A s \in Slots : /\ row'[s].status = row[s].status /\ row'[s].archived = row[s].archived
                         /\ row'[s].site = row[s].site /\ row'[s].key = row[s].key
    BY <1>2, <1>5 DEF Name, RowType
  <2> QED BY <2>1, NoneNew DEF Active
<1>6. ASSUME NEW c \in Clients, Edit(c)
      PROVE  Excused(st)
  <2> DEFINE x == request[c].slot
  <2>1. c \in Busy /\ x \in Slots /\ request[c].op = "edit"
    BY <1>2, <1>6, EditStep
  <2>2. row[x].status = "draft"
    BY <1>1, <2>1 DEF DeskInv, AloneInv
  <2>3. /\ row'[x].status = "draft" /\ \A s \in Slots \ {x} : row'[s] = row[s]
    BY <1>2, <1>6, <2>1, <2>2 DEF Edit, RowType
  <2> QED BY <2>3, NoneNew DEF Active
<1>7. ASSUME NEW c \in Clients, RemoveProject(c)
      PROVE  Excused(st)
  <2>1. row' = [row EXCEPT ![request[c].slot] = NoRow] /\ request[c].slot \in Slots
    BY <1>2, <1>7, RemoveStep DEF RemoveProject
  <2>2. \A s \in Slots : row'[s] = NoRow \/ row'[s] = row[s]
    BY <1>2, <2>1
  <2> QED BY <2>2, NoneNew DEF Active, NoRow
<1>8. ASSUME NEW c \in Clients, RemoveSite(c)
      PROVE  Excused(st)
  <2>1. UNCHANGED row
          \/ row' = [s \in Slots |-> IF s \in request[c].locked THEN NoRow ELSE row[s]]
    BY <1>8 DEF RemoveSite
  <2>2. \A s \in Slots : row'[s] = NoRow \/ row'[s] = row[s]
    BY <2>1
  <2> QED BY <2>2, NoneNew DEF Active, NoRow
<1>9. CASE NewDraft
  <2>1. PICK k \in Keys :
          row' = [row EXCEPT ![CHOOSE x \in Unused : TRUE] = [NoRow EXCEPT !.status = "draft", !.key = k]]
    BY <1>9 DEF NewDraft
  <2>2. \A s \in Slots : row'[s].status = "draft" \/ row'[s] = row[s]
    BY <1>2, <2>1 DEF NoRow
  <2> QED BY <2>2, NoneNew DEF Active
<1>10. ASSUME NEW x \in Slots, Archive(x)
       PROVE  Excused(st)
  <2>1. \A s \in Slots : /\ row'[s].status = row[s].status
                         /\ row'[s].site = row[s].site /\ row'[s].key = row[s].key
                         /\ row'[s].archived = row[s].archived \/ row'[s].archived = ~row[s].archived
    BY <1>2, <1>10 DEF Archive, RowType
  <2>2. \A s \in Slots : row[s].archived \in BOOLEAN
    BY <1>2 DEF RowType
  <2> QED BY <2>1, <2>2, NoneNew DEF Active
<1>11. ASSUME NEW x \in Slots, Reset(x)
       PROVE  Excused(st)
  <2>1. \A s \in Slots : row'[s].status = "failed" \/ row'[s] = row[s]
    BY <1>2, <1>11 DEF Reset, RowType
  <2> QED BY <2>1, NoneNew DEF Active
<1>12. ASSUME NEW x \in Slots, RetryPages(x)
       PROVE  Excused(st)
  <2>1. /\ \A s \in Slots \ {x} : row'[s] = row[s]
        /\ row'[x].archived = row[x].archived
        /\ row'[x].site = row[x].site /\ row'[x].key = row[x].key
    BY <1>2, <1>12 DEF RetryPages, RowType
  <2>2. row[x].status \notin {"none", "draft"}
    BY <1>2, <1>12 DEF RetryPages, SlotInv, NoPage, There
  <2>3. row[x].archived \in BOOLEAN
    BY <1>2 DEF RowType
  <2> QED BY <2>1, <2>2, <2>3, NoneNew DEF Active
<1>13. ASSUME NEW x \in Slots, Take(x) \/ Finish(x)
       PROVE  Excused(st)
  <2>1. CASE row[x].status # "failed"
    <3>1. \A s \in Slots : /\ row'[s].key = row[s].key /\ row'[s].site = row[s].site
                           /\ Active(row'[s]) => Active(row[s])
      BY <1>13, <2>1, WorkerKeeps
    <3> QED BY <3>1, NoneNew
  <2>2. CASE row[x].status = "failed"
    <3>1. \A s \in Slots \ {x} : row'[s] = row[s]
      BY <1>2, <1>13, SMTT(30) DEF Take, Finish
    <3> QED BY <2>2, <3>1, NoneNew
  <2> QED BY <2>1, <2>2
<1>14. ASSUME NEW c \in Clients,
              \/ AskCreate(c) \/ AskLaunch(c) \/ AskClone(c) \/ AskStart(c) \/ AskEdit(c)
              \/ AskDelete(c) \/ AskDeleteSite(c)
              \/ Resolve(c) \/ NewSite(c) \/ Check(c) \/ Worker(c) \/ Queue(c)
              \/ PurgeArticles(c) \/ PurgeTasks(c)
       PROVE  UNCHANGED row
  BY <1>14 DEF AskCreate, AskLaunch, AskClone, AskStart, AskEdit, AskDelete, AskDeleteSite,
               Resolve, NewSite, Check, Worker, Queue, PurgeArticles, PurgeTasks
<1>15. ASSUME NEW x \in Slots, RerunPage(x) \/ OpenPage(x) \/ WriteArticle(x) \/ EndPage(x) \/ Kill(x) \/ Requeue(x)
       PROVE  UNCHANGED row
  BY <1>15 DEF RerunPage, OpenPage, WriteArticle, EndPage, Kill, Requeue
<1> QED BY <1>3, <1>4, <1>5, <1>6, <1>7, <1>8, <1>9, <1>10, <1>11, <1>12, <1>13, <1>14, <1>15
        DEF DeskNext

-----------------------------------------------------------------------------
(* The desk: what it promises.                                             *)

\* Every request, project, page and site is well typed, for any number of projects, sites,
\* clients and requests (projects.py:539-1386).
THEOREM DeskTyped == DeskSpec => []DeskTypeOK
<1>1. DeskInv => DeskTypeOK
  BY DEF DeskInv, DeskShape
<1> QED BY <1>1, DeskOpens, DeskStep, PTL DEF DeskSpec

\* A deletion without force that no other request overlaps neither fails halfway nor leaves
\* a task behind: the article it has to purge was there when it looked for articles, and a
\* project that it may delete gets no further task (projects.py:62-68, 1344-1363).
THEOREM CleanDeletes == DeskSpec => DeleteClean
<1>1. DeskSpec => [][\A c \in Busy : CleanDelete(c)]_deskVars
  BY DeskOpens, DeskStep, CleanStep, PTL DEF DeskSpec
<1> QED BY <1>1 DEF DeleteClean, CleanDelete

\* Two active projects of one site and one keyword come only of requests that overlapped, or
\* of a project that was archived or had failed when it came back: the check for one goes
\* before the insert and nothing else does (projects.py:576, 805, 1237).
THEOREM TwinsOverlap == DeskSpec => NoTwin
<1>1. DeskSpec => [][\A st \in Twins' \ Twins : Excused(st)]_deskVars
  BY DeskOpens, DeskStep, TwinStep, PTL DEF DeskSpec
<1> QED BY <1>1 DEF NoTwin, Excused

-----------------------------------------------------------------------------
(* The six services beside each other.  A step is a step of one of them and  *)
(* leaves the others alone, so that each keeps what it promises by itself.   *)

\* A step of the six is one of its own module.
LEMMA OneAtATime ==
  MCNext => \/ (LlmNext /\ Llm) \/ (SerpNext /\ Serp) \/ (DeskNext /\ Desk)
            \/ (PromptNext /\ Prompts) \/ (BlueprintNext /\ Pages) \/ (AuthorNext /\ Authors)
<1> SUFFICES ASSUME ~(LlmNext /\ Llm), ~(SerpNext /\ Serp), ~(DeskNext /\ Desk),
                    ~(PromptNext /\ Prompts), ~(BlueprintNext /\ Pages), ~(AuthorNext /\ Authors)
             PROVE  ~MCNext
  OBVIOUS
<1>1. /\ ~(Resend /\ Llm) /\ ~(Answer /\ Llm) /\ ~(Error /\ Llm) /\ ~(Unusable /\ Llm)
      /\ ~\E n \in 0..job.ceiling : (Afford(n) /\ Llm)
  BY DEF LlmNext, Provider
<1>2. /\ ~(SwitchedOff /\ Llm) /\ ~(Prepare /\ Llm) /\ ~(Send /\ Llm) /\ ~(LlmError /\ Llm)
      /\ ~(Draft /\ Llm) /\ ~(Legal /\ Llm) /\ ~(Analysis /\ Llm) /\ ~(Outline /\ Llm)
      /\ ~(FactCheck /\ Llm) /\ ~(Meta /\ Llm) /\ ~(AskAgain /\ Llm) /\ ~(Edited /\ Llm)
      /\ ~(Recover /\ Llm) /\ ~(Structured /\ Llm) /\ ~(BlockDone /\ Llm) /\ ~(BlockFailed /\ Llm)
      /\ ~(Deadline /\ Llm) /\ ~(TimeUp /\ Llm)
  BY DEF LlmNext, Body
<1>3. /\ ~\E t \in Searchers :
            \/ (LookUp(t) /\ Serp) \/ (TakeUserUrls(t) /\ Serp) \/ (AskGoogle(t) /\ Serp)
            \/ (AskBing(t) /\ Serp) \/ (AskSerpApi(t) /\ Serp) \/ (Store(t) /\ Serp)
            \/ (ReadUrls(t) /\ Serp) \/ (WriteUrls(t) /\ Serp) \/ (SaveRow(t) /\ Serp)
            \/ (NothingToScrape(t) /\ Serp) \/ (Scrape(t) /\ Serp) \/ (RerunSerp(t) /\ Serp)
      /\ ~(ClearCache /\ Serp) /\ ~(Expire /\ Serp)
  BY DEF SerpNext, SerpThread
<1>4. /\ ~\E c \in Clients :
            \/ (AskCreate(c) /\ Desk) \/ (AskLaunch(c) /\ Desk) \/ (AskClone(c) /\ Desk)
            \/ (AskStart(c) /\ Desk) \/ (AskEdit(c) /\ Desk) \/ (AskDelete(c) /\ Desk)
            \/ (AskDeleteSite(c) /\ Desk) \/ (Resolve(c) /\ Desk) \/ (NewSite(c) /\ Desk)
            \/ (Check(c) /\ Desk) \/ (Insert(c) /\ Desk) \/ (Worker(c) /\ Desk) \/ (Queue(c) /\ Desk)
            \/ (Name(c) /\ Desk) \/ (Edit(c) /\ Desk) \/ (PurgeArticles(c) /\ Desk)
            \/ (PurgeTasks(c) /\ Desk) \/ (RemoveProject(c) /\ Desk) \/ (RemoveSite(c) /\ Desk)
      /\ ~(NewDraft /\ Desk)
      /\ ~\E s \in Slots :
            \/ (Archive(s) /\ Desk) \/ (Reset(s) /\ Desk) \/ (RetryPages(s) /\ Desk)
            \/ (RerunPage(s) /\ Desk) \/ (EndPage(s) /\ Desk)
            \/ (Take(s) /\ Desk) \/ (OpenPage(s) /\ Desk) \/ (WriteArticle(s) /\ Desk)
            \/ (Finish(s) /\ Desk) \/ (Kill(s) /\ Desk) \/ (Requeue(s) /\ Desk)
  BY DEF DeskNext
<1>5. /\ ~\E e \in Editors :
            \/ (CreatePrompt(e) /\ Prompts) \/ (RestorePrompt(e) /\ Prompts)
            \/ (Deactivate(e) /\ Prompts) \/ (HoldRows(e) /\ Prompts) \/ (SavePrompt(e) /\ Prompts)
            \/ (PutPreset(e) /\ Prompts) \/ (ClearItems(e) /\ Prompts) \/ (WritePreset(e) /\ Prompts)
      /\ ~\E p \in Presets : (DeletePreset(p) /\ Prompts)
  BY DEF PromptNext
<1>6. /\ ~(ChooseNext /\ Pages) /\ ~(OpenChosen /\ Pages) /\ ~(BeginRun /\ Pages)
      /\ ~(StepOn /\ Pages) /\ ~(ListDone /\ Pages) /\ ~(WritePage /\ Pages)
      /\ ~(BuildSite /\ Pages) /\ ~(RetryRun /\ Pages)
      /\ ~\E p \in PageIds : (PutPage(p) /\ Pages) \/ (DropPage(p) /\ Pages)
      /\ ~\E r \in RefIds : (PutRef(r) /\ Pages) \/ (DropRef(r) /\ Pages)
  BY DEF BlueprintNext, RunStep
<1>7. /\ ~\E r \in ListReaders :
            \/ (AskList(r) /\ Authors) \/ (LookInto(r) /\ Authors) \/ (ReadAuthors(r) /\ Authors)
            \/ (KeepList(r) /\ Authors) \/ (GiveList(r) /\ Authors)
      /\ ~\E w \in ListWriters : (ChangeAuthor(w) /\ Authors) \/ (ClearList(w) /\ Authors)
      /\ ~(PassTime /\ Authors)
  BY DEF AuthorNext
<1>8. QED
  BY <1>1, <1>2, <1>3, <1>4, <1>5, <1>6, <1>7 DEF MCNext

\* What a step is for each of the six: a step of its own, or none.
LEMMA EachSteps ==
  [MCNext]_MCVars =>
    /\ [LlmNext]_llmVars /\ [SerpNext]_serpVars /\ [DeskNext]_deskVars
    /\ [PromptNext]_promptVars /\ [BlueprintNext]_blueprintVars /\ [AuthorNext]_authorVars
<1> SUFFICES ASSUME [MCNext]_MCVars
             PROVE  /\ [LlmNext]_llmVars /\ [SerpNext]_serpVars /\ [DeskNext]_deskVars
                    /\ [PromptNext]_promptVars /\ [BlueprintNext]_blueprintVars
                    /\ [AuthorNext]_authorVars
  OBVIOUS
<1>1. CASE UNCHANGED MCVars
  BY <1>1 DEF MCVars
<1>2. CASE LlmNext /\ Llm
  BY <1>2 DEF Llm
<1>3. CASE SerpNext /\ Serp
  BY <1>3 DEF Serp
<1>4. CASE DeskNext /\ Desk
  BY <1>4 DEF Desk
<1>5. CASE PromptNext /\ Prompts
  BY <1>5 DEF Prompts
<1>6. CASE BlueprintNext /\ Pages
  BY <1>6 DEF Pages
<1>7. CASE AuthorNext /\ Authors
  BY <1>7 DEF Authors
<1>8. QED
  BY <1>1, <1>2, <1>3, <1>4, <1>5, <1>6, <1>7, OneAtATime

ServicesInv == LlmInv /\ SerpInv /\ DeskInv /\ PromptInv /\ BlueprintInv /\ AuthorInv

LEMMA ServicesBegin == MCInit => ServicesInv
<1> SUFFICES ASSUME MCInit
             PROVE  ServicesInv
  OBVIOUS
<1>1. LlmInit /\ SerpInit /\ DeskInit /\ PromptInit /\ BlueprintInit /\ AuthorInit
  BY DEF MCInit
<1>2. QED
  BY <1>1, StartsWell, SerpBegin, DeskOpens, PromptsBegin, InitBlueprintInv, AuthorsBegin
  DEF ServicesInv

LEMMA ServicesStep == ServicesInv /\ [MCNext]_MCVars => ServicesInv'
<1> SUFFICES ASSUME ServicesInv, [MCNext]_MCVars
             PROVE  ServicesInv'
  OBVIOUS
<1>1. LlmInv' /\ SerpInv' /\ DeskInv'
  BY EachSteps, EveryStep, SerpStep, DeskStep DEF ServicesInv
<1>2. PromptInv' /\ BlueprintInv' /\ AuthorInv'
  BY EachSteps, PromptsStep, BlueprintInvStep, AuthorsStep DEF ServicesInv
<1>3. QED
  BY <1>1, <1>2 DEF ServicesInv

LEMMA ServicesInvariant == MCSpec => []ServicesInv
BY ServicesBegin, ServicesStep, PTL DEF MCSpec

\* Whichever of the services runs, all six are well typed in every state, for any number of
\* clients, searchers, editors and edits, and any bounds (runner.py:101-154, serp.py:714-790,
\* projects.py:539-1386, prompts.py:62-102, tasks.py:178-256, authors.py:100-145).
THEOREM ServicesTyped == MCSpec => []ServicesTypeOK
<1>1. BlueprintInv => BlueprintTypeOK
  BY RowsMeanTyped DEF BlueprintInv
<1>2. DeskInv => DeskTypeOK
  BY DEF DeskInv, DeskShape
<1>3. ServicesInv => ServicesTypeOK
  BY <1>1, <1>2, InvMeansTyped, SerpInvTyped, PromptInvTyped, AuthorInvTyped
  DEF ServicesInv, ServicesTypeOK
<1>4. QED
  BY <1>3, ServicesInvariant, PTL

\* What each of the services promises by itself it keeps beside the others: the bound on the
\* requests of a step and what they cost (runner.py:101-154), the URLs of a search
\* (serp_step.py:134-152), a prompt for every call (prompt_presets.py:12-42), the pages of a
\* blueprint (tasks.py:178-256) and the list of authors (authors.py:119-145).
THEOREM ServicesSafe ==
  MCSpec => [](/\ RequestsBounded /\ CostKept
               /\ OwnUrls /\ NothingLost /\ ClearedIsGone
               /\ AgentServed /\ AllTried /\ ListFresh)
<1>1. BlueprintInv => AllTried
  BY RunTriesAll DEF BlueprintInv, RunInv
<1>2. ServicesInv => /\ RequestsBounded /\ CostKept
                     /\ OwnUrls /\ NothingLost /\ ClearedIsGone
                     /\ AgentServed /\ AllTried /\ ListFresh
  BY <1>1, InvBoundsRequests, InvKeepsCost, SerpInvOwnUrls, SerpInvNothingLost, SerpInvCleared,
     PromptInvServed, AuthorInvFresh
  DEF ServicesInv
<1>3. QED
  BY <1>2, ServicesInvariant, PTL

\* And so do their steps: no twins without an overlap and no deletion that leaves something
\* behind (projects.py), a save that overlaps no other is exact (prompts.py:62-102), a page is
\* written once and from the reference that was chosen for it (process_project_page).
THEOREM ServicesStepSafe == MCSpec => NoTwin /\ DeleteClean /\ LoneSave /\ PageOnce /\ ChoiceHonoured
<1>1. ServicesInv /\ [MCNext]_MCVars =>
        /\ [\A st \in Twins' \ Twins : Excused(st)]_deskVars
        /\ [\A c \in Busy : CleanDelete(c)]_deskVars
        /\ [LonesExact]_promptVars
        /\ [SecondTask]_blueprintVars
        /\ [Honoured]_blueprintVars
  <2> SUFFICES ASSUME ServicesInv, [MCNext]_MCVars
               PROVE  /\ [\A st \in Twins' \ Twins : Excused(st)]_deskVars
                      /\ [\A c \in Busy : CleanDelete(c)]_deskVars
                      /\ [LonesExact]_promptVars
                      /\ [SecondTask]_blueprintVars
                      /\ [Honoured]_blueprintVars
    OBVIOUS
  <2>1. /\ [\A st \in Twins' \ Twins : Excused(st)]_deskVars
        /\ [\A c \in Busy : CleanDelete(c)]_deskVars
    BY EachSteps, TwinStep, CleanStep DEF ServicesInv
  <2>2. [LonesExact]_promptVars
    BY EachSteps, LoneStep DEF ServicesInv
  <2>3. SecondTask /\ Honoured
    BY EachSteps, OnceStep, HonouredStep DEF ServicesInv, BlueprintInv
  <2>4. QED
    BY <2>1, <2>2, <2>3
<1>2. MCSpec => /\ [][\A st \in Twins' \ Twins : Excused(st)]_deskVars
                /\ [][\A c \in Busy : CleanDelete(c)]_deskVars
                /\ [][LonesExact]_promptVars
                /\ [][SecondTask]_blueprintVars
                /\ [][Honoured]_blueprintVars
  BY <1>1, ServicesInvariant, PTL DEF MCSpec
<1>3. QED
  BY <1>2 DEF NoTwin, Excused, DeleteClean, CleanDelete, LoneSave, LonesExact, PageOnce, SecondTask,
     ChoiceHonoured, Honoured, RightRef
=============================================================================
