------------------------------ MODULE ProjectDesk ------------------------------
(* The requests around site projects (app/api/projects.py, the deletion of a  *)
(* site, and the requeue of beat): creating, launching, cloning, starting,    *)
(* editing, archiving and deleting, each a handler that reads, checks and     *)
(* commits at different times.  An async handler keeps the event loop to      *)
(* itself until it answers; the others run in threads.  What a started        *)
(* project does is ProjectCoordinator's; here it opens a page, writes an      *)
(* article and ends, and a delivery of the page's own task may write one for  *)
(* a project that has ended, because deletions race with both.                *)
EXTENDS Integers, Sequences, FiniteSets

CONSTANTS
  Slots,         \* projects that may exist at a time
  SiteRows,      \* sites that may exist at a time, all of the same name
  Keys,          \* blueprint and seed keyword of a project
  Clients,       \* requests that may be in progress at a time
  MaxAsks,       \* bound on the requests
  NoSite         \* None in the code

ASSUME DeskConstants ==
  /\ IsFiniteSet(SiteRows) /\ IsFiniteSet(Clients)
  /\ Cardinality(SiteRows) >= Cardinality(Clients) /\ NoSite \notin SiteRows
  /\ 0 \notin Slots   \* the slot of a request that has no project yet
  /\ MaxAsks \in Nat

VARIABLES
  row,       \* site_projects
  page,      \* per project: the task of its page, its article, and whether a delivery is
             \* the task's own: sent from the task page, not by the project
  sites,     \* the sites there are
  messages,  \* projects with a process_site_project in the queue
  working,   \* projects a worker is on
  revoked,   \* projects whose message was revoked, and not forgotten since
  request,   \* per client: the handler's remaining steps and what it has read
  asks       \* requests so far

deskVars == <<row, page, sites, messages, working, revoked, request, asks>>

NoRow == [status |-> "none", site |-> NoSite, key |-> 0, archived |-> FALSE, named |-> FALSE]
NoPage == [status |-> "none", site |-> NoSite, article |-> FALSE, owned |-> FALSE,
           own |-> FALSE]
Idle == [op |-> "none", left |-> <<>>, slot |-> 0, site |-> NoSite, key |-> 0,
         purged |-> FALSE, locked |-> {}, force |-> FALSE, alone |-> TRUE]

There(s) == row[s].status # "none"
Active(r) == r.status \notin {"none", "failed", "draft"} /\ ~r.archived

\* The steps of the handlers that take more than one.
Path == [create |-> <<"resolve", "check", "insert", "worker", "queue", "name">>,
         launch |-> <<"resolve", "check", "worker", "insert", "queue", "name">>,
         copyto |-> <<"resolve", "check", "insert">>,
         clone  |-> <<"check", "insert">>,
         start  |-> <<"worker", "queue", "name">>,
         edit   |-> <<"edit">>,
         delete |-> <<"articles", "tasks", "remove">>,
         site   |-> <<"remove">>]

Async == {"create", "launch", "start"}

DeskInit ==
  /\ row = [s \in Slots |-> NoRow]
  /\ page = [s \in Slots |-> NoPage]
  /\ sites = {}
  /\ messages = {} /\ working = {} /\ revoked = {}
  /\ request = [c \in Clients |-> Idle]
  /\ asks = 0

-----------------------------------------------------------------------------
(* Requests.                                                               *)

Busy == {c \in Clients : request[c].left # <<>>}
At(c, step) == c \in Busy /\ Head(request[c].left) = step
Overlapped == [c \in Clients |-> IF c \in Busy THEN [request[c] EXCEPT !.alone = FALSE]
                                 ELSE request[c]]

\* A slot is used again when nothing is left that remembers who had it.
Unused == {s \in Slots : /\ ~There(s) /\ page[s] = NoPage
                         /\ s \notin messages \cup working
                         /\ \A c \in Busy : request[c].slot # s /\ s \notin request[c].locked}

Begin(c, op, r) ==
  /\ c \notin Busy /\ asks < MaxAsks
  /\ op \in Async => \A d \in Busy : request[d].op \notin Async
  /\ asks' = asks + 1
  /\ request' = [Overlapped EXCEPT ![c] =
                   [r EXCEPT !.op = op, !.left = Path[op], !.alone = @ /\ Busy = {}]]

Advanced(c) == [request EXCEPT ![c].left = Tail(@)]
Answered(c) == [request EXCEPT ![c] = Idle]

\* A request of one step.
AtOnce == /\ asks < MaxAsks /\ asks' = asks + 1 /\ request' = Overlapped

AskCreate(c) ==
  /\ \E k \in Keys : Begin(c, "create", [Idle EXCEPT !.key = k])
  /\ UNCHANGED <<row, page, sites, messages, working, revoked>>

AskLaunch(c) ==
  /\ \E s \in Slots :
       /\ row[s].status = "draft"
       /\ Begin(c, "launch", [Idle EXCEPT !.slot = s, !.key = row[s].key])
  /\ UNCHANGED <<row, page, sites, messages, working, revoked>>

\* A clone keeps the site of its source or names one.
AskClone(c) ==
  /\ \E s \in Slots, k \in Keys :
       /\ There(s)
       /\ \/ row[s].site # NoSite
             /\ Begin(c, "clone", [Idle EXCEPT !.site = row[s].site, !.key = k])
          \/ Begin(c, "copyto", [Idle EXCEPT !.key = k])
  /\ UNCHANGED <<row, page, sites, messages, working, revoked>>

AskStart(c) ==
  /\ \E s \in Slots : row[s].status = "pending" /\ Begin(c, "start", [Idle EXCEPT !.slot = s])
  /\ UNCHANGED <<row, page, sites, messages, working, revoked>>

AskEdit(c) ==
  /\ \E s \in Slots, k \in Keys :
       /\ row[s].status = "draft"
       /\ Begin(c, "edit", [Idle EXCEPT !.slot = s, !.key = k])
  /\ UNCHANGED <<row, page, sites, messages, working, revoked>>

\* control.revoke: the message is dropped if the workers hear of it in time.
Revoke(ss) ==
  LET named == {s \in ss : row[s].named}
  IN /\ revoked' = revoked \cup named
     /\ \E heard \in SUBSET named : messages' = messages \ heard

AskDelete(c) ==
  /\ \E s \in Slots, force \in BOOLEAN :
       /\ There(s) /\ (force \/ row[s].status \notin {"pending", "generating"})
       /\ Begin(c, "delete", [Idle EXCEPT !.slot = s, !.force = force,
                                          !.alone = s \notin working /\ ~page[s].own])
       /\ Revoke(IF force THEN {s} ELSE {})
  /\ UNCHANGED <<row, page, sites, working>>

\* delete_site.  With force the tasks go first, and fail to when one has an article: the
\* messages of the site's projects are revoked all the same.
AskDeleteSite(c) ==
  /\ \E site \in sites :
       LET projects == {s \in Slots : row[s].site = site}
           pages == {s \in Slots : page[s].site = site}
       IN \/ /\ projects \cup pages = {}
             /\ Begin(c, "site", [Idle EXCEPT !.site = site])
             /\ UNCHANGED <<messages, revoked>>
          \/ /\ Revoke(projects)
             /\ IF \E s \in pages : page[s].article
                THEN /\ c \notin Busy /\ AtOnce
                ELSE /\ \A d \in Busy : request[d].locked \cap pages = {}
                     /\ Begin(c, "site", [Idle EXCEPT !.site = site, !.locked = projects \cup pages,
                                                      !.force = TRUE])
  /\ UNCHANGED <<row, page, sites, working>>

-----------------------------------------------------------------------------
(* The steps of a handler.                                                 *)

\* _resolve_site finds a site of that name, or commits a new one.
Resolve(c) ==
  /\ At(c, "resolve")
  /\ \/ \E site \in sites : request' = [Advanced(c) EXCEPT ![c].site = site]
     \/ /\ sites = {}
        /\ request' = [request EXCEPT ![c].left = <<"newsite">> \o Tail(@)]
  /\ UNCHANGED <<row, page, sites, messages, working, revoked, asks>>

NewSite(c) ==
  /\ At(c, "newsite")
  /\ LET site == CHOOSE x \in SiteRows : x \notin sites
     IN /\ sites' = sites \cup {site}
        /\ request' = [Advanced(c) EXCEPT ![c].site = site]
  /\ UNCHANGED <<row, page, messages, working, revoked, asks>>

\* Mutant of Same: a pending project is not yet a duplicate.
SameRun(s, site, key) ==
  row[s].site = site /\ row[s].key = key /\ Active(row[s]) /\ row[s].status # "pending"

Same(s, site, key) == row[s].site = site /\ row[s].key = key /\ Active(row[s])

\* 409 if there is one already.
Check(c) ==
  /\ At(c, "check")
  /\ request' = IF \E s \in Slots \ {request[c].slot} : Same(s, request[c].site, request[c].key)
                THEN Answered(c) ELSE Advanced(c)
  /\ UNCHANGED <<row, page, sites, messages, working, revoked, asks>>

\* Nothing is inserted, or updated, without its site; a launch writes the columns it has
\* set and leaves the keyword alone.
Insert(c) ==
  /\ At(c, "insert")
  /\ LET site == request[c].site
         s == request[c].slot
     IN \/ /\ site \in sites /\ s = 0 /\ Unused # {}
           /\ LET new == CHOOSE x \in Unused : TRUE
              IN /\ row' = [row EXCEPT ![new] = [NoRow EXCEPT !.status = "pending", !.site = site,
                                                              !.key = request[c].key]]
                 /\ revoked' = revoked \ {new}
                 /\ request' = IF Tail(request[c].left) = <<>> THEN Answered(c)
                               ELSE [Advanced(c) EXCEPT ![c].slot = new]
        \/ /\ site \in sites /\ s # 0 /\ There(s)
           /\ row' = [row EXCEPT ![s].status = "pending", ![s].site = site]
           /\ request' = Advanced(c)
           /\ UNCHANGED revoked
        \/ /\ site \notin sites \/ (s # 0 /\ ~There(s))
           /\ request' = Answered(c)
           /\ UNCHANGED <<row, revoked>>
  /\ UNCHANGED <<page, sites, messages, working, asks>>

\* No worker answers the ping: 503.
Worker(c) ==
  /\ At(c, "worker")
  /\ request' \in {Advanced(c), Answered(c)}
  /\ UNCHANGED <<row, page, sites, messages, working, revoked, asks>>

\* delay(), which the broker may refuse.
Queue(c) ==
  /\ At(c, "queue")
  /\ \/ messages' = messages \cup {request[c].slot} /\ request' = Advanced(c)
     \/ request' = Answered(c) /\ UNCHANGED messages
  /\ UNCHANGED <<row, page, sites, working, revoked, asks>>

Name(c) ==
  /\ At(c, "name")
  /\ row' = IF There(request[c].slot) THEN [row EXCEPT ![request[c].slot].named = TRUE] ELSE row
  /\ request' = Answered(c)
  /\ UNCHANGED <<page, sites, messages, working, revoked, asks>>

\* The draft may have been launched since it was read.
Edit(c) ==
  /\ At(c, "edit")
  /\ row' = IF There(request[c].slot) THEN [row EXCEPT ![request[c].slot].key = request[c].key]
            ELSE row
  /\ request' = Answered(c)
  /\ UNCHANGED <<page, sites, messages, working, revoked, asks>>

-----------------------------------------------------------------------------
(* Deletions: three statements of one transaction, which the workers' commits *)
(* may fall between.  A row that is deleted stays locked until the commit.    *)

Locked(s) == \E c \in Busy : request[c].purged /\ s \in request[c].locked
Mine(s) == page[s].status # "none" /\ page[s].owned

\* Mutant of PurgeArticles: only the tasks are purged.
PurgeNothing(c) ==
  /\ At(c, "articles")
  /\ request' = Advanced(c)
  /\ UNCHANGED <<row, page, sites, messages, working, revoked, asks>>

PurgeArticles(c) ==
  /\ At(c, "articles")
  /\ LET s == request[c].slot
     IN /\ \A d \in Busy : s \notin request[d].locked
        /\ request' = [Advanced(c) EXCEPT
                         ![c].locked = IF Mine(s) /\ page[s].article THEN {s} ELSE {}]
  /\ UNCHANGED <<row, page, sites, messages, working, revoked, asks>>

\* A task whose article was not purged cannot go.
PurgeTasks(c) ==
  /\ At(c, "tasks")
  /\ LET s == request[c].slot
     IN /\ \A d \in Busy \ {c} : s \notin request[d].locked
        /\ request' = IF ~Mine(s) THEN Advanced(c)
                      ELSE IF page[s].article /\ s \notin request[c].locked THEN Answered(c)
                      ELSE [Advanced(c) EXCEPT ![c].locked = {s}, ![c].purged = TRUE]
  /\ UNCHANGED <<row, page, sites, messages, working, revoked, asks>>

\* The ORM takes the project away from the tasks that came since, deletes it and commits.
RemoveProject(c) ==
  /\ At(c, "remove") /\ request[c].op = "delete"
  /\ LET s == request[c].slot
     IN /\ row' = [row EXCEPT ![s] = NoRow]
        /\ page' = [page EXCEPT ![s] = IF request[c].purged \/ @.status = "none" THEN NoPage
                                       ELSE [@ EXCEPT !.owned = FALSE]]
  /\ request' = Answered(c)
  /\ UNCHANGED <<sites, messages, working, revoked, asks>>

\* A project or task that came since keeps the site: 500.
RemoveSite(c) ==
  /\ At(c, "remove") /\ request[c].op = "site"
  /\ LET site == request[c].site
         gone == request[c].locked
     IN IF \A s \in Slots : row[s].site = site \/ page[s].site = site => s \in gone /\ ~page[s].article
        THEN /\ sites' = sites \ {site}
             /\ row' = [s \in Slots |-> IF s \in gone THEN NoRow ELSE row[s]]
             /\ page' = [s \in Slots |-> IF s \in gone THEN NoPage ELSE page[s]]
        ELSE UNCHANGED <<sites, row, page>>
  /\ request' = Answered(c)
  /\ UNCHANGED <<messages, working, revoked, asks>>

-----------------------------------------------------------------------------
(* Requests of one step.                                                   *)

NewDraft ==
  /\ AtOnce /\ Unused # {}
  /\ LET s == CHOOSE x \in Unused : TRUE
     IN /\ \E k \in Keys : row' = [row EXCEPT ![s] = [NoRow EXCEPT !.status = "draft", !.key = k]]
        /\ revoked' = revoked \ {s}
  /\ UNCHANGED <<page, sites, messages, working>>

\* archive and unarchive: the second does not look for duplicates.
Archive(s) ==
  /\ AtOnce /\ There(s)
  /\ row' = [row EXCEPT ![s].archived = ~@]
  /\ UNCHANGED <<page, sites, messages, working, revoked>>

Reset(s) ==
  /\ AtOnce /\ row[s].status \in {"pending", "generating"}
  /\ Revoke({s})
  /\ row' = [row EXCEPT ![s].status = "failed", ![s].named = FALSE]
  /\ UNCHANGED <<page, sites, working>>

\* retry-failed: commits, then queues.
RetryPages(s) ==
  /\ AtOnce /\ There(s) /\ page[s].status = "failed" /\ page[s].owned /\ ~Locked(s)
  /\ page' = [page EXCEPT ![s].status = "running"]
  /\ row' = [row EXCEPT ![s].status = "generating"]
  /\ messages' \in {messages, messages \cup {s}}
  /\ UNCHANGED <<sites, working, revoked>>

\* retry, rerun-step and the approvals of the task page: no matter what the task's project
\* does, they make the task pending, and a cascading rerun deletes its article; then delay().
RerunPage(s) ==
  /\ AtOnce /\ page[s].status # "none" /\ ~Locked(s)
  /\ \E cascade, accepted \in BOOLEAN :
       /\ cascade => \A c \in Busy : s \notin request[c].locked
       /\ page' = [page EXCEPT ![s].status = "running", ![s].article = @ /\ ~cascade,
                               ![s].own = @ \/ accepted]
  /\ UNCHANGED <<row, sites, messages, working, revoked>>

-----------------------------------------------------------------------------
(* Workers and beat.                                                       *)

\* A worker that revives a project that has ended is in the way of a request as another
\* one is.
Late(s) == request' = IF row[s].status \in {"failed", "completed"} THEN Overlapped ELSE request

\* process_site_project takes whatever status there is.
Take(s) ==
  /\ s \in messages
  /\ messages' = messages \ {s}
  /\ IF There(s)
     THEN row' = [row EXCEPT ![s].status = "generating"] /\ working' = working \cup {s}
     ELSE UNCHANGED <<row, working>>
  /\ Late(s)
  /\ UNCHANGED <<page, sites, revoked, asks>>

OpenPage(s) ==
  /\ s \in working /\ There(s) /\ page[s] = NoPage
  /\ page' = [page EXCEPT ![s] = [status |-> "running", site |-> row[s].site,
                                  article |-> FALSE, owned |-> TRUE, own |-> FALSE]]
  /\ UNCHANGED <<row, sites, messages, working, revoked, request, asks>>

WriteArticle(s) ==
  /\ s \in working /\ page[s].status = "running" /\ ~page[s].article /\ ~Locked(s)
  /\ page' = [page EXCEPT ![s].article = TRUE]
  /\ UNCHANGED <<row, sites, messages, working, revoked, request, asks>>

\* A delivery of the page's own task commits the article and the status together, or fails;
\* it looks neither at the project nor at its status.
EndPage(s) ==
  /\ page[s].own /\ ~Locked(s)
  /\ \E written \in BOOLEAN :
       page' = [page EXCEPT ![s].own = FALSE, ![s].article = @ \/ written,
                            ![s].status = IF written THEN "done" ELSE "failed"]
  /\ UNCHANGED <<row, sites, messages, working, revoked, request, asks>>

\* The project ends with its page, or before it has one; what was deleted is not missed.
Finish(s) ==
  /\ s \in working /\ ~Locked(s)
  /\ working' = working \ {s}
  /\ page' = IF page[s].status # "running" THEN page
             ELSE [page EXCEPT ![s].status = IF page[s].article THEN "done" ELSE "failed"]
  /\ row' = IF ~There(s) THEN row
            ELSE [row EXCEPT ![s].status = IF page[s].article THEN "completed" ELSE "failed"]
  /\ Late(s)
  /\ UNCHANGED <<sites, messages, revoked, asks>>

\* terminate=True
Kill(s) ==
  /\ s \in working \cap revoked
  /\ working' = working \ {s}
  /\ UNCHANGED <<row, page, sites, messages, revoked, request, asks>>

\* Mutant of Requeue: what is archived is left alone.
RequeueShown(s) ==
  /\ row[s].status = "pending" /\ ~row[s].archived /\ s \notin messages
  /\ messages' = messages \cup {s}
  /\ UNCHANGED <<row, page, sites, working, revoked, request, asks>>

\* Beat sends the pending projects that are older than ten minutes again.
Requeue(s) ==
  /\ row[s].status = "pending" /\ s \notin messages
  /\ messages' = messages \cup {s}
  /\ UNCHANGED <<row, page, sites, working, revoked, request, asks>>

DeskNext ==
  \/ \E c \in Clients :
       \/ AskCreate(c) \/ AskLaunch(c) \/ AskClone(c) \/ AskStart(c) \/ AskEdit(c)
       \/ AskDelete(c) \/ AskDeleteSite(c)
       \/ Resolve(c) \/ NewSite(c) \/ Check(c) \/ Insert(c) \/ Worker(c) \/ Queue(c) \/ Name(c)
       \/ Edit(c) \/ PurgeArticles(c) \/ PurgeTasks(c) \/ RemoveProject(c) \/ RemoveSite(c)
  \/ NewDraft
  \/ \E s \in Slots :
       \/ Archive(s) \/ Reset(s) \/ RetryPages(s) \/ RerunPage(s)
       \/ Take(s) \/ OpenPage(s) \/ WriteArticle(s) \/ EndPage(s) \/ Finish(s) \/ Kill(s) \/ Requeue(s)

\* Beat runs, its messages are accepted in the end, and there is a worker.
DeskFairness == \A s \in Slots : WF_deskVars(Take(s)) /\ WF_deskVars(Requeue(s))

DeskSpec == DeskInit /\ [][DeskNext]_deskVars /\ DeskFairness

-----------------------------------------------------------------------------
DeskTypeOK ==
  /\ row \in [Slots -> [status : {"none", "draft", "pending", "generating", "completed", "failed"},
                        site : SiteRows \cup {NoSite}, key : Keys \cup {0},
                        archived : BOOLEAN, named : BOOLEAN]]
  /\ page \in [Slots -> [status : {"none", "running", "done", "failed"},
                         site : SiteRows \cup {NoSite}, article : BOOLEAN, owned : BOOLEAN,
                         own : BOOLEAN]]
  /\ sites \subseteq SiteRows
  /\ \A s \in Slots : {row[s].site, page[s].site} \subseteq sites \cup {NoSite}
  /\ messages \cup working \cup revoked \subseteq Slots
  /\ \A c \in Clients : request[c].slot \in Slots \cup {0} /\ request[c].locked \subseteq Slots
  /\ asks \in 0..MaxAsks

\* A second active project of a blueprint, keyword and site comes only of what looks for
\* no duplicates, unarchive and the retry of a failed one, or of requests that overlap,
\* though none of the checks is repeated by the database (projects.py:576, 805, 1237).
Twins == {st \in Slots \X Slots :
            st[1] # st[2] /\ Active(row[st[1]]) /\ Same(st[2], row[st[1]].site, row[st[1]].key)}

NoTwin ==
  [][\A st \in Twins' \ Twins :
       \/ \E s \in {st[1], st[2]} : row[s].archived \/ row[s].status = "failed"
       \/ \E c \in Busy : ~request[c].alone]_deskVars

\* A deletion without force that no other request overlaps neither fails halfway nor
\* leaves a task behind, however the project ended (projects.py:62-68, 1344); but a
\* worker may still be on a project that was reset, or whose message came twice, and on a
\* page whose task was retried, rerun or approved for itself (tasks.py:708-918).
DeleteClean ==
  [][\A c \in Busy :
       request[c].op = "delete" /\ ~request[c].force /\ request[c].alone =>
         /\ At(c, "tasks") => request'[c].left # <<>>
         /\ At(c, "remove") /\ request'[c].left = <<>> => page'[request[c].slot] = NoPage]_deskVars

\* No project stays pending: one whose creator was told 503 or 500 after its commit, or a
\* clone that nobody starts, is found by beat (projects.py:662, tasks.py:586).  MaxAsks
\* bounds what can become pending, so that in the end nothing is.
PendingLeaves == <>[](\A s \in Slots : row[s].status # "pending")
=============================================================================
