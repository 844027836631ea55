------------------------------ MODULE BlueprintRun ------------------------------
(* A project generates the pages of a blueprint, and the blueprint and the    *)
(* legal references its pages are written from may be edited meanwhile        *)
(* (app/api/blueprints.py, legal_pages.py): a run reads the pages once to     *)
(* choose one and again to open it by its number (workers), or once for all   *)
(* (desktop), and a page's reference when it is written.  One run, without    *)
(* stops, duplicates and crashes: those are ProjectCoordinator's and          *)
(* DesktopRunner's.                                                           *)
EXTENDS Naturals, Sequences, FiniteSets, SequencesExt

CONSTANTS
  PageIds,     \* pages that may be in the blueprint
  RefIds,      \* legal references that may exist
  LegalTypes,  \* LEGAL_PAGE_TYPES
  Setups,      \* what a run may start with: records [listed, blueprint, reference, chosen]
  Runners,     \* subset of {"worker", "desktop"}
  MaxEdits,    \* bound: edits and retries
  NoRef        \* None in the code

Types == LegalTypes \cup {"article"}
\* serp: whether the steps of the page's preset search (pipeline_steps_use_serp).
PageRows == [type : Types, default : RefIds \cup {NoRef}, serp : BOOLEAN]
RefRows == [there : BOOLEAN, type : LegalTypes, active : BOOLEAN]

ASSUME BlueprintConstants ==
  /\ Runners \subseteq {"worker", "desktop"} /\ MaxEdits \in Nat /\ NoRef \notin RefIds
  /\ \A s \in Setups :
       /\ s.listed \in Seq(PageIds) /\ IsInjective(s.listed) /\ s.blueprint \in [PageIds -> PageRows]
       /\ s.reference \in [RefIds -> RefRows] /\ s.chosen \in [LegalTypes -> RefIds \cup {NoRef}]

VARIABLES
  blueprint,  \* the rows of blueprint_pages
  listed,     \* those there are, in the order of sort_order
  reference,  \* the rows of legal_page_templates
  chosen,     \* the project's legal_template_map
  written,    \* the project's tasks, oldest first
  siterun,    \* the run of the project
  edits       \* edits so far, and the pages and references they touched

blueprintVars == <<blueprint, listed, reference, chosen, written, siterun, edits>>

ThePages == Range(listed)

\* A reference that the requests accept for a type.
Fitting(type) == {r \in RefIds : reference[r].there /\ reference[r].active /\ reference[r].type = type}

BlueprintInit ==
  /\ \E s \in Setups :
       /\ listed = s.listed /\ blueprint = s.blueprint
       /\ reference = s.reference /\ chosen = s.chosen
  \* create_project, and the requests for pages, accept what fits
  /\ \A type \in LegalTypes : chosen[type] # NoRef => chosen[type] \in Fitting(type)
  /\ \A p \in PageIds : blueprint[p].default # NoRef => blueprint[p].default \in Fitting(blueprint[p].type)
  /\ written = <<>>
  /\ \E by \in Runners :
       siterun = [by |-> by, at |-> IF by = "worker" THEN "advance" ELSE "begin",
                  status |-> "generating", list |-> <<>>, index |-> 1, default |-> NoRef,
                  serp |-> FALSE, read |-> {}, edited |-> FALSE]
  /\ edits = [count |-> 0, pages |-> {}, refs |-> {}]

-----------------------------------------------------------------------------
(* The chain of workers: advance_project, process_project_page.            *)

\* Mutants of Finished: a pending page counts as done; a failed one does not.
FinishedOrQueued == {"completed", "failed", "pending"}
FinishedWell == {"completed"}
Finished == {"completed", "failed"}
DoneHere == {written[t].page : t \in {u \in DOMAIN written : written[u].status \in Finished}}

\* The number of the first page that is not done goes into the message.
ChooseNext ==
  /\ siterun.at = "advance"
  /\ LET left == {i \in DOMAIN listed : listed[i] \notin DoneHere}
         read == [siterun EXCEPT !.read = ThePages, !.edited = FALSE]
     IN \/ left = {} /\ siterun' = [read EXCEPT !.at = "build", !.index = 1]
        \/ \E i \in left : /\ \A k \in left : i <= k
                           /\ siterun' = [read EXCEPT !.at = "open", !.index = i]
  /\ UNCHANGED <<blueprint, listed, reference, chosen, written, edits>>

Reused(p) == {t \in DOMAIN written : written[t].page = p /\ written[t].status \in {"pending", "failed"}}
\* The task of the page that was not run, or failed, is used again with the type it has.
TaskFor(p) ==
  IF Reused(p) # {}
  THEN written' \in {[written EXCEPT ![t].status = "running"] : t \in Reused(p)}
  ELSE written' = Append(written, [page |-> p, type |-> blueprint[p].type, status |-> "running",
                                   ref |-> NoRef])

\* The pipeline of page p begins with the row as it is now: its preset holds for the whole
\* delivery (PipelineContext; the moments from the task to the context are taken as one).
Opened(p) ==
  [siterun EXCEPT !.at = "write", !.default = blueprint[p].default, !.serp = blueprint[p].serp]

\* The pages are read again.  With a number beyond their end the worker logs an error and
\* sends nothing.
OpenChosen ==
  /\ siterun.at = "open"
  /\ IF siterun.index > Len(listed)
     THEN siterun' = [siterun EXCEPT !.at = "lost"] /\ UNCHANGED written
     ELSE /\ TaskFor(listed[siterun.index])
          /\ siterun' = Opened(listed[siterun.index])
  /\ UNCHANGED <<blueprint, listed, reference, chosen, edits>>

-----------------------------------------------------------------------------
(* The desktop: one list for the whole run (_project_sync).                *)

BeginRun ==
  /\ siterun.at = "begin"
  /\ siterun' = [siterun EXCEPT !.at = "next", !.list = listed, !.index = 1, !.read = ThePages]
  /\ UNCHANGED <<blueprint, listed, reference, chosen, written, edits>>

Completed(p) == \E t \in DOMAIN written : written[t].page = p /\ written[t].status = "completed"

\* Mutant of StepOn: a retry goes through all the pages again.
StepThroughAll ==
  /\ siterun.at = "next" /\ siterun.index <= Len(siterun.list)
  /\ LET p == siterun.list[siterun.index]
     IN IF p \notin ThePages
        THEN siterun' = [siterun EXCEPT !.at = "ended", !.status = "failed"] /\ UNCHANGED written
        ELSE /\ TaskFor(p)
             /\ siterun' = Opened(p)
  /\ UNCHANGED <<blueprint, listed, reference, chosen, edits>>

\* A completed page is passed over; one that was deleted fails the project.
StepOn ==
  /\ siterun.at = "next" /\ siterun.index <= Len(siterun.list)
  /\ LET p == siterun.list[siterun.index]
     IN IF Completed(p)
        THEN siterun' = [siterun EXCEPT !.index = @ + 1] /\ UNCHANGED written
        ELSE IF p \notin ThePages
        THEN siterun' = [siterun EXCEPT !.at = "ended", !.status = "failed"] /\ UNCHANGED written
        ELSE /\ TaskFor(p)
             /\ siterun' = Opened(p)
  /\ UNCHANGED <<blueprint, listed, reference, chosen, edits>>

ListDone ==
  /\ siterun.at = "next" /\ siterun.index > Len(siterun.list)
  /\ siterun' = [siterun EXCEPT !.at = "build"]
  /\ UNCHANGED <<blueprint, listed, reference, chosen, written, edits>>

-----------------------------------------------------------------------------
(* The page is written, and the site built.                                *)

\* The worker's session still has the page as it was opened; the desktop's reads it anew.
DefaultOf(t) == IF siterun.by = "worker" THEN siterun.default ELSE blueprint[written[t].page].default

\* Mutant of Wanted: the blueprint's default goes before the project's choice.
WantedByDefault(t) ==
  IF DefaultOf(t) # NoRef THEN DefaultOf(t)
  ELSE IF written[t].type \in LegalTypes THEN chosen[written[t].type] ELSE NoRef

Wanted(t) ==
  IF written[t].type \notin LegalTypes THEN NoRef
  ELSE IF chosen[written[t].type] # NoRef THEN chosen[written[t].type]
  ELSE DefaultOf(t)

\* Mutant of Injected: a page that searches is given its reference, too.
InjectedAlways(t) == IF Wanted(t) \in Fitting(written[t].type) THEN Wanted(t) ELSE NoRef

\* inject_legal_template_vars: a page that searches has no reference, whatever was chosen; what
\* does not fit is left out, and nothing takes its place.  (A task has its site, which a foreign
\* key keeps: the return without one is never taken.)
Injected(t) ==
  IF ~siterun.serp /\ Wanted(t) \in Fitting(written[t].type) THEN Wanted(t) ELSE NoRef

WritePage ==
  /\ siterun.at = "write"
  /\ \E t \in DOMAIN written, status \in {"completed", "failed"} :
       /\ written[t].status = "running"
       /\ written' = [written EXCEPT ![t].status = status,
                                     ![t].ref = IF status = "completed" THEN Injected(t) ELSE @]
  /\ siterun' = [siterun EXCEPT !.at = IF siterun.by = "worker" THEN "advance" ELSE "next",
                                !.index = IF siterun.by = "worker" THEN 1 ELSE @ + 1,
                                !.default = NoRef, !.serp = FALSE]
  /\ UNCHANGED <<blueprint, listed, reference, chosen, edits>>

\* Without a file for any page of the blueprint there is no site.
BuildSite ==
  /\ siterun.at = "build"
  /\ siterun' = [siterun EXCEPT !.at = "ended", !.list = <<>>, !.index = 1,
       !.status = IF \E p \in ThePages : Completed(p) THEN "completed" ELSE "failed"]
  /\ UNCHANGED <<blueprint, listed, reference, chosen, written, edits>>

-----------------------------------------------------------------------------
(* Operators.                                                              *)

Touched(pages, refs) ==
  /\ edits.count < MaxEdits
  /\ edits' = [count |-> edits.count + 1, pages |-> edits.pages \cup pages, refs |-> edits.refs \cup refs]

\* retry-failed-pages, when nothing runs.
RetryRun ==
  /\ siterun.at \in {"ended", "lost"} /\ Touched({}, {})
  /\ \E t \in DOMAIN written : written[t].status = "failed"
  /\ written' = [t \in DOMAIN written |-> IF written[t].status = "failed"
                                          THEN [written[t] EXCEPT !.status = "pending"] ELSE written[t]]
  /\ siterun' = [siterun EXCEPT !.at = IF siterun.by = "worker" THEN "advance" ELSE "begin",
                                !.status = "generating"]
  /\ UNCHANGED <<blueprint, listed, reference, chosen>>

\* The other pages, in their order.
Others(p) ==
  IF p \in ThePages THEN RemoveAt(listed, CHOOSE i \in DOMAIN listed : listed[i] = p) ELSE listed

PageEdited == siterun' = [siterun EXCEPT !.edited = @ \/ siterun.at = "open"]

\* create_blueprint_page and update_blueprint_page: the page, of any preset, goes to a place,
\* of which sort_order leaves a choice if another page has the same, and its default has
\* passed the check.  (That the check and the commit are apart leads to nothing an edit of the
\* reference after both would not lead to.)
PutPage(p) ==
  /\ Touched({p}, {})
  /\ \E i \in 1..(Len(Others(p)) + 1) : listed' = InsertAt(Others(p), i, p)
  /\ \E type \in Types, serp \in BOOLEAN :
       \E default \in {NoRef} \cup (IF type \in LegalTypes THEN Fitting(type) ELSE {}) :
          blueprint' = [blueprint EXCEPT ![p] = [type |-> type, default |-> default, serp |-> serp]]
  /\ PageEdited
  /\ UNCHANGED <<reference, chosen, written>>

\* delete_blueprint_page: the foreign key of tasks keeps a page that has one.
DropPage(p) ==
  /\ p \in ThePages /\ \A t \in DOMAIN written : written[t].page # p
  /\ Touched({p}, {})
  /\ listed' = Others(p)
  /\ PageEdited
  /\ UNCHANGED <<blueprint, reference, chosen, written>>

\* update_legal_page: also the type may change.
PutRef(r) ==
  /\ reference[r].there /\ Touched({}, {r})
  /\ \E type \in LegalTypes, active \in BOOLEAN :
       reference' = [reference EXCEPT ![r].type = type, ![r].active = active]
  /\ UNCHANGED <<blueprint, listed, chosen, written, siterun>>

\* delete_legal_page: ON DELETE SET NULL; the project's choice stays and names nothing.
DropRef(r) ==
  /\ reference[r].there
  /\ Touched({p \in PageIds : blueprint[p].default = r}, {r})
  /\ reference' = [reference EXCEPT ![r].there = FALSE]
  /\ blueprint' = [p \in PageIds |-> IF blueprint[p].default = r
                                     THEN [blueprint[p] EXCEPT !.default = NoRef] ELSE blueprint[p]]
  /\ UNCHANGED <<listed, chosen, written, siterun>>

RunStep == \/ ChooseNext \/ OpenChosen \/ BeginRun \/ StepOn \/ ListDone \/ WritePage \/ BuildSite

BlueprintNext ==
  \/ RunStep \/ RetryRun
  \/ \E p \in PageIds : PutPage(p) \/ DropPage(p)
  \/ \E r \in RefIds : PutRef(r) \/ DropRef(r)

\* A worker takes every message, and a page ends.
BlueprintFairness == WF_blueprintVars(RunStep)

BlueprintSpec == BlueprintInit /\ [][BlueprintNext]_blueprintVars /\ BlueprintFairness

-----------------------------------------------------------------------------
BlueprintTypeOK ==
  /\ blueprint \in [PageIds -> PageRows] /\ reference \in [RefIds -> RefRows]
  /\ chosen \in [LegalTypes -> RefIds \cup {NoRef}]
  /\ written \in Seq([page : PageIds, type : Types, status : {"pending", "running", "completed", "failed"},
                      ref : RefIds \cup {NoRef}])
  /\ siterun.at \in {"advance", "open", "begin", "next", "write", "build", "ended", "lost"}
  /\ siterun.status \in {"generating", "completed", "failed"}
  /\ {listed, siterun.list} \subseteq Seq(PageIds) /\ siterun.index \in Nat \ {0} /\ siterun.read \subseteq PageIds
  /\ edits.count \in 0..MaxEdits
  \* the foreign keys
  /\ \A t \in DOMAIN written : written[t].page \in ThePages
  /\ \A p \in ThePages : blueprint[p].default # NoRef => reference[blueprint[p].default].there

\* A page that is written gets a second task only on a worker, and only if pages were edited
\* between the choice of a number and its use (tasks.py:190-224).
PageOnce ==
  [][Len(written') > Len(written) /\ Completed(written'[Len(written')].page)
       => siterun.by = "worker" /\ siterun.edited]_blueprintVars

\* A completed project has tried every page that its blueprint had when it was last read: by
\* the last advance_project, or on the desktop at the start of the run (tasks.py:415).
AllTried ==
  siterun.status = "completed" =>
    \A p \in siterun.read : \E t \in DOMAIN written :
       written[t].page = p /\ written[t].status \in {"completed", "failed"}

\* A page whose preset searches is written from no reference.  Any other is written from the
\* one the project chose for its type, or else from its own default, unless the reference was
\* edited since the project was made; and no page from one of another type.  A page that
\* nobody edited has the preset and the default it had (legal_reference.py:35-84,
\* context.py:62-70).
ChoiceHonoured ==
  [][\A t \in DOMAIN written :
       written'[t].status = "completed" /\ written[t].status = "running" =>
         LET w == written'[t]
             choice == IF w.type \in LegalTypes THEN chosen[w.type] ELSE NoRef
         IN /\ w.ref # NoRef => reference[w.ref].type = w.type
            /\ choice \notin edits.refs \cup {NoRef} =>
                 w.ref = IF siterun.serp THEN NoRef ELSE choice
            /\ w.page \notin edits.pages /\ w.type \in LegalTypes =>
                 /\ blueprint[w.page].serp => w.ref = NoRef
                 /\ /\ choice = NoRef /\ blueprint[w.page].default \notin edits.refs
                    /\ ~blueprint[w.page].serp
                    => w.ref = blueprint[w.page].default]_blueprintVars

\* However its blueprint is edited, a run ends; only its chain of messages may break, at a
\* number that names no page any more because pages were edited since it was chosen
\* (tasks.py:193-199).
SiteRunEnds ==
  siterun.at \in {"advance", "begin"} ~> siterun.at = "ended" \/ (siterun.at = "lost" /\ siterun.edited)
=============================================================================
