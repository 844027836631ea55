------------------------------ MODULE MCServices ------------------------------
(* The services beside the pipeline, checked one at a time: which one is      *)
(* chosen at the start, and the others stay in an initial state of theirs.    *)
EXTENDS LlmStep, SerpFetch, ProjectDesk, PromptStore, BlueprintRun, AuthorList

VARIABLE which

Services == {"llm", "serp", "desk", "prompts", "blueprint", "authors"}

Url(d, h) == [domain |-> d, host |-> h, path |-> 1]
MCUrls == {Url("a", "a"), Url("a", "www.a"), Url("b", "b"), Url("x", "x"), Url("c", "c")}
MCUserUrls == [t \in Searchers |-> IF t = 1 THEN {Url("c", "c")} ELSE {}]
MCAnswers == {{Url("x", "x")}, {Url("a", "a"), Url("a", "www.a"), Url("b", "b")}}

Setup(pages, choice) ==
  [listed |-> pages,
   blueprint |-> [p \in PageIds |-> [type |-> "privacy", default |-> "r1", serp |-> p # "p1"]],
   reference |-> [r \in RefIds |-> [there |-> TRUE, type |-> "privacy", active |-> TRUE]],
   chosen |-> [type \in LegalTypes |-> IF type = "privacy" THEN choice ELSE NoRef]]
MCSetups == {Setup(<<"p1", "p2">>, "r2"), Setup(<<"p1">>, NoRef)}

MCInit ==
  /\ which \in Services
  /\ LlmInit /\ SerpInit /\ DeskInit /\ PromptInit /\ BlueprintInit /\ AuthorInit
  /\ which # "llm" => job = [kind |-> "draft", provider |-> "direct", ceiling |-> 0]
  \* a ceiling is lowered within one call, on OpenRouter: the steps of one call have one
  /\ job.kind \in {"structure", "images", "editing"} \/ job.provider = "direct"
       => job.ceiling = 0
  \* the memory of the desktop with one engine
  /\ serp.cache = "memory" => serp.engine = "google"
  /\ which # "serp" => serp = [engine |-> "google", cache |-> "redis", clears |-> 0, missed |-> FALSE]
  /\ which # "blueprint" => siterun.by = "worker" /\ Len(listed) = 1

Llm == which = "llm" /\ UNCHANGED <<which, serpVars, deskVars, promptVars, blueprintVars, authorVars>>
Serp == which = "serp" /\ UNCHANGED <<which, llmVars, deskVars, promptVars, blueprintVars, authorVars>>
Desk == which = "desk" /\ UNCHANGED <<which, llmVars, serpVars, promptVars, blueprintVars, authorVars>>
Prompts == which = "prompts" /\ UNCHANGED <<which, llmVars, serpVars, deskVars, blueprintVars, authorVars>>
Pages == which = "blueprint" /\ UNCHANGED <<which, llmVars, serpVars, deskVars, promptVars, authorVars>>
Authors == which = "authors" /\ UNCHANGED <<which, llmVars, serpVars, deskVars, promptVars, blueprintVars>>

\* The next-state relations of the modules, disjunct by disjunct.
MCNext ==
  \/ (Resend /\ Llm) \/ (Answer /\ Llm) \/ (Error /\ Llm) \/ (Unusable /\ Llm)
  \/ \E n \in 0..job.ceiling : (Afford(n) /\ Llm)
  \/ (SwitchedOff /\ Llm) \/ (Prepare /\ Llm) \/ (Send /\ Llm) \/ (LlmError /\ Llm)
  \/ (Draft /\ Llm) \/ (Legal /\ Llm) \/ (Analysis /\ Llm) \/ (Outline /\ Llm)
  \/ (FactCheck /\ Llm) \/ (Meta /\ Llm) \/ (AskAgain /\ Llm) \/ (Edited /\ Llm)
  \/ (Recover /\ Llm) \/ (Structured /\ Llm) \/ (BlockDone /\ Llm) \/ (BlockFailed /\ Llm)
  \/ (Deadline /\ Llm) \/ (TimeUp /\ Llm)
  \/ \E t \in Searchers :
       \/ (LookUp(t) /\ Serp) \/ (TakeUserUrls(t) /\ Serp) \/ (AskGoogle(t) /\ Serp)
       \/ (AskBing(t) /\ Serp) \/ (AskSerpApi(t) /\ Serp) \/ (Store(t) /\ Serp)
       \/ (ReadUrls(t) /\ Serp) \/ (WriteUrls(t) /\ Serp) \/ (SaveRow(t) /\ Serp)
       \/ (NothingToScrape(t) /\ Serp) \/ (Scrape(t) /\ Serp) \/ (RerunSerp(t) /\ Serp)
  \/ (ClearCache /\ Serp) \/ (Expire /\ Serp)
  \/ \E c \in Clients :
       \/ (AskCreate(c) /\ Desk) \/ (AskLaunch(c) /\ Desk) \/ (AskClone(c) /\ Desk)
       \/ (AskStart(c) /\ Desk) \/ (AskEdit(c) /\ Desk) \/ (AskDelete(c) /\ Desk)
       \/ (AskDeleteSite(c) /\ Desk) \/ (Resolve(c) /\ Desk) \/ (NewSite(c) /\ Desk)
       \/ (Check(c) /\ Desk) \/ (Insert(c) /\ Desk) \/ (Worker(c) /\ Desk) \/ (Queue(c) /\ Desk)
       \/ (Name(c) /\ Desk) \/ (Edit(c) /\ Desk) \/ (PurgeArticles(c) /\ Desk)
       \/ (PurgeTasks(c) /\ Desk) \/ (RemoveProject(c) /\ Desk) \/ (RemoveSite(c) /\ Desk)
  \/ (NewDraft /\ Desk)
  \/ \E s \in Slots :
       \/ (Archive(s) /\ Desk) \/ (Reset(s) /\ Desk) \/ (RetryPages(s) /\ Desk)
       \/ (RerunPage(s) /\ Desk) \/ (EndPage(s) /\ Desk)
       \/ (Take(s) /\ Desk) \/ (OpenPage(s) /\ Desk) \/ (WriteArticle(s) /\ Desk)
       \/ (Finish(s) /\ Desk) \/ (Kill(s) /\ Desk) \/ (Requeue(s) /\ Desk)
  \/ \E e \in Editors :
       \/ (CreatePrompt(e) /\ Prompts) \/ (RestorePrompt(e) /\ Prompts)
       \/ (Deactivate(e) /\ Prompts) \/ (HoldRows(e) /\ Prompts) \/ (SavePrompt(e) /\ Prompts)
       \/ (PutPreset(e) /\ Prompts) \/ (ClearItems(e) /\ Prompts) \/ (WritePreset(e) /\ Prompts)
  \/ \E p \in Presets : (DeletePreset(p) /\ Prompts)
  \/ (ChooseNext /\ Pages) \/ (OpenChosen /\ Pages) \/ (BeginRun /\ Pages) \/ (StepOn /\ Pages)
  \/ (ListDone /\ Pages) \/ (WritePage /\ Pages) \/ (BuildSite /\ Pages) \/ (RetryRun /\ Pages)
  \/ \E p \in PageIds : (PutPage(p) /\ Pages) \/ (DropPage(p) /\ Pages)
  \/ \E r \in RefIds : (PutRef(r) /\ Pages) \/ (DropRef(r) /\ Pages)
  \/ \E r \in ListReaders :
       \/ (AskList(r) /\ Authors) \/ (LookInto(r) /\ Authors) \/ (ReadAuthors(r) /\ Authors)
       \/ (KeepList(r) /\ Authors) \/ (GiveList(r) /\ Authors)
  \/ \E w \in ListWriters : (ChangeAuthor(w) /\ Authors) \/ (ClearList(w) /\ Authors)
  \/ (PassTime /\ Authors)

MCVars == <<which, llmVars, serpVars, deskVars, promptVars, blueprintVars, authorVars>>

\* The fairness of the modules.
MCFairness ==
  /\ WF_MCVars(Body /\ Llm) /\ WF_MCVars(Provider /\ Llm)
  /\ \A t \in Searchers : WF_MCVars(SerpThread(t) /\ Serp)
  /\ \A s \in Slots : WF_MCVars(Take(s) /\ Desk) /\ WF_MCVars(Requeue(s) /\ Desk)
  /\ \A e \in Editors :
       WF_MCVars((Deactivate(e) \/ HoldRows(e) \/ SavePrompt(e)) /\ Prompts)
  /\ WF_MCVars(RunStep /\ Pages)

MCSpec == MCInit /\ [][MCNext]_MCVars /\ MCFairness

\* The types of all six.
ServicesTypeOK ==
  LlmTypeOK /\ SerpTypeOK /\ DeskTypeOK /\ PromptTypeOK /\ BlueprintTypeOK /\ AuthorTypeOK

\* What was begun ends, however what is around it fails: a step that asks a model and a
\* search (runner.py:101-154, serp_step.py:24-214), a project's wait for a worker
\* (tasks.py:579-592), the wait of a save for the rows of another (prompts.py:81), and the run of
\* a project whose blueprint is edited (tasks.py:178-256).
LlmStepEnds == which = "llm" => StepEnds
SerpSearchEnds == which = "serp" => SearchEnds
BlueprintRunEnds == which = "blueprint" => SiteRunEnds
AllEnds == LlmStepEnds /\ SerpSearchEnds /\ PendingLeaves /\ SavesEnd /\ BlueprintRunEnds
=============================================================================
