# A TLA+ model of n8nrep

n8nrep generates SEO articles. A FastAPI application stores *tasks* (one article)
and *projects* (one site, a page per blueprint page) in a database; Celery workers
take the messages the application sends and run the pipeline of the task, step by
step, saving every step in one JSON column of the task's row. Operators look at the
results, approve what the pipeline pauses for, rerun steps, and force a status; the
periodic job of Celery beat marks as stale what has stopped making progress.

The hard part of this program is not in any one function. It is in the row of the
task, which HTTP handlers, one or more deliveries of Celery and beat all read, keep
in their sessions and write back, while workers crash, messages are delivered again
and operators click. The model is about this.

## Inventory

| Part | State | Operations | What makes it correct |
| --- | --- | --- | --- |
| Article pipeline runner (`app/services/pipeline/runner.py`, `persistence.py`) | `tasks.status`, `step_results` with the step entries, `_pipeline_pause`, the three approvals, `_pipeline_plan`; `last_heartbeat` | `run_pipeline`, the pauses on entry and after a step, `_run_phase` with timeout, skip, retry, `save_step_result`, the failure path | a review is never passed over; finished steps are not repeated; an approval is not lost; every delivery ends |
| Steps (`pipeline/steps/*`) | `serp_data`, `competitors_text`, `outline` | `run` of 21 steps, with the commits they make of their own | what is committed before the step is saved can be resumed from |
| Assembly (`pipeline/assembly.py`) | `generated_articles` | `finalize_article`, `_upsert_article` | one article per completed task |
| Task API (`app/api/tasks.py`, `services/queueing.py`) | the task's row, `celery_task_id` | create, next, start-all, retry, approve, approve-serp-urls, approve-images, force-status, rerun-step, regenerate-image, delete | a pending task has a message; a paused one can be resumed |
| Celery delivery (`app/workers/celery_app.py`, `tasks.py`) | messages, ids to revoke | receive, redeliver after a lost worker (`acks_late`, `reject_on_worker_lost`), kill at the hard limit, revoke | messages are worked off |
| Beat (`cleanup_stale_tasks`) | — | stale scan, step timeout scan, requeue of old pending projects | orphans are cleaned up, nothing else is |
| Project coordinator (`workers/tasks.py`, `app/api/projects.py`) | `site_projects` status, stop flag, page index | start, advance, page, stop, approve page, finalise | one chain of pages, each page once, the project ends |
| Desktop runner (`services/project_runner.py`) | running set, semaphore, threads | launch, run with timeout, clean-up loop | a project runs once; a timeout gives its place back |
| LLM client (`services/llm.py`, `pipeline/llm_client.py`, bodies of the steps) | retries, `total_cost` | retry, downscale on 402, repeats of a step's own check | it ends, within its bounds, and what was paid is booked |
| SERP providers and cache (`services/serp.py`, `serp_cache.py`, `memory_cache.py`) | cached results | fetch with fallbacks, cache, merge, invalidate | a task gets its own URLs; a rerun fetches anew |
| Event bus and stream (`services/event_bus.py`, `api/sse.py`) | subscriber queues of 500 | subscribe, publish, drop | a browser hears the end |
| Project API (`app/api/projects.py`, `sites.py`) | `site_projects`, `sites` | drafts, create, launch, clone, start, edit, archive, delete | no duplicates, no half deletions, nothing left pending |
| Prompts and presets (`app/api/prompts.py`, `prompt_presets.py`) | versions, pinned versions | create, restore, replace a preset, resolve | an agent always has a prompt; one active version |
| Catalogue API (`blueprints.py`, `legal_pages.py`, `authors.py`, ...) | pages, legal references, a cached list | edits while a run reads | a run tries every page; a list is not older than its TTL |
| Plans and progress (`pipeline_presets.py`, `pipeline_constants.py`, `calculate_progress`) | — | resolve a preset, compute progress | pure functions |
| Site builder, scraper, exports, frontend | — | — | formatting, network |

How they interact: the API and the coordinator change the row and send messages; a
delivery reads the row once, when it is received (sessions are opened with
`expire_on_commit=False`), and from then on writes back columns of its own copy;
beat reads rows, revokes messages and writes statuses; a page of a project is a task
run with `auto_mode`, whose pauses approve themselves. On the desktop there is neither
Celery nor Redis: one event loop starts a thread per project, and the browser watches it
through an event stream.

What is hard: two deliveries of one task at once (a handler sends a second message
while the first is still running); the whole JSON column written back by whoever
saves last; commits of a step that precede the saving of the step; crashes between
them, with redelivery; a broker failure between the handler's commit and its
message; beat's decision on data it read earlier; pauses that no handler accepts;
threads that outlive their timeout; retries nested in retries; caches that are filled
while they are cleared; requests that check and commit at different times; blueprints
edited under a running project.
`PROJECT.json` lists these hazards one by one, with the line where each bites and
the properties that watch it.

## Modules

### TaskPipeline

One task from creation to its article. What its variables stand for:

| Variable | Code |
| --- | --- |
| `db` | the row: `status`, `step_results` (`sr`: an entry per step, plan, active pause, approvals, `waiting_for_approval`), whether `serp_data` and `competitors_text` are set |
| `hb` | `last_heartbeat` (or `updated_at` while it is NULL), as an age |
| `celeryId`, `revoked` | `tasks.celery_task_id`, ids given to `control.revoke` |
| `articles` | number of `generated_articles` rows of the task |
| `pc`, `idx`, `att`, `auto` | where a delivery is in `run_pipeline`, at which step of its plan, in which attempt, and its `auto_mode` |
| `mem`, `found` | the row as the delivery's session holds it; the article `_upsert_article` found: none, a row, or one deleted since (`gone`) |
| `beat` | the clean-up between its query and its commit |
| `faults`, `unsent`, `unreviewed` | bound on faults, and history the properties speak of |

A delivery walks through the labels of `pc` in the order of the code: `queued`,
`begin` (message taken, `celery_task_id` committed), `entry` (status *processing*
committed; `_handle_pause_on_entry`), `phase` (the loop), `refresh`, `exec` and
`fetched` (inside `step.run`), `save`, `after` (`_handle_pause_after_step`), `fail`,
`final` and `upsert` (`finalize_article`), `done`. There is one action per commit,
because between two commits anything else may happen. `Written` is SQLAlchemy's unit
of work: a commit writes the columns whose values differ from what the session
loaded, and `step_results` is one column. This is why the loop in the failure path
of `run_pipeline`, which changes the loaded JSON in place, writes nothing (`FailRow`),
and why saving a step can take back an approval (`SaveStep`).

The operators' actions are the handlers of `app/api/tasks.py`, each with its checks,
its commit and the sending of the message, which may fail (`Enqueue`). `Careful`
restricts *when* operators act, to a task on which nothing runs and, for images, to
the pause in which the task page offers the button: what remains true only then is
checked under `Careful`, the races are checked without it.

`_upsert_article` queries in `Assemble` and writes in `Upsert`. A cascading rerun in between
deletes the row the delivery holds (`DeleteArticle`). If the delivery's text differs from
that row the UPDATE finds nothing and raises (`Fail`); if it is the same, as when two
deliveries finalise the same steps, SQLAlchemy has no changed column, sends no UPDATE, and
the commit goes through (`Upsert` of a `gone` article). Both are possible in the model.

Beat scans in one action and commits in another. Time is kept as ages in ticks of 15
minutes that saturate just above the thresholds (`STALE_TASK_TIMEOUT_MINUTES` = 15,
`STEP_TIMEOUT_MINUTES` = 30), so the model is finite without a bound on time.

Left out of the module: texts, costs, logs and notifications; unknown step names
(skipped by the code); strict fact-checking, which is one more way for
`finalize_article` to raise (`Fail` covers it); `total_cost`; other tasks (`next`
asks whether any task is processing).

### MCTaskPipeline

The plans of the runs and the symmetry of deliveries. The plans are cut from presets
and custom plans to one step of each kind the control flow tells apart: a step with
a review, a step guarded by data it committed before, one that refreshes, one that is
skipped, a primary generation (the gate of `TEST_MODE`), and the meta step without
which no article can be assembled.

### TaskPipelineProofs

Theorems about TaskPipeline for every plan and any number of deliveries: in every
environment, or under the hypotheses that each theorem names. See Proofs.

### ProjectCoordinator

A site project: the row of `site_projects`, the tasks of its pages and the messages
that carry it on. `process_site_project` sends `advance_project`, which chooses the
first page that is not done and sends `process_project_page`, which runs the page and
sends `advance_project` again; when no page is left `advance_project` builds the site.
How a page is written is TaskPipeline's matter: here the page's run ends *completed*
or *failed*, or raises a database error.

| Variable | Code |
| --- | --- |
| `project` | the row: `status`, `stopping_requested`, whether `build_zip_url` is set |
| `tasks` | the project's tasks in the order of creation: page, status, whether an article exists, and `claim`, the message `tasks.celery_task_id` names, as long as that message is live |
| `job` | one slot per message: where its handler is (`at`), which handler (`kind`), its argument, the task it works on, whether it is the project's `celery_task_id` (`named`), and `seen`, the project as the handler's session holds it |
| `requests`, `faults` | bounds on what operators, beat and the world do |
| `unsent`, `asked` | history: somebody has seen a `delay()` raise; pages begun since a stop request |

The labels of `at` follow the handlers: `begin` (starter), `choose`, `await`,
`generate`, `build`, `finish` (coordinator), `open`, `run`, `running`, `report`,
`retry` (page), and `stop`, `fail`, `send`, `ack`, which they share. Again there is
one action per commit. A handler loads the project once: `Written` lets a commit write
the columns that differ from `seen` and no others, so a handler that "sets" the
status its copy already has writes nothing. `seen` is reset where it is not looked at
again, to keep the state space small; the copy read anew by `PageInfra` (after a
rollback) is kept.

Messages are acknowledged after the handler has ended (`acks_late`): `Send` queues the
next message while the present one is still live, and a worker lost at any label
(`Crash`) puts it back. The hard time limit is long enough for everything but the run
of a page (`Lose`). Beat appears as `MarkStale` (the heartbeat scan, with the
revocation of the page's message) and `Requeue`. The 60 seconds of the retry after a
database error are not modelled: the message simply waits in its slot, while anything
may happen.

`Careful` narrows *start*, *retry-failed* and *reset-status* to a project on which no
message is live. It is stronger than what the project page enforces (its buttons look
at the status only), and only ProjectChain uses it.

Left out: drafts, cloning, deletion and archiving (ProjectDesk has them), changes of the
blueprint while its project runs (BlueprintRun has them), export, `rebuild-zip`, the
retry of a single page from the task page, logs, costs and `current_page_index`, which
no decision reads, and an exception inside an except clause.

### ProjectCoordinatorProofs

Theorems about ProjectCoordinator, that it implements SitePlan, and what follows from that
for its rows and messages. See Proofs.

### SitePlan and MCProjectCoordinator

`SitePlan` is what a project promises its operator, without messages, workers or rows:
pages one at a time and in order, each with the operator's leave where the project asks
for it, a stop only when asked for, completion only when every page was tried and one
written, and every page that is begun ends. `MCProjectCoordinator` maps the coordinator
to it: `phase` and `toStop` are columns of the row; a page's `outcome` is read off its
tasks; `current` is the page of the message that is between the start of its run and its
report; and the `leave` is a message (an approved `advance_project`, or a
`process_project_page` nobody has opened yet). `RunsPlan`, the specification of SitePlan
under this mapping, is a property of ProjectChain: requests at rest and no lost message,
for with two chains neither one-at-a-time nor the order survives.

### DesktopRunner and MCDesktopRunner

The desktop's replacement of Celery, for several projects. `run` holds per run the state
of its asyncio task (`aio`) and the place of its thread in `_project_sync` (`at`), with
the copy of the row it refreshed last (`seen`); `running` is `_running`, `scheduled` the
launches handed to `create_task`. `Enter` takes a place of the semaphore, `Return`,
`Raise`, `Timeout` and `Expire` are the ends of `wait_for`: after a timeout the thread
goes on, as in Python it must, while the place is free and the project may be launched
again. `stream` is the path of an event: `call_soon_threadsafe` puts it on the `wire`,
the loop (`Deliver`) puts it into the bounded queue or drops it, `Receive` ends the
stream on a "done". `Restart` is the end of the process and the clean-up of the next
start (`main.py:102`). Bounds: two pages and one (a page to go on to), queues of one
event (full at the second), at most two runs alive, one request and one fault. The
instance is either one project with everything that may happen to it, or two projects
and one place.

`DesktopRunnerProofs` has the theorems, for any number of projects, pages, runs and
places.

### LlmStep

A step that asks a model: `_run_phase` with its attempts and its deadline, the body of
the step, `call_agent`, `generate_text`. One thread, so one process with a program
counter `at`; what the model keeps apart is where money is: `paid` to the provider,
`own` (the sum in the body), `session`, `row`, and `saved` with the step. A `Rollback`
takes the session back to the row, as in the code. Nine kinds of body differ in what
they do with an unreadable answer and in how they ask again. Prompts and texts are
abstracted to whether an answer is good, short of words, or bad. Below `Send` the clients of
OpenAI and Anthropic, which every provider's function uses and none configures
(`llm.py:50`, `openai_codex.py:49` and 57, `perplexity.py:25`, `claude.py:37` and 44), send a
request again on lost connections, timeouts, 408, 409, 429 and 5xx, twice by default:
`Resend`, external code, bounded by `SdkRetries`. `Error` is what reaches the program
afterwards. `LlmStepProofs` has the theorems, for any setting of the bounds.

### SerpFetch

Two tasks with the same keyword, the cache of `fetch_serp_data`, Google, Bing and
SerpAPI with their fallbacks, the merging of the user's own URLs, the saved `serp_data`,
scraping, and the two requests that invalidate. Dicts of Python live in `heap`, because
the memory cache hands out a reference and Redis a copy. URLs are records of domain,
host and path, as `www.` counts for one comparison and not for another. `SerpFetchProofs`
has the theorems, for any set of tasks, URLs and answers.

### ProjectDesk

The requests around projects, each a sequence of steps (`Path`) as its handler reads,
checks and commits; an async handler keeps the event loop, the others interleave. A
deletion is three statements, with a worker that opens the project's page and writes its
article in between; beat requeues what stays pending. The page's task is also reachable
without its project: retry, rerun-step and the approvals of the task page look at the task's
status only, and queue a delivery of its own (`RerunPage`), which inserts an article
(`EndPage`) whatever the project is. `own` says that such a delivery is under way; two of
them are one here (TaskPipeline has the overlap). A request that no other overlapped
keeps `alone`; a worker that takes up or finishes a project that has ended ends it
(`Late`: a message may still be queued after a reset, or come twice), and a deletion that
finds a delivery of the page's own never has it. `NoTwin` and `DeleteClean` speak of the
requests that keep it. There are as many rows
for sites as requests can found, finitely many of each, and 0 is the slot of a request
without a project (`DeskConstants`). `ServicesProofs` has the theorems.

### PromptStore

Versions of prompts and presets that pin them. A save is a transaction at READ
COMMITTED: it takes the next number, deactivates the rows it sees (`Deactivate`), waits
for rows another holds (`HoldRows`) and inserts. Nothing in the database keeps an agent
at one active prompt: the migrations drop the unique index.

### BlueprintRun

A site's run, on workers or on the desktop, while pages and legal references are edited:
`siterun.list` is what the desktop read once, `siterun.index` the number a worker was
sent, `siterun.read` the pages of the last reading. The resolution of a page's legal
reference (project's choice, page's default, none) is part of `WritePage`. A page whose
preset searches (`serp`, read once when its delivery begins: `Opened`) gets no reference
whatever was chosen, as `legal_reference.py:48` has it. The moments between the page's task
and its `PipelineContext` are taken as one. The return for a missing site
(`legal_reference.py:52`) is never taken: a foreign key keeps the task's site.
`BlueprintRunProofs` has the theorems, for any blueprint and any edits.

### AuthorList

The cached list of authors with the time of its reading, its clearing by changes, and
the reads without the lock. `CatalogueProofs` has the theorems about it and about
PromptStore.

### MCServices

LlmStep, SerpFetch, ProjectDesk, PromptStore, BlueprintRun and AuthorList share no
state, so they are checked in one run that chooses one of them at the start (`which`)
and leaves the others in an initial state: the state space is the sum of theirs, and not
the product. Its next-state relation lists theirs disjunct by disjunct. `ServicesProofs`
shows that each of the six keeps in this specification what it promises by itself.

## Runs

| Run | Instance | Shows |
| --- | --- | --- |
| Reviews | SERP, image and test-mode reviews in one plan, or a project page with all of them under `auto_mode`; 4 deliveries (one per review and the first), careful operators, one broker failure | `ReviewRespected`: no delivery works past an open review; `QuietMeansReview`: a task on which nothing works and which is not finished waits for a review an endpoint accepts; `ApprovalKept`; `PageEnds`: a page nobody touches ends completed or failed |
| OperatorsRace | shortest plan with the test-mode review, 3 deliveries (one up to the review, two that may finalise together), operators at any time, one lost worker, database error or broker failure | `PendingHasJob` with overlapping deliveries; `ArticleBehindStatus`: no step completes a task without an article or takes the article of a completed one, but for a forced status and a delivery whose article a cascading rerun deleted after it was found |
| Progress | 2 deliveries, beat, retries, one fault of three kinds, fairness | `TypeOK`, `AtMostOneArticle`, `WorkKept`, `DeliveryEnds`, `PendingStarts`, `OrphanCleaned` |
| CrashSkipsReview | one delivery, one crash | violates `ReviewRespected` |
| ApprovalLost | an approval at any time | violates `ApprovalKept` |
| ImageRerunStuck | a rerun during the image review | violates `QuietMeansReview` |
| StaleOverCompleted | beat and one delivery | violates `CompletedStays` |
| ProjectChain | 3 pages with page approval, one chain, 4 requests out of six, 2 faults out of database error and exception, fairness | `OneTaskPerPage`, `StopsAfterCurrentPage`, `CompletedHasSite`, `ProjectRests`, `TypeOK`, and `RunsPlan`: the chain implements SitePlan |
| ProjectChains | 1 page, 3 messages, 2 requests at any time, one lost worker, cut-off page, exception or refused message | `ChainAccounted`: the chain of a generating project breaks only where that shows |
| PageBreaksChain | 2 pages, beat once | violates `ChainAlive` |
| Desktop | one project with requests, stream and faults, or two projects and one place | `OneThread`: one awaited thread per project; `GeneratingServed`: no generating project without a run, but for the named losses; `PagesTried`; `StreamTold`: a browser hears the end; `PlacesGoRound`: places come back and launches get one; `TypeOK` |
| Services | one of six modules, see below | see below |

What Services shows, by module:

| Module | Instance | Shows |
| --- | --- | --- |
| LlmStep | every kind of body, one retry of the step, two attempts of the call, one of the SDK, two self-checks, one downscale, two images | `RequestsBounded`: nested retries, the SDK's included, cost at most the product of their bounds; `CostKept`: what was paid is in the task's cost and the step's cost is a part of it, through rollbacks; `AllEnds`: the step ends |
| SerpFetch | two tasks, every engine on Redis and Google in memory, two answers, an excluded domain, one URL of a user | `OwnUrls`: no URL of another task through the cache of the server; `NothingLost`: fallbacks lose no provider's URLs; `ClearedIsGone`: after an invalidation nothing older is served, but for a fetch under way; `AllEnds` |
| ProjectDesk | two projects, two sites, two clients, three requests | `NoTwin`: duplicates come only of overlapping requests and of those that check nothing; `DeleteClean`: a deletion without force, overlap and delivery under way neither fails halfway nor leaves a task; `AllEnds`: nothing stays pending |
| PromptStore | two editors, four saves, two agents, one preset | `AgentServed`: every committed state has a prompt for a call; `LoneSave`: a save nobody overlaps leaves one active prompt with the newest number, or the preset as asked; `AllEnds`: no save waits for ever |
| BlueprintRun | two pages, two references, two edits, worker or desktop | `PageOnce`: no page is written twice, unless on workers after an edit; `AllTried`: a completed site has tried the pages last read; `ChoiceHonoured`: a page that searches has no legal reference, any other the chosen one or the default, of the right type; `AllEnds`: the run ends, or breaks at a number that names no page after an edit |
| AuthorList | two readers, one writer, two changes, TTL of one tick | `ListFresh`: no list misses a change older than the TTL, and one nobody read across is never hidden |

Bounds. A delivery more brings no new kind of overlap once two can run together, and
the reviews need one delivery each; OperatorsRace is without *force-status failed*, whose
revocations multiply its states by eight (Progress and Reviews have it, and
`PendingNeverLost` and `CompletionsBacked` hold with it); one fault hits any single point, a redelivery and
the clean-up after it included. Steps are bounded by the plan, attempts by the step's
policy, ages saturate.

For the coordinator, three pages are the fewest with a first, a middle and a last one;
ProjectChain has two slots because a chain holds at most two messages (one sent, one
not yet acknowledged); four requests allow stop, resume, stop again and approve.
ProjectChains has three slots, so that a second chain runs against the first one and
its successor, and gives the two chains the same page, which is where they collide;
the theorem `ChainNeverBroken` removes its bounds.

In Services two actors meet wherever requests overlap, and the counts of requests, edits
and saves are those at which a third kind of step can fall between two of another: three
requests on the desk let a deletion meet a create and a launch, four saves let one save
wait for another between two that are over, two edits let pages be removed and added
under one run. LlmStep has two attempts of the call, one retry of the step and one resend of the SDK
(`SdkRetries`; two in the libraries), so that each level is left by success and by
exhaustion; `RequestsBounded` multiplies the constants.
Ceilings of 0 and 6 over a floor of 2 are a call without `max_tokens` and one that can be
lowered, tried for the steps of one call on OpenRouter, since every call starts again from
the ceiling; the theorem has no such restriction; with one downscale allowed, the second refusal meets the bound, as the
twenty-first does in the code.

Why the passing runs are restricted as they are. Reviews runs without crashes and
retries and with careful operators, because without these restrictions the
properties do not hold: those are the violation runs, and a retry after a failure
between the image pause and the saved result ends in the same dead end as
ImageRerunStuck. Progress checks that there is never a second article with
careful operators only: two deliveries that finalise together can insert two
(`_upsert_article` queries and inserts in two steps, and `generated_articles.task_id`
has no unique constraint). ProjectChain runs without lost workers and with one chain
because `OneTaskPerPage` and `ProjectRests` do not hold otherwise (see the findings).

Fairness (`FairSpec`). Weak fairness of each delivery's own steps (`Work`): workers take
messages as long as there are some, and a step ends, by a result or an exception, as
the calls it makes have timeouts of their own. Crashes, retries of a step and
heartbeats are in `Disturb` and get no fairness: liveness must hold without them.
Weak fairness of the clock and of both halves of beat's clean-up, which celery beat
runs every ten minutes. Operators get none. The coordinator's `FairSpec` is weak
fairness of each message's own steps in the same sense; requests and faults get none,
so `ProjectRests` says that a generating project comes to rest without any help.

The desktop's fairness: the event loop's own steps, its timer (`Expire`), and strong
fairness of `Enter`, since a place may come and go (asyncio wakes the waiters in their
order); a thread's steps are fair but for the end of a page (`PageDone`), which may hang:
`PlacesGoRound` must hold without it. In Services: the step's thread runs and every
request to a provider is answered or given up by the client's own timeout
(`llm.py:17`, `serp.py:253`: 30 seconds); beat runs, its messages are accepted in the end
and there is a worker; a transaction that waits for nobody goes on; a worker takes every
message of a run. Edits, requests, invalidations and errors get none.

## Findings

- **A lost worker skips the SERP review** (CrashSkipsReview). `SerpStep.run` commits
  `serp_data`, then the pause. If the worker is lost in between, the redelivery finds
  `serp_data` set, returns at once, and no pause is ever written.
- **An approval is overwritten** (ApprovalLost). The pause is visible before the step
  is saved; an approval that arrives in between is written over by the delivery's
  copy of `step_results`, and the task pauses again.
- **A rerun of image generation in its review ends nowhere** (ImageRerunStuck). The
  pause stays active, the result is gone: the new delivery stops at entry, and
  approve-images refuses for want of a result.
- **Beat marks a completed task stale** (StaleOverCompleted). It writes the status of
  every row its query returned, whatever the row holds by then.

- **A page that beat kills takes its project with it** (PageBreaksChain).
  `cleanup_stale_tasks` marks the page's task stale and revokes its message with
  `terminate=True`. The `advance_project.delay` at the end of that message is never
  reached; the project stays *generating* with no message, and beat requeues only
  *pending* projects, although `advance_project` counts a stale page as done. The
  same end follows from the hard time limit.

Other observations on projects. *reset-status* leaves a failed project which, if none
of its tasks has failed, no endpoint takes on: retry-failed answers 400, start wants
*pending*, resume wants *stopped*; the docstring speaks of a normal retry
(projects.py:1368). A page message that is delivered again after its worker was lost
finds the page's task *processing* and makes a second one; and after a worker lost
between sending and acknowledging, two chains share the project, of which one can set
it back to *generating* after the other has ended it, and each can take the stop
request of the other. resume, retry-failed and approve-page commit *generating*
before they send: a broker that refuses leaves a generating project without a
message, which only the operator has seen.

Other observations on the desktop. A launch that meets a run with nothing left to do is
ignored, and the project stays *generating* until it is stopped or the process starts
anew; a thread whose time
is up goes on writing, and its exception is lost; a stream is not told when the project
is failed from outside its thread, or when its queue is full; "Will retry next pass"
(project_runner.py:269) leaves a page *pending* which no pass takes up again, in a
project that completes; and the memory cache hands out its dict, into which the SERP
step merges the user's URLs, so they reach other tasks with the keyword.
`SERP_CACHE_ENABLED`, the kill-switch of docs/TECH_STACK.md:146, does not switch that
cache off.

Other observations on the services. A call that fails for want of credits raises
`InsufficientCreditsError` ("not recoverable by normal retries", errors.py:10;
docs/TECH_STACK.md:99 says fail-fast), which is an `LLMError`, and the policies of the
steps retry those; the feedback of a rerun is taken out of the row before the request it is for
(llm_client.py:131), so a second attempt goes without it; the cost of an editing attempt
that fails in its repeat is lost. The cache key of a search names neither depth nor
device. A forced deletion of a site fails if a project of it has articles; clones, which
wait for a start, are started by beat; making a preset the default clears
the others in a statement of its own, so two may end up as default; a restored prompt drops `effort`, `fast_mode` and the provider of
its source. A page of a blueprint that is removed or reordered under a run on workers
shifts the numbers already sent: a page is then passed over until the next reading, or
written twice, or the chain ends without a word.

Two more observations on tasks, which TLC finds in the model but which have no run of their
own. *A rerun skips the SERP review*: rerun-step clears `serp_data` and keeps
`_serp_urls_approved` (tasks.py:883), so the new delivery fetches other URLs, writes the pause
(serp_step.py:206), and `_handle_pause_after_step` (runner.py:209) passes over it because of
the old approval; `ReviewRespected` fails under careful operators as soon as `Requests` is
`{"approve_serp", "rerun"}`. *A task completes without an article*: a second delivery finds
the article of the first and assembles the same text, a cascading rerun deletes the row
(tasks.py:836), and the delivery has nothing to update and commits *completed*
(assembly.py:183, 243). It is the second exception of `ArticleBehindStatus`, and takes three
deliveries and two reruns at any time, no fault.

Other observations, in the model but without a run of their own: the page of an ended project,
retried or rerun from the task page before the project is deleted, may make the deletion fail
at its second statement (500, and all is rolled back): the article came after the first; the age of a retried step counts from its first attempt, so beat may time
out a young execution; a task in image or test-mode review stays *processing*
without heartbeat and is marked stale after 15 minutes; the marks `failed` on
running steps in the failure path of `run_pipeline` are never written; a broker
failure after the handler's commit leaves a pending task without a message, and beat
never looks at pending tasks; `finalize_article` says it raises when
`meta_generation` is present and unparseable, and raises as well when it is absent.

## Proofs

Every theorem holds for all values of the constants that satisfy the named assumptions of
its component. These assumptions say of what kind the constants are (bounds are naturals,
switches are Booleans, the plan of a task is a sequence of known steps without
repetition, a blueprint lists a page once, there is a project and a page); where a
theorem needs more of its environment it says so in an `ASSUME` of its own, and the
reasons are below. An invariant the runs check is seldom inductive; each section names
the one the induction is on. TLC has checked these invariants on the instances of the
runs before they were proved.

### TaskPipelineProofs

In every environment:

- `TypeCorrect`: `Spec => []TypeOK`. `TypeOK` is not inductive: an action at a step
  needs the step to exist, so the induction is on `TypeInv`, which adds `IndexOK` (a
  delivery inside a step has an index inside the plan). Lemmas about what the row
  helpers return (`WrittenType`, `WithStepType`, `RewoundType`, ...) keep the record
  updates out of the proofs about actions.
- `PendingNeverLost`: `Spec => []PendingHasJob`. The inductive invariant adds
  `SentIds`: whatever beat or force-status may revoke is the id of a message already
  sent, so a fresh message is never revoked before it exists. `Keeps(j)` says what a
  step of delivery j cannot do to the others, and one lemma turns it into the
  preservation of the invariant; the handlers all go through `Requeue`, and one lemma
  serves them.
- `CompletionsBacked`: `Spec => ArticleBehindStatus`, with overlapping deliveries,
  redeliveries and cascading reruns. That a completed task has an article is no invariant
  (see the observations); the theorem says that its one way of failing, besides
  *force-status complete*, is the commit of a delivery whose article was deleted after it
  was found. A rerun never leaves *completed* behind, because it sets *pending* in the
  commit that deletes the article.

With careful operators (`Careful`: the operations act on a task at rest, as the task page
offers them), and any crashes, redeliveries, refused messages and clean-ups:

- `OneArticleKept`: `[]AtMostOneArticle`, although `_upsert_article` queries and inserts
  in two statements. The invariant is `CarefulInv`: at most one delivery is live
  (`OneLive`), its copy of the row has the row's work in it (`Copies`), the row shows the
  step it is in (`StepShown`), and a delivery that has found no article is the only one
  that could have made one (`OneArticle`).
- `WorkNeverLost` (`WorkKept`) and `ApprovalNeverLost` (`ApprovalKept`), two action
  properties from the same invariant: because of `Copies`, a save that writes the whole
  JSON column writes back what it found there (`Grows`). Without `Careful` the run
  ApprovalLost refutes the second one.

With careful operators, no killed worker, no database error, and neither beat nor
*rerun-step* (`Attended`), for plans with one generating step (`OnePrimary`, which every
preset of `pipeline_presets.py` satisfies):

- `ReviewsHold`: `[]ReviewRespected`. Each of these hypotheses excludes a way in which the
  code does pass a review over or loses it: CrashSkipsReview is the first, ImageRerunStuck
  the rerun (and so is the approval that survives it); a clean-up turns a review into a stale task; with a second generating step
  the one approval of the test mode would cover both. The invariant `ReviewInv` follows a
  pause from the step that asks for it to the stop after it (`Held`), says what the row
  shows at each label (`Shown`), where output nobody has approved can be (`Guarded`), and
  that an approval or a request for one speaks of output that is there (`Earned`).
- `QuietIsReview` (`QuietMeansReview`) and `PagesEnd` (`PageEnds`), without *retry* as well
  (`Unretried`): a retry after a failure between an image pause and its saved result ends
  where ImageRerunStuck does. `RestInv` adds what the last delivery leaves: a
  delivery that will be let in has something to do, and a page under `auto_mode` leaves
  nothing to wait for.

### ProjectCoordinatorProofs

In every environment, from `SizeAssumption` alone:

- `TypeCorrect`: `Spec => []TypeOK`, by `TypeInv`, which adds `Fits`: a message is at a
  label of the handler of its kind, a page message has a page, a message that runs
  has a task, and a coordinator or starter that is about to send holds a copy whose
  status is *generating*. The last is what the except clause of a failed send relies on.
- `ChainNeverBroken`: `Spec => []ChainAccounted`, with no restriction on how many chains
  run at once. `ChainAccounted` is not inductive: a live message whose copy is older
  than the request that set the project to *generating* can end without changing the
  status. `ChainInv` therefore asks for a message that `Holds` the chain: one that
  will send, or runs a page that names it, or whose copy says *generating*, so that the
  commit that ends it changes the status (`LastCommit`). `Held` covers the steps that
  change one message, `DroppedChain` those that end or lose some, `QueueChain` the
  requests.

For one chain (`Tidy`: requests at rest, no worker lost, no requeue by beat; errors, database
errors, refused messages and beat's marking of pages are allowed):

- `PagesOnce` (`OneTaskPerPage`), `StopHeeded` (`StopsAfterCurrentPage`) and
  `CompletedIsBuilt` (`CompletedHasSite`), all from `TidyInv`: `OneChain`; where the project
  rests no message goes on (`Settled`); a task that is being processed is the one of the
  message that claims it (`Processed`); what a handler has read still holds where it uses
  it (`Informed`: the chosen page is still open, no page is open while the site is built);
  and the operator's wish stands until the project stops (`StopStands`). With two chains
  the first of them fails: a redelivered page opens a second task.
- `KeepsToPlan`: `Spec => Plan!PlanInit /\ [][Plan!PlanNext]_planVars` under `Orderly`, which
  is `Tidy` without refused messages and without beat's marking, both of which end a chain
  silently. This is the safety part of `RunsPlan`. The proof goes handler by handler: a
  step that leaves the tasks alone is one of the plan's steps or none of it
  (`PlanHandler`), and so are the opening of a page, its run and its end (`PlanBegins`,
  `PlanRuns`), the sending of a message (`PlanSend`) and each request. The invariant
  `PlanInv` adds to `TidyInv` what a message has settled with the plan by the time it is
  where it is (`Agreed`): it is the lowest open page that was chosen, the project is
  *generating* when a page may begin, an unapproved message goes on only while no page is
  written, a stop is being carried out only if it was asked for and still is.
- `PromisesKept`, under `Orderly`: what the plan promises, said of the coordinator's rows and
  messages. A written page stays written; a page is begun with a leave and before every
  other open one; once a page is written the leave is the operator's, if he is to be asked;
  a project stops only with the flag set, and is completed with no page open and one
  written. The steps of SitePlan keep these promises as long as the page being written is
  open (`CurrentOpen`, an invariant of the plan), and `KeepsToPlan` carries them over: no
  step of the coordinator is looked at again.

### DesktopRunnerProofs

`DesktopTyped`, `OneThreadEach`, `NobodyForgotten`, `EveryPageTried` and `WatchersTold` prove
`TypeOK`, `OneThread`, `GeneratingServed`, `PagesTried` and `StreamTold` in every environment,
for any number of projects, pages, places, requests, faults and runs. The invariant
`DesktopInv` links `_running` and the asyncio tasks (`Linked`: each names the other, from
which `OneThread` follows), keeps of every run that the pages before its own have a task
(`Fits`; a thread that outlived its timeout goes on being a run), and has the
remaining properties project by project.

### LlmStepProofs

`StepTyped`, `RetriesMultiply` and `NothingUnpaid`, for any bounds, prices and number of
images. The requests counted are those that leave the SDK's clients. `RequestsBounded` bounds them at the end by a product; the invariant
`Counted` bounds them at every point, by what the attempts and calls that are over can
have cost (`Earlier`) and what the present call has made (`Made`), and `Loops` keeps the
counters of the nested loops consistent. `Money` says where the money is at every point:
in the row, in the sum of the body that is not booked yet, or wasted.

### SerpFetchProofs

`SerpTyped`, `NoOldEntry` (`ClearedIsGone`), `FallbacksLoseNothing` (`NothingLost`) and
`RowsOwnUrls` (`OwnUrls`), for any finite set of tasks (`IsFiniteSet(Searchers)`: a dict
nobody holds must be free), URLs, engines and answers. The core of `SerpInv` is who shares
what: a dict that is not stored yet is in the hands of its thread alone (`Unshared`), with
a cache of copies every dict stays so, and what a thread has asked for is as
recent as the last invalidation everybody heard (`Current`). `OwnUrls` speaks of the cache
of copies; with the memory cache the URLs do travel (see the observations).

### BlueprintRunProofs

`BlueprintTyped`, `CompletedTriedAll` (`AllTried`), `WrittenOnce` (`PageOnce`) and
`ReferenceHonoured` (`ChoiceHonoured`), the last two action properties, under every edit.
`BlueprintInv`: a run has tried the pages of its list up to the number it is at
(`ListTried`, `ReadTried`), the number a worker was sent names a page to be written unless
an edit came in between (`NumberHolds`), and what the requests accepted fits until somebody
edits it (`ChosenFits`, `DefaultsFit`, `PagesKnown`). What a running page is written from is
fixed by its preset and default at its beginning (`RightRef`, `PageOpened`).

### CatalogueProofs

- AuthorList: `AuthorsTyped` and `ListsFresh` (`ListFresh`), for any number of readers,
  writers and ticks. A cached or stored list shows every change answered before the time it
  bears, and every change nobody read across (`CacheHonest`, `StoreHonest`).
- PromptStore: `PromptsTyped`, `AgentsServed` (`AgentServed`) and `LoneSavesExact`
  (`LoneSave`), for any number of agents, editors and saves. In `PromptInv`, `Served`
  (an agent with prompts has an active one) survives overlapping saves
  because each inserts the row that serves; `Lonely` keeps of a save that overlaps no
  other that what it has read is still so. That a save's number is the greatest needs
  that a bounded set of numbers has a greatest one, which is an induction; the library's
  induction theorems cannot be used with the installed provers, so `GreatestNumber` takes
  a minimal element (`WFMin`) of its bounds, as `FirstFree` of DesktopRunnerProofs does.

### ServicesProofs

ProjectDesk, for any finite number of site rows and clients and any number of projects,
keywords and requests: `DeskTyped` (`DeskTypeOK`), and the action properties `CleanDeletes`
(`DeleteClean`) and `TwinsOverlap` (`NoTwin`), from `DeskInv`, which has three parts.

- `DeskShape`. What is left of a request is a tail of its handler's `Path`, with the step
  that founds a site put in where `Resolve` asks for it, and it has a project exactly from
  the step on that gives it one (`OnItsWay`). Types need this: `Insert` writes a row at the
  slot of the request, and a request of another kind, or one step earlier, has none. The
  sites and the requests that are about to found one are together no more than the
  clients, so that a row is left for the site (`NewSiteStep`): this is an argument on
  cardinalities, and the reason why the assumption says that the sets are finite.
- `SlotInv`, of each project: its page is owned while it exists, a page that is not there is
  nothing else, and a draft has no page, no message, no worker and no request that has
  launched it (`NoneLaunched`). (That a completed project has its article is not true: a
  rerun of the page takes it.) Without the last
  a request that queues could overtake the edit that takes its project for a draft.
- `AloneInv`, of a request that nothing has overlapped: it is the only one in progress, and
  what it has read still holds where it uses it. Past its check no other active project
  has its blueprint, keyword and site; an edit's project is a draft; a deletion without force
  has found a project on which neither a worker nor a delivery of the page's own is at work
  (`Deletable`, `Quiescent`), has locked the article it saw, and before the last statement has
  purged the tasks.

`DeskInv` was checked by TLC as an invariant of ProjectDesk alone (two projects, two sites,
two clients, four requests) before it was proved. The proof of each part goes by kind of
step: requests that begin (`Asked`), one-step requests and workers, which are in the way of
those in progress (`InTheWay`), and steps of the handlers, of which the other requests see
nothing (`Waits`). `TwinStep` then looks only at the steps that change a row: a new pair of
active twins can come of `Insert`, whose request has checked or is overlapped, or of a project
that was archived or had failed.

The six services together: `OneAtATime` shows that a step of `MCNext` is a step of one module,
`EachSteps` that it is a step or a stutter of each. So each keeps its inductive invariant
(`ServicesInvariant`), and `ServicesTyped` (`ServicesTypeOK`), `ServicesSafe` (the eight other
invariants of Services) and `ServicesStepSafe` (its five action properties) hold of `MCSpec`
for all values of the constants: everything the run Services checks but liveness.

### What is only model-checked

- Liveness, which is beyond the prover: `DeliveryEnds`, `PendingStarts`, `OrphanCleaned`,
  `ProjectRests`, `PlacesGoRound`, `AllEnds`, and `PageLeft`, the liveness part of
  `RunsPlan`.
- Fairness is likewise no part of any theorem: the proofs use `Init` and `Next` only.
- The violation runs: they show what the hypotheses above exclude.

## Not modelled

- `regenerate-image`, the manual edit of a step, the deletion and bulk import of tasks
  (`api/tasks.py`): more writers of `step_results`, each with the hazard that
  ApprovalLost shows.
- Contents: prompts, article texts, HTML, documents (`docx_builder.py`,
  `html_export.py`, `template_engine.py`, `image_utils.py`, `deduplication.py`), parsing
  of JSON and of provider responses; the models tell apart only what control depends on.
- Pure functions: `resolve_pipeline_steps`, `calculate_progress`,
  `_merge_additional_keywords`.
- The network below the clients, the scraper's HTML and its cache, health checks of
  providers, settings, export, preview and `rebuild-zip`.
- The catalogue's single statements (articles, templates, site fields), migrations and
  seeds, the frontend and the Electron shell, whose requests are the operators' actions.

## Plan

Every invariant and action property of the passing runs is proved. What could be added:

1. *TaskPipeline*: `regenerate_image`, `update_task_step_result`, `delete_task`.
2. *Algorithms* over bounded inputs: `merge_urls_dedup_by_domain`,
   `_merge_additional_keywords`, `calculate_progress`, `resolve_pipeline_steps`.
