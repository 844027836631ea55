------------------------------- MODULE LlmStep -------------------------------
(* One step of the pipeline that asks a language model: _run_phase with its   *)
(* retries and its time limit, the step's body, call_agent and generate_text. *)
(* The thread of the step runs by itself, so a step is one process; what is   *)
(* hard is the nesting of its retries (by the provider's client, within a     *)
(* call, by the step's own checks, and by the policy of the step), the money  *)
(* they cost, and the transactions the cost is written in.                    *)
EXTENDS Integers, FiniteSets

CONSTANTS
  Kinds,          \* the bodies of the steps, a subset of AllKinds
  Providers,      \* subset of {"openrouter", "direct"}: direct is Claude, Codex, Perplexity
  StepRetries,    \* StepPolicy.max_retries
  CallRetries,    \* max_retries of generate_text
  SdkRetries,     \* max_retries of the OpenAI and Anthropic clients: 2, their default
  SelfChecks,     \* SELF_CHECK_MAX_RETRIES
  CheckBudget,    \* SELF_CHECK_MAX_COST_PER_STEP, in prices of a request
  MaxDownscales,  \* 20 in the code
  Floor,          \* 1024 in the code: max_tokens is not lowered below it
  Margin,         \* 256 in the code
  Ceilings,       \* values of max_tokens; 0 when none is sent
  Blocks          \* images the outline asks for

\* draft, legal: the answer is taken as it is.  analysis: an unreadable one is a warning.
\* outline: an unreadable one fails the step; of meta an empty one does not.  check:
\* skipped on an error.  editing and structure ask again.  images: a call for every block.
AllKinds == {"draft", "legal", "analysis", "outline", "check", "meta", "editing",
             "structure", "images"}

ASSUME LlmConstants ==
  /\ Kinds \subseteq AllKinds /\ Providers \subseteq {"openrouter", "direct"}
  /\ StepRetries \in Nat /\ CallRetries \in Nat \ {0} /\ SdkRetries \in Nat
  /\ SelfChecks \in Nat /\ CheckBudget \in Nat /\ MaxDownscales \in Nat /\ Floor \in Nat \ {0} /\ Margin \in Nat
  /\ Ceilings \subseteq Nat /\ Blocks \in Nat \ {0}

VARIABLES
  job,      \* what the step is: never changed
  at,       \* where its thread is
  outcome,  \* status of the step in step_results
  tries,    \* attempts of the step, repeats of its own check, block and pass of the images
  asked,    \* the call that is going on: max_tokens, retries, downscales; repeats of its request
  text,     \* the answer, and the one kept before a repeat
  clock,    \* late: after ctx.step_deadline; up: this attempt has used up its time
  cost,     \* paid to the provider; the step's own sum, and what of it was booked; in the
            \* session and in the row; saved with the step
  sent      \* requests so far

llmVars == <<job, at, outcome, tries, asked, text, clock, cost, sent>>

Outcomes == {"running", "completed", "warned", "skipped", "failed", "timed_out"}
\* How good an answer is: readable, clean and complete; or words are missing (structure);
\* or unreadable, with banned words, empty, or with a fifth of the words lost.
Texts == {"good", "short", "bad"}
Rank(t) == CASE t = "good" -> 2 [] t = "short" -> 1 [] t = "bad" -> 0

TextOf(kind) == IF kind = "structure" THEN Texts ELSE {"good", "bad"}
\* What "" is to the body: an agent that is switched off answers "" and costs nothing.
Empty(kind) == IF kind \in {"editing", "meta"} THEN "good" ELSE "bad"

NewCall == [tokens |-> job.ceiling, retries |-> 0, downscales |-> 0, resent |-> 0]
Commit(c) == [c EXCEPT !.row = c.session]
Rollback(c) == [c EXCEPT !.session = c.row]
Paid(c) == [c EXCEPT !.paid = @ + 1]

\* An attempt of the step starts: its time runs, and what it summed up is gone.
Attempt(n) == [step |-> n, repeat |-> 0, block |-> 1, built |-> 0, pass |-> 1]

LlmInit ==
  /\ \E kind \in Kinds, provider \in Providers, ceiling \in Ceilings :
       job = [kind |-> kind, provider |-> provider, ceiling |-> ceiling]
  /\ at = "call"
  /\ outcome = "running"
  /\ tries = Attempt(0)
  /\ asked = NewCall
  /\ text = [now |-> "bad", first |-> "bad"]
  /\ clock = [late |-> FALSE, up |-> FALSE]
  /\ cost = [paid |-> 0, wasted |-> 0, own |-> 0, booked |-> 0, session |-> 0,
             row |-> 0, saved |-> 0]
  /\ sent = 0

-----------------------------------------------------------------------------
(* call_agent and generate_text.                                           *)

\* The prompt is switched off (skip_in_pipeline): nothing is sent.
SwitchedOff ==
  /\ at = "call"
  /\ at' = "judge"
  /\ text' = [text EXCEPT !.now = Empty(job.kind)]
  /\ UNCHANGED <<job, outcome, tries, asked, clock, cost, sent>>

\* The prompt is made; the log entry, and the heartbeat before the first request, commit
\* what the session holds.
Prepare ==
  /\ at = "call"
  /\ at' = "send"
  /\ asked' = NewCall
  /\ cost' = Commit(cost)
  /\ UNCHANGED <<job, outcome, tries, text, clock, sent>>

Send ==
  /\ at = "send"
  /\ at' = "sent"
  /\ sent' = sent + 1
  /\ asked' = [asked EXCEPT !.resent = 0]
  /\ UNCHANGED <<job, outcome, tries, text, clock, cost>>

\* No client of the program sets max_retries: on a lost connection, a timeout, 408, 409,
\* 429 or 5xx the SDK sends the request again before its caller hears of it.
Resend ==
  /\ at = "sent"
  /\ asked.resent < SdkRetries
  /\ asked' = [asked EXCEPT !.resent = @ + 1]
  /\ sent' = sent + 1
  /\ UNCHANGED <<job, at, outcome, tries, text, clock, cost>>

Answer ==
  /\ at = "sent"
  /\ \E t \in TextOf(job.kind) : text' = [text EXCEPT !.now = t]
  /\ at' = "judge"
  /\ cost' = [Paid(cost) EXCEPT !.own = @ + 1]
  /\ UNCHANGED <<job, outcome, tries, asked, clock, sent>>

\* An error of generate_text: the thread sleeps and asks again, and after the last attempt
\* it raises.  The functions of the other providers have no retries of their own.
RetryOrRaise ==
  IF job.provider = "openrouter"
  THEN /\ asked' = [asked EXCEPT !.retries = @ + 1]
       /\ at' = IF asked.retries + 1 < CallRetries THEN "send" ELSE "raised"
  ELSE /\ at' = "raised"
       /\ UNCHANGED asked

\* What the SDK did not repeat, or repeated in vain: anything that is not a 402.
Error ==
  /\ at = "sent"
  /\ RetryOrRaise
  /\ UNCHANGED <<job, outcome, tries, text, clock, cost, sent>>

\* A response without choices has been paid, and is asked for again.
Unusable ==
  /\ at = "sent"
  /\ RetryOrRaise
  /\ cost' = [Paid(cost) EXCEPT !.wasted = @ + 1]
  /\ UNCHANGED <<job, outcome, tries, text, clock, sent>>

Lower(n) == n < asked.tokens /\ n - Margin >= Floor /\ n - Margin < asked.tokens

\* Mutant of Afford: downscales are not bounded.
AffordAlways(n) ==
  /\ at = "sent" /\ job.provider = "openrouter"
  /\ IF Lower(n)
     THEN /\ asked' = [asked EXCEPT !.downscales = (@ + 1) % 2, !.tokens = n - Margin]
          /\ at' = "send"
     ELSE /\ at' = "raised"
          /\ UNCHANGED asked
  /\ UNCHANGED <<job, outcome, tries, text, clock, cost, sent>>

\* "402 ... can only afford n": max_tokens is lowered without counting a retry, or the
\* credits do not suffice.
Afford(n) ==
  /\ at = "sent" /\ job.provider = "openrouter"
  /\ IF Lower(n) /\ asked.downscales < MaxDownscales
     THEN /\ asked' = [asked EXCEPT !.downscales = @ + 1, !.tokens = n - Margin]
          /\ at' = "send"
     ELSE /\ at' = "raised"
          /\ UNCHANGED asked
  /\ UNCHANGED <<job, outcome, tries, text, clock, cost, sent>>

-----------------------------------------------------------------------------
(* The end of an attempt.  When its time is up the executor still waits for  *)
(* the thread, drops what it returns or raises, and saves the step as failed: *)
(* a commit of whatever the session holds.                                    *)

Ended(status) == at' = "done" /\ outcome' = status
TimesOut(c) == Ended("timed_out") /\ cost' = Commit(c)

\* save_step_result commits the step with its cost.
Save(status, c) ==
  IF clock.up THEN TimesOut(c)
  ELSE Ended(status) /\ cost' = [Commit(c) EXCEPT !.saved = c.own]

\* Mutant of Book: what was booked before a repeat is booked again.
BookAll(c) == [c EXCEPT !.session = @ + c.own, !.booked = c.own]
\* The sum of the step, as far as it is not there yet, is added to task.total_cost.
Book(c) == [c EXCEPT !.session = @ + c.own - c.booked, !.booked = c.own]

\* The next attempt of _run_phase, with a time limit of its own but the old deadline.
Again ==
  /\ at' = "call"
  /\ tries' = Attempt(tries.step + 1)
  /\ clock' = [clock EXCEPT !.up = FALSE]
  /\ cost' = [Rollback(cost) EXCEPT !.own = 0, !.booked = 0]
  /\ UNCHANGED outcome

\* Mutant of LlmError: nobody waits for a thread whose time is up.
LlmErrorUnheard ==
  /\ at = "raised" /\ job.kind # "images" /\ ~clock.up
  /\ IF job.kind # "check" /\ tries.step < StepRetries
     THEN Again
     ELSE /\ Ended(IF job.kind = "check" THEN "skipped" ELSE "failed")
          /\ cost' = Rollback(cost)
          /\ UNCHANGED <<tries, clock>>
  /\ UNCHANGED <<job, asked, text, sent>>

\* call_agent rolls back and raises an LLMError: the policy of the step skips it, retries
\* it, credits or not, or lets the phase fail.
LlmError ==
  /\ at = "raised"
  /\ job.kind # "images"
  /\ IF clock.up
     THEN TimesOut(Rollback(cost)) /\ UNCHANGED <<tries, clock>>
     ELSE IF job.kind = "check"
     THEN Ended("skipped") /\ cost' = Rollback(cost) /\ UNCHANGED <<tries, clock>>
     ELSE IF tries.step < StepRetries
     THEN Again
     ELSE Ended("failed") /\ cost' = Rollback(cost) /\ UNCHANGED <<tries, clock>>
  /\ UNCHANGED <<job, asked, text, sent>>

\* A ParseError is neither retried nor skipped: run_pipeline rolls back.
ParseFails ==
  LET c == Book(cost)
  IN IF clock.up THEN TimesOut(c) ELSE Ended("failed") /\ cost' = Rollback(c)

\* The bodies with one call: all but the check share the policy LlmError speaks of.
Draft ==
  /\ at = "judge" /\ job.kind = "draft"
  /\ Save("completed", Book(cost))
  /\ UNCHANGED <<job, tries, asked, text, clock, sent>>

Legal ==
  /\ at = "judge" /\ job.kind = "legal"
  /\ Save("completed", Book(cost))
  /\ UNCHANGED <<job, tries, asked, text, clock, sent>>

Analysis ==
  /\ at = "judge" /\ job.kind = "analysis"
  /\ Save(IF text.now = "good" THEN "completed" ELSE "warned", Book(cost))
  /\ UNCHANGED <<job, tries, asked, text, clock, sent>>

Outline ==
  /\ at = "judge" /\ job.kind = "outline"
  /\ IF text.now = "good" THEN Save("completed", Book(cost)) ELSE ParseFails
  /\ UNCHANGED <<job, tries, asked, text, clock, sent>>

FactCheck ==
  /\ at = "judge" /\ job.kind = "check"
  /\ Save("completed", Book(cost))
  /\ UNCHANGED <<job, tries, asked, text, clock, sent>>

Meta ==
  /\ at = "judge" /\ job.kind = "meta"
  /\ IF text.now = "good" THEN Save("completed", Book(cost)) ELSE ParseFails
  /\ UNCHANGED <<job, tries, asked, text, clock, sent>>

-----------------------------------------------------------------------------
(* final_editing: call_agent_with_exclude_validation.                      *)

RepeatDue ==
  /\ text.now # "good"
  /\ tries.repeat < SelfChecks
  /\ ~clock.late
  /\ CheckBudget > 0 => tries.repeat < CheckBudget

AskAgain ==
  /\ at = "judge" /\ job.kind = "editing" /\ RepeatDue
  /\ at' = "call"
  /\ tries' = [tries EXCEPT !.repeat = @ + 1]
  /\ cost' = Commit(cost)
  /\ UNCHANGED <<job, outcome, asked, text, clock, sent>>

\* What is left of banned words is cut out.
Edited ==
  /\ at = "judge" /\ job.kind = "editing" /\ ~RepeatDue
  /\ Save("completed", Book(cost))
  /\ UNCHANGED <<job, tries, asked, text, clock, sent>>

-----------------------------------------------------------------------------
(* html_structure: the loss of words is repaired by one more call, which is  *)
(* taken if it is better; with a fifth lost the template is filled in by     *)
(* program.                                                                  *)

\* The first call's cost is added and committed before the second call may roll back.
Recover ==
  /\ at = "judge" /\ job.kind = "structure"
  /\ tries.repeat = 0 /\ text.now # "good" /\ SelfChecks >= 1 /\ CheckBudget > 0
  /\ at' = "call"
  /\ tries' = [tries EXCEPT !.repeat = 1]
  /\ text' = [text EXCEPT !.first = text.now]
  /\ cost' = Commit(Book(cost))
  /\ UNCHANGED <<job, outcome, asked, clock, sent>>

\* A better answer brings its cost to the step; a worse one only to the task.
Structured ==
  /\ at = "judge" /\ job.kind = "structure"
  /\ ~(tries.repeat = 0 /\ text.now # "good" /\ SelfChecks >= 1 /\ CheckBudget > 0)
  /\ \E better \in BOOLEAN :
       /\ tries.repeat = 1 => /\ Rank(text.now) > Rank(text.first) => better
                              /\ Rank(text.now) < Rank(text.first) => ~better
       /\ tries.repeat = 0 => better
       /\ Save("completed", IF better THEN Book(cost)
                            ELSE [Book(cost) EXCEPT !.own = cost.booked])
  /\ UNCHANGED <<job, tries, asked, text, clock, sent>>

-----------------------------------------------------------------------------
(* image_prompt_generation: a call for every block; if no prompt came of     *)
(* them, once more with a simpler one.  An error of a block is only logged.  *)

\* Mutant of NextBlock: the second pass is made as long as there is nothing.
PassAgain(built, c) ==
  IF tries.block < Blocks
  THEN /\ at' = "call" /\ tries' = [tries EXCEPT !.block = @ + 1, !.built = built]
       /\ cost' = c /\ UNCHANGED outcome
  ELSE IF built = 0
  THEN /\ at' = "call" /\ tries' = [tries EXCEPT !.block = 1, !.pass = @ + 1]
       /\ cost' = Commit(c) /\ UNCHANGED outcome
  ELSE /\ Save("completed", Book(c))
       /\ tries' = [tries EXCEPT !.built = built]

NextBlock(built, c) ==
  IF tries.block < Blocks
  THEN /\ at' = "call" /\ tries' = [tries EXCEPT !.block = @ + 1, !.built = built]
       /\ cost' = c /\ UNCHANGED outcome
  ELSE IF built = 0 /\ tries.pass = 1
  THEN /\ at' = "call" /\ tries' = [tries EXCEPT !.block = 1, !.pass = @ + 1]
       /\ cost' = Commit(c) /\ UNCHANGED outcome
  ELSE /\ Save("completed", Book(c))
       /\ tries' = [tries EXCEPT !.built = built]

BlockDone ==
  /\ at = "judge" /\ job.kind = "images"
  /\ NextBlock(tries.built + (IF text.now = "good" THEN 1 ELSE 0), cost)
  /\ UNCHANGED <<job, asked, text, clock, sent>>

BlockFailed ==
  /\ at = "raised" /\ job.kind = "images"
  /\ NextBlock(tries.built, Commit(Rollback(cost)))
  /\ UNCHANGED <<job, asked, text, clock, sent>>

-----------------------------------------------------------------------------
(* Time.                                                                   *)

Deadline ==
  /\ at # "done" /\ ~clock.late
  /\ clock' = [clock EXCEPT !.late = TRUE]
  /\ UNCHANGED <<job, at, outcome, tries, asked, text, cost, sent>>

\* In the first attempt the limit of the attempt follows on the deadline.
TimeUp ==
  /\ at # "done" /\ clock.late /\ ~clock.up
  /\ clock' = [clock EXCEPT !.up = TRUE]
  /\ UNCHANGED <<job, at, outcome, tries, asked, text, cost, sent>>

Provider == Resend \/ Answer \/ Error \/ Unusable \/ \E n \in 0..job.ceiling : Afford(n)
Body == \/ SwitchedOff \/ Prepare \/ Send \/ LlmError
        \/ Draft \/ Legal \/ Analysis \/ Outline \/ FactCheck \/ Meta
        \/ AskAgain \/ Edited \/ Recover \/ Structured \/ BlockDone \/ BlockFailed

LlmNext == Provider \/ Body \/ Deadline \/ TimeUp
\* The thread runs, and a request is answered or given up by the client's own timeout.
LlmFairness == WF_llmVars(Body) /\ WF_llmVars(Provider)

LlmSpec == LlmInit /\ [][LlmNext]_llmVars /\ LlmFairness

-----------------------------------------------------------------------------
Costs == [paid : Nat, wasted : Nat, own : Nat, booked : Nat, session : Nat, row : Nat,
          saved : Nat]

CallStates == [tokens : Nat, retries : 0..CallRetries, downscales : 0..MaxDownscales,
               resent : 0..SdkRetries]

LlmTypeOK ==
  /\ job \in [kind : Kinds, provider : Providers, ceiling : Ceilings]
  /\ at \in {"call", "send", "sent", "judge", "raised", "done"}
  /\ outcome \in Outcomes /\ (outcome = "running") = (at # "done")
  /\ tries \in [step : 0..StepRetries, repeat : 0..SelfChecks, block : 1..Blocks,
                built : 0..Blocks, pass : 1..2]
  /\ asked \in CallStates
  /\ text \in [now : Texts, first : Texts]
  /\ clock \in [late : BOOLEAN, up : BOOLEAN]
  /\ cost \in Costs
  /\ sent \in Nat

\* Retries in retries: the requests of a step are bounded by the product of the bounds of
\* the SDK's client, of generate_text, of the step's own checks and of its policy
\* (llm.py:50, 97-330, runner.py:112-156).
CallBound == (SdkRetries + 1) *
             (IF job.provider = "openrouter" THEN CallRetries + MaxDownscales ELSE 1)
BodyBound == CASE job.kind = "editing" -> 1 + SelfChecks
               [] job.kind = "structure" -> 2
               [] job.kind = "images" -> 2 * Blocks
               [] OTHER -> 1

PhaseBound == IF job.kind \in {"images", "check"} THEN 1 ELSE StepRetries + 1
RequestsBounded == sent <= CallBound * BodyBound * PhaseBound

\* What was paid for answers is in task.total_cost when the step completes, whatever was
\* rolled back on the way, and the step's own cost is a part of it.  Excepted are the
\* answers of an editing attempt that failed in its repeat: their sum was never added.
CostKept ==
  outcome \in {"completed", "warned"} =>
    /\ cost.saved <= cost.row
    /\ \/ job.kind = "editing" /\ tries.step > 0
       \/ cost.row + cost.wasted = cost.paid

\* However calls fail and answers disappoint, the step ends.
StepEnds == <>(at = "done")
=============================================================================
