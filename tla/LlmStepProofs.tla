---------------------------- MODULE LlmStepProofs ----------------------------
(* Theorems about LlmStep for any bounds, prices and number of images: type     *)
(* correctness, the bound on the requests of a step, and what was paid for is   *)
(* in the task's cost.                                                          *)
EXTENDS LlmStep, TLAPS

-----------------------------------------------------------------------------
(* The inductive invariant.                                                *)

Going == at # "done"

\* How the loops of the step stand to each other.
Loops ==
  /\ at \in {"send", "sent"} => asked.retries < CallRetries
  /\ at \in {"send", "sent"} /\ job.provider = "direct" =>
       asked.retries = 0 /\ asked.downscales = 0
  /\ Going => tries.built < tries.block
  /\ job.kind \in {"images", "check"} => tries.step = 0
  /\ job.kind \notin {"editing", "structure"} => tries.repeat = 0
  /\ job.kind = "structure" => tries.repeat <= 1
  /\ job.kind # "images" => tries.block = 1 /\ tries.pass = 1

\* The calls of an attempt before the one that is going on, and of the step.
Before == IF job.kind = "images" THEN Blocks * (tries.pass - 1) + (tries.block - 1)
          ELSE tries.repeat
Earlier == BodyBound * tries.step + Before

\* The rounds of generate_text that are over, and what the SDK may send in one of them.
Rounds == asked.retries + asked.downscales
PerRound == SdkRetries + 1

\* The requests the call that is going on may have made.
Made == CASE at = "call" -> 0
          [] at = "send" -> PerRound * Rounds
          [] at = "sent" -> PerRound * Rounds + asked.resent + 1
          [] OTHER -> CallBound

Counted == sent <= CallBound * Earlier + Made

\* Where the money is: everything an answer has cost is in the row, or in the sum of the
\* step that was not booked yet, which a rollback leaves alone unless the step edits.
Unbooked == job.kind = "editing" /\ tries.step > 0
Money ==
  /\ cost.session = cost.row
  /\ Going => cost.booked <= cost.own /\ cost.booked <= cost.row /\ cost.saved = 0
  /\ Going /\ job.kind \notin {"editing", "images"} /\ at # "judge" => cost.own = cost.booked
  /\ Going /\ ~Unbooked => cost.row + (cost.own - cost.booked) + cost.wasted = cost.paid
  /\ ~Going => CostKept

LlmInv == LlmTypeOK /\ Loops /\ Counted /\ Money

-----------------------------------------------------------------------------
(* Lemmas about the bounds.                                                *)

LEMMA Bounds ==
  /\ StepRetries \in Nat /\ CallRetries \in Nat /\ CallRetries >= 1 /\ SelfChecks \in Nat
  /\ SdkRetries \in Nat
  /\ CheckBudget \in Nat /\ MaxDownscales \in Nat /\ Blocks \in Nat /\ Blocks >= 1
  /\ Kinds \subseteq AllKinds /\ Providers \subseteq {"openrouter", "direct"} /\ Ceilings \subseteq Nat
BY LlmConstants

LEMMA More ==
  ASSUME NEW a \in Nat, NEW b \in Nat, NEW c \in Nat, b + 1 <= c
  PROVE  a * b \in Nat /\ a * b + a <= a * c
<1>1. PICK d \in Nat : c = b + 1 + d
  <2>1. c - (b + 1) \in Nat
    OBVIOUS
  <2>2. QED
    BY <2>1
<1>2. a * d \in Nat /\ a * b \in Nat
  OBVIOUS
<1>3. a * c = a * b + a + a * d
  BY <1>1
<1>4. QED
  BY <1>2, <1>3

LEMMA Typed ==
  ASSUME LlmTypeOK
  PROVE  /\ job.kind \in AllKinds /\ job.provider \in {"openrouter", "direct"}
         /\ tries.step \in 0..StepRetries /\ tries.repeat \in 0..SelfChecks
         /\ tries.block \in 1..Blocks /\ tries.built \in 0..Blocks /\ tries.pass \in 1..2
         /\ asked.retries \in 0..CallRetries /\ asked.downscales \in 0..MaxDownscales
         /\ cost \in Costs /\ sent \in Nat /\ clock.up \in BOOLEAN
BY Bounds DEF LlmTypeOK, CallStates

LEMMA Product ==
  ASSUME NEW a \in Nat, NEW b \in Nat
  PROVE  a * b \in Nat /\ a * (b + 1) = a * b + a
OBVIOUS

LEMMA CallCounts ==
  ASSUME LlmTypeOK
  PROVE  CallBound \in Nat /\ CallBound >= 1
<1>1. PICK n \in Nat : CallBound = (SdkRetries + 1) * (n + 1)
  <2>1. CASE job.provider = "openrouter"
    <3>1. CallRetries + MaxDownscales - 1 \in Nat
      BY Bounds
    <3>2. CallBound = (SdkRetries + 1) * (CallRetries + MaxDownscales - 1 + 1)
      BY <2>1, Bounds DEF CallBound
    <3>3. QED
      BY <3>1, <3>2
  <2>2. CASE job.provider # "openrouter"
    BY <2>2 DEF CallBound
  <2>3. QED
    BY <2>1, <2>2
<1>2. PICK m \in Nat : m = SdkRetries + 1 /\ m >= 1
  BY Bounds
<1>3. CallBound = m * n + m /\ m * n \in Nat
  BY <1>1, <1>2, Product
<1>4. QED
  BY <1>2, <1>3

LEMMA RoundCounts ==
  ASSUME LlmTypeOK
  PROVE  /\ PerRound \in Nat /\ Rounds \in Nat /\ PerRound * Rounds \in Nat
         /\ PerRound * (Rounds + 1) = PerRound * Rounds + PerRound
         /\ asked.resent \in Nat /\ asked.resent + 1 <= PerRound
<1>1. PerRound \in Nat /\ Rounds \in Nat
  BY Typed, Bounds DEF PerRound, Rounds
<1>2. asked.resent \in Nat /\ asked.resent + 1 <= PerRound
  BY Bounds DEF LlmTypeOK, CallStates, PerRound
<1>3. QED
  BY <1>1, <1>2, Product

\* One more round is allowed for.
LEMMA LastRound ==
  ASSUME LlmTypeOK, Loops, at \in {"send", "sent"}
  PROVE  PerRound * Rounds + PerRound <= CallBound
<1>1. CASE job.provider = "openrouter"
  <2>1. PICK p \in Nat, r \in Nat, m \in Nat :
          p = PerRound /\ r = Rounds /\ m = CallRetries + MaxDownscales
    BY RoundCounts, Bounds
  <2>2. r + 1 <= m
    BY <2>1, Typed, Bounds DEF Rounds, Loops
  <2>3. CallBound = p * m
    BY <1>1, <2>1 DEF CallBound, PerRound
  <2>4. QED
    BY <2>1, <2>2, <2>3, More
<1>2. CASE job.provider # "openrouter"
  <2>1. Rounds = 0
    BY <1>2, Typed DEF Loops, Rounds
  <2>2. CallBound = PerRound /\ PerRound * Rounds = 0
    BY <1>2, <2>1, RoundCounts DEF CallBound, PerRound
  <2>3. QED
    BY <2>2, RoundCounts
<1>3. QED
  BY <1>1, <1>2

LEMMA BodyCounts ==
  ASSUME LlmTypeOK, Loops
  PROVE  /\ BodyBound \in Nat /\ Before \in Nat /\ Before + 1 <= BodyBound
         /\ PhaseBound \in Nat /\ tries.step + 1 <= PhaseBound
<1>1. CASE job.kind = "images"
  <2>1. tries.pass = 1 \/ tries.pass = 2
    BY Typed
  <2>2. Blocks * (tries.pass - 1) \in {0, Blocks}
    BY <2>1, Bounds
  <2>3. Before \in Nat /\ Before + 1 <= 2 * Blocks
    BY <1>1, <2>2, Typed, Bounds DEF Before
  <2>4. BodyBound = 2 * Blocks
    BY <1>1 DEF BodyBound
  <2>5. QED
    BY <1>1, <2>3, <2>4, Typed, Bounds DEF PhaseBound, Loops
<1>2. CASE job.kind # "images"
  <2>1. Before = tries.repeat
    BY <1>2 DEF Before
  <2>2. tries.repeat + 1 <= BodyBound /\ BodyBound \in Nat
    BY <1>2, Typed, Bounds DEF BodyBound, Loops
  <2>3. tries.step + 1 <= PhaseBound /\ PhaseBound \in Nat
    BY <1>2, Typed, Bounds DEF PhaseBound, Loops
  <2>4. QED
    BY <2>1, <2>2, <2>3, Typed, Bounds
<1>3. QED
  BY <1>1, <1>2

LEMMA EarlierCounts ==
  ASSUME LlmTypeOK, Loops
  PROVE  Earlier \in Nat /\ Earlier + 1 <= BodyBound * (tries.step + 1)
<1>1. /\ BodyBound \in Nat /\ Before \in Nat /\ Before + 1 <= BodyBound /\ tries.step \in Nat
  BY BodyCounts, Typed, Bounds
<1>2. PICK b \in Nat, s \in Nat : b = BodyBound /\ s = tries.step
  BY <1>1
<1>3. b * (s + 1) = b * s + b /\ b * s \in Nat
  BY <1>2
<1>4. QED
  BY <1>1, <1>2, <1>3 DEF Earlier

LEMMA MadeCounts ==
  ASSUME LlmTypeOK, Loops
  PROVE  Made \in Nat /\ Made <= CallBound
<1>1. CASE at \in {"send", "sent"}
  <2>1. PICK a \in Nat, p \in Nat : a = PerRound * Rounds /\ p = PerRound
    BY RoundCounts
  <2>2. Made = a \/ Made = a + asked.resent + 1
    BY <1>1, <2>1 DEF Made
  <2>3. QED
    BY <1>1, <2>1, <2>2, RoundCounts, LastRound, CallCounts
<1>2. CASE at \notin {"send", "sent"}
  BY <1>2, CallCounts DEF Made
<1>3. QED
  BY <1>1, <1>2

\* The invariant bounds the requests.
LEMMA CountedBounds ==
  ASSUME LlmTypeOK, Loops, Counted
  PROVE  RequestsBounded
<1>1. PICK a \in Nat, e \in Nat, b \in Nat, s \in Nat, p \in Nat :
        a = CallBound /\ e = Earlier /\ b = BodyBound /\ s = tries.step /\ p = PhaseBound
  <2>1. CallBound \in Nat /\ Earlier \in Nat
    BY CallCounts, EarlierCounts
  <2>2. BodyBound \in Nat /\ PhaseBound \in Nat
    BY BodyCounts
  <2>3. tries.step \in Nat
    BY Typed, Bounds
  <2>4. QED
    BY <2>1, <2>2, <2>3
<1>2. sent \in Nat /\ sent <= a * e + a
  BY <1>1, MadeCounts, Typed DEF Counted
<1>3. e + 1 <= b * (s + 1) /\ s + 1 <= p
  BY <1>1, EarlierCounts, BodyCounts
<1>4. b * (s + 1) <= b * p
  <2>1. b * s + b <= b * p /\ b * (s + 1) = b * s + b
    BY <1>3, More
  <2>2. QED
    BY <2>1
<1>5. b * p \in Nat /\ b * (s + 1) \in Nat
  OBVIOUS
<1>6. a * e + a <= a * (b * p)
  BY <1>3, <1>4, <1>5, More
<1>7. a * (b * p) = a * b * p
  OBVIOUS
<1>8. QED
  BY <1>1, <1>2, <1>6, <1>7 DEF RequestsBounded

-----------------------------------------------------------------------------
(* Lemmas about the cost.                                                  *)

LEMMA Committed ==
  ASSUME NEW c \in Costs
  PROVE  /\ Commit(c) \in Costs /\ Commit(c).row = c.session /\ Commit(c).session = c.session
         /\ Commit(c).paid = c.paid /\ Commit(c).wasted = c.wasted /\ Commit(c).own = c.own
         /\ Commit(c).booked = c.booked /\ Commit(c).saved = c.saved
BY DEF Commit, Costs

LEMMA RolledBack ==
  ASSUME NEW c \in Costs
  PROVE  /\ Rollback(c) \in Costs /\ Rollback(c).row = c.row /\ Rollback(c).session = c.row
         /\ Rollback(c).paid = c.paid /\ Rollback(c).wasted = c.wasted
         /\ Rollback(c).own = c.own /\ Rollback(c).booked = c.booked
         /\ Rollback(c).saved = c.saved
BY DEF Rollback, Costs

LEMMA PaidFor ==
  ASSUME NEW c \in Costs
  PROVE  /\ Paid(c) \in Costs /\ Paid(c).row = c.row /\ Paid(c).session = c.session
         /\ Paid(c).paid = c.paid + 1 /\ Paid(c).wasted = c.wasted
         /\ Paid(c).own = c.own /\ Paid(c).booked = c.booked
         /\ Paid(c).saved = c.saved
BY DEF Paid, Costs

LEMMA Booked ==
  ASSUME NEW c \in Costs, c.booked <= c.own
  PROVE  /\ Book(c) \in Costs /\ Book(c).row = c.row
         /\ Book(c).session = c.session + (c.own - c.booked)
         /\ Book(c).paid = c.paid /\ Book(c).wasted = c.wasted /\ Book(c).own = c.own
         /\ Book(c).booked = c.own /\ Book(c).saved = c.saved
<1>1. c.session + c.own - c.booked = c.session + (c.own - c.booked)
      /\ c.session + c.own - c.booked \in Nat
  BY DEF Costs
<1>2. QED
  BY <1>1 DEF Book, Costs

-----------------------------------------------------------------------------
(* One call: nothing but the call's own counters moves.                    *)

LEMMA Parts ==
  ASSUME LlmInv
  PROVE  /\ LlmTypeOK /\ Loops /\ Counted /\ Money /\ cost \in Costs /\ Earlier \in Nat
         /\ CallBound \in Nat /\ CallBound >= 1 /\ Made \in Nat /\ Made <= CallBound
         /\ sent \in Nat /\ CallBound * Earlier \in Nat
<1>1. /\ LlmTypeOK /\ Loops /\ Counted /\ Money /\ cost \in Costs /\ sent \in Nat
  BY Typed DEF LlmInv
<1>2. Earlier \in Nat /\ CallBound \in Nat /\ CallBound >= 1 /\ Made \in Nat /\ Made <= CallBound
  BY <1>1, EarlierCounts, CallCounts, MadeCounts
<1>3. CallBound * Earlier \in Nat
  BY <1>2
<1>4. QED
  BY <1>1, <1>2, <1>3

\* Job and loops stand still: so do the bounds and the calls before.
LEMMA SameLoops ==
  ASSUME UNCHANGED <<job, tries>>
  PROVE  CallBound' = CallBound /\ Earlier' = Earlier /\ BodyBound' = BodyBound
BY DEF CallBound, Earlier, Before, BodyBound

LEMMA InACall ==
  ASSUME LlmInv, UNCHANGED <<job, outcome, tries, clock>>, Going, Going',
         at' \in {"call", "send", "sent", "judge", "raised"},
         asked' \in CallStates,
         text' \in [now : Texts, first : Texts], cost' \in Costs, sent' \in Nat,
         at' \in {"send", "sent"} => asked'.retries < CallRetries,
         at' \in {"send", "sent"} /\ job.provider = "direct" =>
           asked'.retries = 0 /\ asked'.downscales = 0,
         sent' + Made <= sent + Made', Made' \in Nat,
         Money'
  PROVE  LlmInv'
<1>1. LlmTypeOK'
  BY Parts DEF LlmTypeOK, Going
<1>2. Loops'
  BY Parts DEF Loops
<1>3. Counted'
  <2>1. CallBound' = CallBound /\ Earlier' = Earlier
    BY SameLoops
  <2>2. PICK n \in Nat : n = CallBound * Earlier
    BY Parts
  <2>3. sent <= n + Made /\ sent \in Nat /\ Made \in Nat
    BY <2>2, Parts DEF Counted
  <2>4. sent' <= n + Made'
    <3>1. PICK m \in Nat, k \in Nat : m = Made /\ k = Made'
      BY <2>3
    <3>2. sent' + m <= sent + k
      BY <3>1
    <3>3. PICK a \in Nat, b \in Nat : a = sent /\ b = sent'
      BY <2>3
    <3>4. a <= n + m /\ b + m <= a + k
      BY <2>3, <3>1, <3>2, <3>3
    <3>5. b <= n + k
      BY <3>4
    <3>6. QED
      BY <3>1, <3>3, <3>5
  <2>5. QED
    BY <2>1, <2>2, <2>4 DEF Counted
<1>4. QED
  BY <1>1, <1>2, <1>3 DEF LlmInv

LEMMA SameMoney ==
  ASSUME Money, Going, Going', UNCHANGED <<job, tries, outcome, cost>>,
         at' # "judge" => job.kind \in {"editing", "images"} \/ at # "judge"
  PROVE  Money'
BY DEF Money, Going, Unbooked

LEMMA SwitchedOffStep == ASSUME LlmInv, SwitchedOff PROVE LlmInv'
<1>1. /\ Going /\ Going' /\ at = "call" /\ at' = "judge"
      /\ UNCHANGED <<job, outcome, tries, asked, clock, cost, sent>>
  BY DEF SwitchedOff, Going
<1>2. text' \in [now : Texts, first : Texts]
  <2>1. text \in [now : Texts, first : Texts] /\ Empty(job.kind) \in Texts
    BY Parts DEF LlmTypeOK, Empty, Texts
  <2>2. text' = [text EXCEPT !.now = Empty(job.kind)]
    BY DEF SwitchedOff
  <2>3. QED
    BY <2>1, <2>2
<1>3. Made = 0 /\ Made' = CallBound' /\ CallBound' = CallBound
  BY <1>1, SameLoops DEF Made
<1>4. Money'
  BY <1>1, SameMoney, Parts
<1>5. QED
  BY <1>1, <1>2, <1>3, <1>4, InACall, Parts DEF LlmTypeOK

LEMMA PrepareStep == ASSUME LlmInv, Prepare PROVE LlmInv'
<1>1. /\ Going /\ Going' /\ at = "call" /\ at' = "send" /\ asked' = NewCall /\ cost' = Commit(cost)
      /\ UNCHANGED <<job, outcome, tries, text, clock, sent>>
  BY DEF Prepare, Going
<1>2. NewCall \in CallStates
      /\ NewCall.retries = 0 /\ NewCall.downscales = 0
  <2>1. job.ceiling \in Nat
    BY Parts, Bounds DEF LlmTypeOK
  <2>2. 0 \in 0..CallRetries /\ 0 \in 0..MaxDownscales /\ 0 \in 0..SdkRetries
    BY Bounds
  <2>3. QED
    BY <2>1, <2>2 DEF NewCall, CallStates
<1>3. Made = 0 /\ Made' = 0
  <2>1. Made' = PerRound * 0
    BY <1>1, <1>2 DEF Made, Rounds, PerRound
  <2>2. QED
    BY <1>1, <2>1, RoundCounts, Parts DEF Made
<1>4. /\ cost' \in Costs /\ cost'.row = cost.row /\ cost'.session = cost.session
      /\ cost'.paid = cost.paid /\ cost'.wasted = cost.wasted /\ cost'.own = cost.own
      /\ cost'.booked = cost.booked /\ cost'.saved = cost.saved
  BY <1>1, Committed, Parts DEF Money
<1>5. Money'
  BY <1>1, <1>4, Parts DEF Money, Going, Unbooked
<1>6. QED
  BY <1>1, <1>2, <1>3, <1>4, <1>5, InACall, Parts, Bounds DEF LlmTypeOK

LEMMA SendStep == ASSUME LlmInv, Send PROVE LlmInv'
<1>1. /\ Going /\ Going' /\ at = "send" /\ at' = "sent" /\ sent' = sent + 1
      /\ asked' = [asked EXCEPT !.resent = 0]
      /\ UNCHANGED <<job, outcome, tries, text, clock, cost>>
  BY DEF Send, Going
<1>2. /\ asked' \in CallStates /\ asked'.resent = 0
      /\ asked'.retries = asked.retries /\ asked'.downscales = asked.downscales
  BY <1>1, Bounds, Parts DEF LlmTypeOK, CallStates
<1>3. Made' = Made + 1 /\ Made \in Nat
  <2>1. PICK a \in Nat : a = PerRound * Rounds
    BY RoundCounts, Parts
  <2>2. Made = a /\ Made' = a + 0 + 1
    BY <1>1, <1>2, <2>1 DEF Made, Rounds, PerRound
  <2>3. QED
    BY <2>1, <2>2
<1>4. Money'
  BY <1>1, SameMoney, Parts
<1>5. sent' \in Nat /\ sent' + Made <= sent + Made' /\ Made' \in Nat
  BY <1>1, <1>3, Parts
<1>6. QED
  BY <1>1, <1>2, <1>4, <1>5, InACall, Parts DEF LlmTypeOK, Loops

\* The SDK sends once more: one of the requests of the round.
LEMMA ResendStep == ASSUME LlmInv, Resend PROVE LlmInv'
<1>1. /\ Going /\ Going' /\ at = "sent" /\ at' = "sent" /\ sent' = sent + 1
      /\ asked' = [asked EXCEPT !.resent = asked.resent + 1] /\ asked.resent < SdkRetries
      /\ UNCHANGED <<job, outcome, tries, text, clock, cost>>
  BY DEF Resend, Going
<1>2. /\ asked' \in CallStates /\ asked'.resent = asked.resent + 1
      /\ asked'.retries = asked.retries /\ asked'.downscales = asked.downscales
  <2>1. asked.resent + 1 \in 0..SdkRetries
    BY <1>1, Bounds, RoundCounts, Parts
  <2>2. QED
    BY <1>1, <2>1, Parts DEF LlmTypeOK, CallStates
<1>3. Made' = Made + 1 /\ Made \in Nat
  <2>1. PICK a \in Nat : a = PerRound * Rounds
    BY RoundCounts, Parts
  <2>2. Made = a + asked.resent + 1 /\ Made' = a + (asked.resent + 1) + 1
    BY <1>1, <1>2, <2>1 DEF Made, Rounds, PerRound
  <2>3. QED
    BY <2>1, <2>2, RoundCounts, Parts
<1>4. Money'
  BY <1>1, SameMoney, Parts
<1>5. sent' \in Nat /\ sent' + Made <= sent + Made' /\ Made' \in Nat
  BY <1>1, <1>3, Parts
<1>6. QED
  BY <1>1, <1>2, <1>4, <1>5, InACall, Parts DEF LlmTypeOK, Loops

LEMMA AnswerStep == ASSUME LlmInv, Answer PROVE LlmInv'
<1>1. /\ Going /\ Going' /\ at = "sent" /\ at' = "judge"
      /\ cost' = [Paid(cost) EXCEPT !.own = @ + 1]
      /\ UNCHANGED <<job, outcome, tries, asked, clock, sent>>
  BY DEF Answer, Going
<1>2. text' \in [now : Texts, first : Texts]
  <2>1. PICK t \in TextOf(job.kind) : text' = [text EXCEPT !.now = t]
    BY DEF Answer
  <2>2. text \in [now : Texts, first : Texts] /\ t \in Texts
    BY Parts DEF LlmTypeOK, TextOf, Texts
  <2>3. QED
    BY <2>1, <2>2
<1>3. Made' = CallBound' /\ CallBound' = CallBound
  BY <1>1, SameLoops DEF Made
<1>4. /\ cost' \in Costs /\ cost'.row = cost.row /\ cost'.session = cost.session
      /\ cost'.paid = cost.paid + 1 /\ cost'.wasted = cost.wasted /\ cost'.own = cost.own + 1
      /\ cost'.booked = cost.booked /\ cost'.saved = cost.saved
  <2>1. PICK c \in Costs : c = Paid(cost)
    BY PaidFor, Parts
  <2>2. cost' = [c EXCEPT !.own = c.own + 1] /\ c.own + 1 \in Nat
    BY <1>1, <2>1 DEF Costs
  <2>3. /\ cost' \in Costs /\ cost'.row = c.row /\ cost'.session = c.session
        /\ cost'.paid = c.paid /\ cost'.wasted = c.wasted /\ cost'.own = c.own + 1
        /\ cost'.booked = c.booked /\ cost'.saved = c.saved
    BY <2>2 DEF Costs
  <2>4. QED
    BY <2>1, <2>3, PaidFor, Parts
<1>5. Money'
  <2>1. cost.own \in Nat /\ cost.booked \in Nat /\ cost.row \in Nat /\ cost.paid \in Nat
        /\ cost.wasted \in Nat
    BY Parts DEF Costs
  <2>2. Money
    BY Parts
  <2>3. cost'.session = cost'.row /\ cost'.booked <= cost'.own /\ cost'.booked <= cost'.row
        /\ cost'.saved = 0
    BY <1>1, <1>4, <2>1, <2>2 DEF Money
  <2>4. ~Unbooked' => cost'.row + (cost'.own - cost'.booked) + cost'.wasted = cost'.paid
    BY <1>1, <1>4, <2>1, <2>2 DEF Money, Unbooked
  <2>5. QED
    BY <1>1, <2>3, <2>4 DEF Money
<1>6. QED
  BY <1>1, <1>2, <1>3, <1>4, <1>5, InACall, Parts DEF LlmTypeOK

\* The client asks again or raises: the request that is made next was allowed for.
LEMMA Retried ==
  ASSUME LlmInv, at = "sent", RetryOrRaise, UNCHANGED <<job, tries>>
  PROVE  /\ at' \in {"send", "raised"}
         /\ asked' \in CallStates
         /\ at' = "send" => asked'.retries < CallRetries /\ job.provider # "direct"
         /\ Made <= Made' /\ Made' \in Nat
<1>1. asked \in CallStates
      /\ asked.retries < CallRetries /\ CallRetries \in Nat
  BY Parts, Bounds DEF LlmTypeOK, Loops
<1>2. CallBound' = CallBound /\ CallBound \in Nat /\ Made <= CallBound
  BY SameLoops, Parts
<1>3. CASE job.provider = "openrouter"
  <2>1. asked' = [asked EXCEPT !.retries = asked.retries + 1]
        /\ at' = IF asked.retries + 1 < CallRetries THEN "send" ELSE "raised"
    BY <1>3 DEF RetryOrRaise
  <2>2. asked.retries + 1 \in 0..CallRetries
    BY <1>1 DEF CallStates
  <2>3. /\ asked' \in CallStates
        /\ asked'.retries = asked.retries + 1 /\ asked'.downscales = asked.downscales
    BY <1>1, <2>1, <2>2 DEF CallStates
  <2>4. PICK a \in Nat, p \in Nat :
          /\ a = PerRound * Rounds /\ p = PerRound /\ PerRound * (Rounds + 1) = a + p
          /\ Made = a + asked.resent + 1 /\ asked.resent + 1 <= p /\ asked.resent \in Nat
    BY RoundCounts, Parts DEF Made
  <2>5. Made <= Made' /\ Made' \in Nat
    <3>1. CASE at' = "send"
      <4>1. Rounds' = Rounds + 1
        BY <2>3, Typed, Bounds, Parts DEF Rounds
      <4>2. Made' = PerRound * (Rounds + 1)
        BY <3>1, <4>1 DEF Made, PerRound
      <4>3. QED
        BY <2>4, <4>2
    <3>2. CASE at' = "raised"
      BY <1>2, <2>4, <3>2 DEF Made
    <3>3. QED
      BY <2>1, <3>1, <3>2
  <2>6. QED
    BY <1>1, <1>3, <2>1, <2>3, <2>5
<1>4. CASE job.provider # "openrouter"
  <2>1. at' = "raised" /\ asked' = asked
    BY <1>4 DEF RetryOrRaise
  <2>2. Made' = CallBound'
    BY <2>1 DEF Made
  <2>3. QED
    BY <1>1, <1>2, <2>1, <2>2
<1>5. QED
  BY <1>3, <1>4

LEMMA ErrorStep == ASSUME LlmInv, Error PROVE LlmInv'
<1>1. /\ Going /\ at = "sent" /\ RetryOrRaise
      /\ UNCHANGED <<job, outcome, tries, text, clock, cost, sent>>
  BY DEF Error, Going
<1>2. /\ at' \in {"send", "raised"}
      /\ asked' \in CallStates
      /\ at' = "send" => asked'.retries < CallRetries /\ job.provider # "direct"
      /\ Made <= Made' /\ Made' \in Nat
  BY <1>1, Retried
<1>3. Going' /\ Money'
  BY <1>1, <1>2, SameMoney, Parts DEF Going
<1>4. sent' + Made <= sent + Made'
  BY <1>1, <1>2, Parts
<1>5. QED
  BY <1>1, <1>2, <1>3, <1>4, InACall, Parts DEF LlmTypeOK

LEMMA UnusableStep == ASSUME LlmInv, Unusable PROVE LlmInv'
<1>1. /\ Going /\ at = "sent" /\ RetryOrRaise
      /\ cost' = [Paid(cost) EXCEPT !.wasted = @ + 1]
      /\ UNCHANGED <<job, outcome, tries, text, clock, sent>>
  BY DEF Unusable, Going
<1>2. /\ at' \in {"send", "raised"}
      /\ asked' \in CallStates
      /\ at' = "send" => asked'.retries < CallRetries /\ job.provider # "direct"
      /\ Made <= Made' /\ Made' \in Nat
  BY <1>1, Retried
<1>3. /\ cost' \in Costs /\ cost'.row = cost.row /\ cost'.session = cost.session
      /\ cost'.paid = cost.paid + 1 /\ cost'.wasted = cost.wasted + 1 /\ cost'.own = cost.own
      /\ cost'.booked = cost.booked /\ cost'.saved = cost.saved
  <2>1. PICK c \in Costs : c = Paid(cost)
    BY PaidFor, Parts
  <2>2. cost' = [c EXCEPT !.wasted = c.wasted + 1] /\ c.wasted + 1 \in Nat
    BY <1>1, <2>1 DEF Costs
  <2>3. /\ cost' \in Costs /\ cost'.row = c.row /\ cost'.session = c.session
        /\ cost'.paid = c.paid /\ cost'.wasted = c.wasted + 1 /\ cost'.own = c.own
        /\ cost'.booked = c.booked /\ cost'.saved = c.saved
    BY <2>2 DEF Costs
  <2>4. QED
    BY <2>1, <2>3, PaidFor, Parts
<1>4. Going' /\ Money'
  <2>1. cost.own \in Nat /\ cost.booked \in Nat /\ cost.row \in Nat /\ cost.paid \in Nat
        /\ cost.wasted \in Nat
    BY Parts DEF Costs
  <2>2. Money
    BY Parts
  <2>3. cost'.session = cost'.row /\ cost'.booked <= cost'.own /\ cost'.booked <= cost'.row
        /\ cost'.saved = 0
        /\ (job.kind \notin {"editing", "images"} => cost'.own = cost'.booked)
    BY <1>1, <1>3, <2>1, <2>2 DEF Money
  <2>4. ~Unbooked' => cost'.row + (cost'.own - cost'.booked) + cost'.wasted = cost'.paid
    BY <1>1, <1>3, <2>1, <2>2 DEF Money, Unbooked
  <2>5. QED
    BY <1>1, <1>2, <2>3, <2>4 DEF Money, Going
<1>5. sent' + Made <= sent + Made'
  BY <1>1, <1>2, Parts
<1>6. QED
  BY <1>1, <1>2, <1>3, <1>4, <1>5, InACall, Parts DEF LlmTypeOK

\* A lowered max_tokens: the downscale is one of those allowed for.
LEMMA AffordStep == ASSUME LlmInv, NEW n \in 0..job.ceiling, Afford(n) PROVE LlmInv'
<1>1. /\ Going /\ at = "sent" /\ job.provider = "openrouter"
      /\ UNCHANGED <<job, outcome, tries, text, clock, cost, sent>>
  BY DEF Afford, Going
<1>2. /\ asked \in CallStates
      /\ asked.retries < CallRetries /\ CallRetries \in Nat /\ MaxDownscales \in Nat
      /\ job.ceiling \in Nat /\ n \in Nat
  <2>1. job.ceiling \in Nat
    BY Parts, Bounds DEF LlmTypeOK
  <2>2. n \in Nat
    BY <2>1
  <2>3. asked \in CallStates
    BY Parts DEF LlmTypeOK
  <2>4. asked.retries < CallRetries
    BY <1>1, Parts DEF Loops
  <2>5. QED
    BY <2>1, <2>2, <2>3, <2>4, Bounds
<1>3. CallBound' = CallBound /\ CallBound \in Nat /\ Made <= CallBound /\ Made \in Nat
      /\ Made = PerRound * Rounds + asked.resent + 1
  BY <1>1, SameLoops, Parts DEF Made
<1>4. CASE Lower(n) /\ asked.downscales < MaxDownscales
  <2>1. /\ at' = "send"
        /\ asked' = [asked EXCEPT !.downscales = asked.downscales + 1, !.tokens = n - Margin]
    BY <1>4 DEF Afford
  <2>2. asked.downscales + 1 \in 0..MaxDownscales
    BY <1>2, <1>4 DEF CallStates
  <2>3. n - Margin \in Nat
    BY <1>2, <1>4, LlmConstants DEF Lower
  <2>4. /\ asked' \in CallStates
        /\ asked'.retries = asked.retries /\ asked'.downscales = asked.downscales + 1
    BY <1>2, <2>1, <2>2, <2>3 DEF CallStates
  <2>5. Made' = PerRound * (Rounds + 1)
    <3>1. Rounds' = Rounds + 1
      BY <2>4, Typed, Bounds, Parts DEF Rounds
    <3>2. QED
      BY <2>1, <3>1 DEF Made, PerRound
  <2>6. sent' + Made <= sent + Made' /\ Made' \in Nat
    <3>1. PICK a \in Nat, p \in Nat :
            /\ a = PerRound * Rounds /\ p = PerRound /\ PerRound * (Rounds + 1) = a + p
            /\ asked.resent + 1 <= p /\ asked.resent \in Nat
      BY RoundCounts, Parts
    <3>2. QED
      BY <1>1, <1>3, <2>5, <3>1, Parts
  <2>7. Going' /\ Money'
    BY <1>1, <2>1, SameMoney, Parts DEF Going
  <2>8. QED
    BY <1>1, <1>2, <1>3, <2>1, <2>4, <2>6, <2>7, InACall, Parts DEF LlmTypeOK
<1>5. CASE ~(Lower(n) /\ asked.downscales < MaxDownscales)
  <2>1. at' = "raised" /\ asked' = asked
    BY <1>5 DEF Afford
  <2>2. Made' = CallBound'
    BY <2>1 DEF Made
  <2>3. Going' /\ Money'
    BY <1>1, <2>1, SameMoney, Parts DEF Going
  <2>4. sent' + Made <= sent + Made' /\ Made' \in Nat
    BY <1>1, <1>3, <2>2, Parts
  <2>5. QED
    BY <1>1, <1>2, <2>1, <2>3, <2>4, InACall, Parts DEF LlmTypeOK
<1>6. QED
  BY <1>4, <1>5

\* Time passes beside the thread.
LEMMA TimeStep == ASSUME LlmInv, Deadline \/ TimeUp PROVE LlmInv'
<1>1. /\ Going /\ Going' /\ at' = at /\ clock' \in [late : BOOLEAN, up : BOOLEAN]
      /\ UNCHANGED <<job, outcome, tries, asked, text, cost, sent>>
  <2>1. clock \in [late : BOOLEAN, up : BOOLEAN]
    BY Parts DEF LlmTypeOK
  <2>2. CASE Deadline
    BY <2>1, <2>2 DEF Deadline, Going
  <2>3. CASE TimeUp
    BY <2>1, <2>3 DEF TimeUp, Going
  <2>4. QED
    BY <2>2, <2>3
<1>2. LlmTypeOK' /\ Loops'
  BY <1>1, Parts DEF LlmTypeOK, Loops, Going
<1>3. CallBound' = CallBound /\ Earlier' = Earlier /\ Made' = Made
  BY <1>1, SameLoops DEF Made, Rounds, PerRound
<1>4. Counted'
  BY <1>1, <1>3, Parts DEF Counted
<1>5. Money'
  BY <1>1, SameMoney, Parts
<1>6. QED
  BY <1>2, <1>4, <1>5 DEF LlmInv

-----------------------------------------------------------------------------
(* The end of the step.                                                    *)

LEMMA Finishes ==
  ASSUME LlmInv, at \in {"judge", "raised"}, at' = "done", outcome' \in Outcomes \ {"running"},
         UNCHANGED <<job, asked, text, clock, sent>>,
         tries' \in [step : 0..StepRetries, repeat : 0..SelfChecks, block : 1..Blocks,
                     built : 0..Blocks, pass : 1..2],
         tries'.step = tries.step, tries'.repeat = tries.repeat, tries'.block = tries.block,
         tries'.pass = tries.pass, cost' \in Costs, cost'.session = cost'.row, CostKept'
  PROVE  LlmInv'
<1>1. LlmTypeOK'
  BY Parts DEF LlmTypeOK
<1>2. Loops'
  BY Parts DEF Loops, Going
<1>3. CallBound' = CallBound /\ Earlier' = Earlier /\ Made = CallBound /\ Made' = CallBound'
  BY DEF CallBound, Earlier, Before, BodyBound, Made
<1>4. Counted'
  BY <1>3, Parts DEF Counted
<1>5. Money'
  BY DEF Money, Going
<1>6. QED
  BY <1>1, <1>2, <1>4, <1>5 DEF LlmInv

\* A step that is saved: what the session holds becomes the row's, and the step's own sum is
\* saved with it.
LEMMA Saves ==
  ASSUME LlmInv, at \in {"judge", "raised"}, NEW status \in {"completed", "warned"},
         NEW c \in Costs, Save(status, c), UNCHANGED <<job, asked, text, clock, sent>>,
         tries' \in [step : 0..StepRetries, repeat : 0..SelfChecks, block : 1..Blocks,
                     built : 0..Blocks, pass : 1..2],
         tries'.step = tries.step, tries'.repeat = tries.repeat, tries'.block = tries.block,
         tries'.pass = tries.pass,
         c.own <= c.session, ~Unbooked => c.session + c.wasted = c.paid
  PROVE  LlmInv'
<1>1. PICK d \in Costs : d = Commit(c)
  BY Committed
<1>2. /\ d.row = c.session /\ d.session = c.session /\ d.paid = c.paid /\ d.wasted = c.wasted
      /\ d.own = c.own
  BY <1>1, Committed
<1>3. CASE clock.up
  <2>1. at' = "done" /\ outcome' = "timed_out" /\ cost' = d
    BY <1>1, <1>3 DEF Save, TimesOut, Ended
  <2>2. CostKept'
    BY <2>1 DEF CostKept
  <2>3. QED
    BY <1>2, <2>1, <2>2, Finishes DEF Outcomes
<1>4. CASE ~clock.up
  <2>1. at' = "done" /\ outcome' = status /\ cost' = [d EXCEPT !.saved = c.own]
    BY <1>1, <1>4 DEF Save, Ended
  <2>2. /\ cost' \in Costs /\ cost'.row = d.row /\ cost'.session = d.session
        /\ cost'.paid = d.paid /\ cost'.wasted = d.wasted /\ cost'.saved = c.own
    BY <2>1 DEF Costs
  <2>3. CostKept'
    BY <1>2, <2>2 DEF CostKept, Unbooked
  <2>4. QED
    BY <1>2, <2>1, <2>2, <2>3, Finishes DEF Outcomes
<1>5. QED
  BY <1>3, <1>4

\* What the books say before the body adds the sum of the step.
LEMMA Books ==
  ASSUME LlmInv, Going
  PROVE  /\ Book(cost) \in Costs /\ Book(cost).own = cost.own /\ Book(cost).booked = cost.own
         /\ cost.own <= Book(cost).session /\ Book(cost).paid = cost.paid
         /\ cost.booked <= Book(cost).session
         /\ Book(cost).wasted = cost.wasted /\ Book(cost).saved = 0
         /\ ~Unbooked => Book(cost).session + cost.wasted = cost.paid
<1>1. /\ cost.own \in Nat /\ cost.booked \in Nat /\ cost.row \in Nat /\ cost.session \in Nat
      /\ cost.paid \in Nat /\ cost.wasted \in Nat
  BY Parts DEF Costs
<1>2. /\ cost.session = cost.row /\ cost.booked <= cost.own /\ cost.booked <= cost.row
      /\ cost.saved = 0
      /\ ~Unbooked => cost.row + (cost.own - cost.booked) + cost.wasted = cost.paid
  BY Parts DEF Money
<1>3. /\ Book(cost) \in Costs /\ Book(cost).session = cost.session + (cost.own - cost.booked)
      /\ Book(cost).paid = cost.paid /\ Book(cost).wasted = cost.wasted
      /\ Book(cost).own = cost.own /\ Book(cost).booked = cost.own
      /\ Book(cost).saved = cost.saved
  BY <1>2, Booked, Parts
<1>4. QED
  BY <1>1, <1>2, <1>3

LEMMA SameTries ==
  ASSUME LlmInv, tries' = tries
  PROVE  tries' \in [step : 0..StepRetries, repeat : 0..SelfChecks, block : 1..Blocks,
                     built : 0..Blocks, pass : 1..2]
BY Parts DEF LlmTypeOK

\* The bodies that save what they have booked.
LEMMA SavesBooked ==
  ASSUME LlmInv, at = "judge", NEW status \in {"completed", "warned"}, Save(status, Book(cost)),
         UNCHANGED <<job, tries, asked, text, clock, sent>>
  PROVE  LlmInv'
<1>1. Going
  BY DEF Going
<1>2. PICK c \in Costs : c = Book(cost)
  BY <1>1, Books
<1>3. c.own <= c.session /\ (~Unbooked => c.session + c.wasted = c.paid) /\ Save(status, c)
  BY <1>1, <1>2, Books
<1>4. QED
  BY <1>3, SameTries, Saves

LEMMA ParseFailsStep ==
  ASSUME LlmInv, at = "judge", ParseFails, UNCHANGED <<job, tries, asked, text, clock, sent>>
  PROVE  LlmInv'
<1>1. Going
  BY DEF Going
<1>2. PICK c \in Costs : c = Book(cost)
  BY <1>1, Books
<1>3. /\ at' = "done" /\ outcome' \in {"timed_out", "failed"}
      /\ cost' = Commit(c) \/ cost' = Rollback(c)
  BY <1>2 DEF ParseFails, TimesOut, Ended
<1>4. cost' \in Costs /\ cost'.session = cost'.row
  BY <1>3, Committed, RolledBack
<1>5. CostKept'
  BY <1>3 DEF CostKept
<1>6. QED
  BY <1>3, <1>4, <1>5, SameTries, Finishes DEF Outcomes

LEMMA OneCallSteps ==
  ASSUME LlmInv, Draft \/ Legal \/ Analysis \/ Outline \/ FactCheck \/ Meta \/ Edited
  PROVE  LlmInv'
<1>1. /\ at = "judge" /\ UNCHANGED <<job, tries, asked, text, clock, sent>>
      /\ \/ Save("completed", Book(cost)) \/ Save("warned", Book(cost)) \/ ParseFails
  BY DEF Draft, Legal, Analysis, Outline, FactCheck, Meta, Edited
<1>2. QED
  BY <1>1, SavesBooked, ParseFailsStep

\* A better answer brings its cost to the step; a worse one only to the task.
LEMMA StructuredStep == ASSUME LlmInv, Structured PROVE LlmInv'
<1>1. /\ at = "judge" /\ Going /\ UNCHANGED <<job, tries, asked, text, clock, sent>>
  BY DEF Structured, Going
<1>2. \/ Save("completed", Book(cost))
      \/ Save("completed", [Book(cost) EXCEPT !.own = cost.booked])
  BY DEF Structured
<1>3. CASE Save("completed", [Book(cost) EXCEPT !.own = cost.booked])
  <2>1. PICK b \in Costs : b = Book(cost)
    BY <1>1, Books
  <2>2. cost.booked \in Nat
    BY Parts DEF Costs
  <2>3. PICK c \in Costs : c = [b EXCEPT !.own = cost.booked]
    BY <2>2 DEF Costs
  <2>4. /\ c.session = b.session /\ c.paid = b.paid /\ c.wasted = b.wasted
        /\ c.own = cost.booked
    BY <2>3 DEF Costs
  <2>5. c.own <= c.session /\ (~Unbooked => c.session + c.wasted = c.paid)
    BY <1>1, <2>1, <2>4, Books
  <2>6. Save("completed", c)
    BY <1>3, <2>1, <2>3
  <2>7. QED
    BY <1>1, <2>5, <2>6, SameTries, Saves
<1>4. QED
  BY <1>1, <1>2, <1>3, SavesBooked

-----------------------------------------------------------------------------
(* Another call: it follows on one that has made all the requests it may.  *)

LEMMA AsksMore ==
  ASSUME LlmInv, at \in {"judge", "raised"}, at' = "call", UNCHANGED <<job, outcome, asked, sent>>,
         tries' \in [step : 0..StepRetries, repeat : 0..SelfChecks, block : 1..Blocks,
                     built : 0..Blocks, pass : 1..2],
         text' \in [now : Texts, first : Texts],
         clock' \in [late : BOOLEAN, up : BOOLEAN],
         cost' \in Costs, Loops', Earlier' \in Nat, Earlier + 1 <= Earlier', Money'
  PROVE  LlmInv'
<1>1. LlmTypeOK'
  BY Parts DEF LlmTypeOK
<1>2. Counted'
  <2>1. CallBound' = CallBound /\ Made' = 0 /\ Made = CallBound
    BY DEF CallBound, Made
  <2>2. PICK a \in Nat, e \in Nat, f \in Nat : a = CallBound /\ e = Earlier /\ f = Earlier'
    BY Parts
  <2>3. a * e + a <= a * f /\ a * e \in Nat /\ a * f \in Nat
    <3>1. e + 1 <= f
      BY <2>2
    <3>2. QED
      BY <3>1, More
  <2>4. sent <= a * e + a /\ sent \in Nat
    BY <2>1, <2>2, Parts DEF Counted
  <2>5. sent <= a * f
    BY <2>3, <2>4
  <2>6. sent' <= a * f + 0
    BY <2>3, <2>5
  <2>7. QED
    BY <2>1, <2>2, <2>6 DEF Counted
<1>3. QED
  BY <1>1, <1>2 DEF LlmInv

\* The session's copy is written or given up: both are the same here.
LEMMA Settled ==
  ASSUME LlmInv, Going, NEW c \in Costs, c = Commit(cost) \/ c = Rollback(cost)
  PROVE  /\ c.row = cost.row /\ c.session = cost.row /\ c.paid = cost.paid
         /\ c.wasted = cost.wasted /\ c.own = cost.own /\ c.booked = cost.booked
         /\ c.saved = 0
BY Committed, RolledBack, Parts DEF Money

\* The numbers the loops leave alone.
LEMMA SettledMoney ==
  ASSUME LlmInv, Going, Going', NEW c \in Costs, c = Commit(cost) \/ c = Rollback(cost), cost' = c,
         job' = job, tries'.step = tries.step, job.kind \in {"editing", "images"}
  PROVE  Money'
BY Settled, Parts DEF Money, Unbooked

LEMMA AskAgainStep == ASSUME LlmInv, AskAgain PROVE LlmInv'
<1>1. /\ at = "judge" /\ at' = "call" /\ job.kind = "editing" /\ Going /\ Going'
      /\ tries' = [tries EXCEPT !.repeat = tries.repeat + 1] /\ cost' = Commit(cost)
      /\ UNCHANGED <<job, outcome, asked, text, clock, sent>>
      /\ tries.repeat < SelfChecks
  BY DEF AskAgain, RepeatDue, Going
<1>2. tries.repeat + 1 \in 0..SelfChecks /\ tries.repeat \in Nat
  BY <1>1, Parts, Typed, Bounds
<1>3. /\ tries' \in [step : 0..StepRetries, repeat : 0..SelfChecks, block : 1..Blocks,
                     built : 0..Blocks, pass : 1..2]
      /\ tries'.step = tries.step /\ tries'.repeat = tries.repeat + 1
      /\ tries'.block = tries.block /\ tries'.built = tries.built /\ tries'.pass = tries.pass
  BY <1>1, <1>2, Parts DEF LlmTypeOK
<1>4. Loops'
  BY <1>1, <1>3, Parts DEF Loops, Going
<1>5. Earlier' = Earlier + 1
  <2>1. PICK n \in Nat : n = BodyBound * tries.step
    BY BodyCounts, Parts, Typed, Bounds
  <2>2. BodyBound' = BodyBound
    BY <1>1 DEF BodyBound
  <2>3. Earlier = n + tries.repeat
    BY <1>1, <2>1 DEF Earlier, Before
  <2>4. Earlier' = n + (tries.repeat + 1)
    BY <1>1, <1>3, <2>1, <2>2 DEF Earlier, Before
  <2>5. QED
    BY <1>2, <2>1, <2>3, <2>4
<1>6. Earlier' \in Nat /\ Earlier + 1 <= Earlier'
  BY <1>5, Parts
<1>7. Money'
  BY <1>1, <1>3, SettledMoney, Committed, Parts
<1>8. QED
  BY <1>1, <1>3, <1>4, <1>6, <1>7, AsksMore, Committed, Parts DEF LlmTypeOK

LEMMA RecoverStep == ASSUME LlmInv, Recover PROVE LlmInv'
<1>1. /\ at = "judge" /\ at' = "call" /\ job.kind = "structure" /\ Going /\ Going'
      /\ tries.repeat = 0 /\ SelfChecks >= 1 /\ cost' = Commit(Book(cost))
      /\ tries' = [tries EXCEPT !.repeat = 1] /\ text' = [text EXCEPT !.first = text.now]
      /\ UNCHANGED <<job, outcome, asked, clock, sent>>
  BY DEF Recover, Going
<1>2. 1 \in 0..SelfChecks
  BY <1>1, Bounds
<1>3. /\ tries' \in [step : 0..StepRetries, repeat : 0..SelfChecks, block : 1..Blocks,
                     built : 0..Blocks, pass : 1..2]
      /\ tries'.step = tries.step /\ tries'.repeat = 1
      /\ tries'.block = tries.block /\ tries'.built = tries.built /\ tries'.pass = tries.pass
  BY <1>1, <1>2, Parts DEF LlmTypeOK
<1>4. Loops'
  BY <1>1, <1>3, Parts DEF Loops, Going
<1>5. Earlier' = Earlier + 1
  <2>1. PICK n \in Nat : n = BodyBound * tries.step
    BY BodyCounts, Parts, Typed, Bounds
  <2>2. BodyBound' = BodyBound
    BY <1>1 DEF BodyBound
  <2>3. Earlier = n + 0
    BY <1>1, <2>1 DEF Earlier, Before
  <2>4. Earlier' = n + 1
    BY <1>1, <1>3, <2>1, <2>2 DEF Earlier, Before
  <2>5. QED
    BY <2>1, <2>3, <2>4
<1>6. Earlier' \in Nat /\ Earlier + 1 <= Earlier'
  BY <1>5, Parts
<1>7. PICK b \in Costs : b = Book(cost)
  BY <1>1, Books
<1>8. /\ cost' \in Costs /\ cost'.row = b.session /\ cost'.session = b.session
      /\ cost'.paid = b.paid /\ cost'.wasted = b.wasted /\ cost'.own = b.own
      /\ cost'.booked = b.booked /\ cost'.saved = b.saved
  BY <1>1, <1>7, Committed
<1>9. Money'
  <2>1. /\ b.own = cost.own /\ b.booked = cost.own /\ cost.own <= b.session /\ b.saved = 0
        /\ b.paid = cost.paid /\ b.wasted = cost.wasted
        /\ ~Unbooked => b.session + b.wasted = b.paid
    BY <1>1, <1>7, Books
  <2>2. cost.own \in Nat /\ b.session \in Nat /\ b.wasted \in Nat /\ b.paid \in Nat
    BY Parts DEF Costs
  <2>3. ~Unbooked'
    BY <1>1 DEF Unbooked
  <2>4. ~Unbooked
    BY <1>1 DEF Unbooked
  <2>5. cost'.row + (cost'.own - cost'.booked) + cost'.wasted = cost'.paid
    BY <1>8, <2>1, <2>2, <2>4
  <2>6. cost'.session = cost'.row /\ cost'.booked <= cost'.own /\ cost'.booked <= cost'.row
        /\ cost'.saved = 0 /\ cost'.own = cost'.booked
    BY <1>8, <2>1, <2>2
  <2>7. QED
    BY <1>1, <2>5, <2>6 DEF Money
<1>10. text' \in [now : Texts, first : Texts]
  <2>1. text \in [now : Texts, first : Texts]
    BY Parts DEF LlmTypeOK
  <2>2. QED
    BY <1>1, <2>1
<1>11. QED
  BY <1>1, <1>3, <1>4, <1>6, <1>8, <1>9, <1>10, AsksMore, Parts DEF LlmTypeOK

\* An error fails the step, or skips it.
LEMMA ErrorEnds ==
  ASSUME LlmInv, at = "raised", NEW c \in Costs, c = Rollback(cost),
         \/ TimesOut(c)
         \/ outcome' \in {"skipped", "failed"} /\ at' = "done" /\ cost' = c,
         UNCHANGED <<job, tries, asked, text, clock, sent>>
  PROVE  LlmInv'
<1>1. Going
  BY DEF Going
<1>2. c.session = c.row
  BY <1>1, Settled
<1>3. /\ at' = "done" /\ outcome' \in {"timed_out", "skipped", "failed"}
      /\ cost' = Commit(c) \/ cost' = c
  BY DEF TimesOut, Ended
<1>4. cost' \in Costs /\ cost'.session = cost'.row
  BY <1>2, <1>3, Committed
<1>5. CostKept'
  BY <1>3 DEF CostKept
<1>6. QED
  BY <1>3, <1>4, <1>5, SameTries, Finishes DEF Outcomes

\* The next attempt forgets the sum of the step: but for an editing that had repeated, it
\* holds nothing that was not booked.
LEMMA AgainStep ==
  ASSUME LlmInv, at = "raised", job.kind \notin {"images", "check"}, tries.step < StepRetries,
         Again, UNCHANGED <<job, asked, text, sent>>
  PROVE  LlmInv'
<1>1. /\ at' = "call" /\ tries' = Attempt(tries.step + 1) /\ outcome' = outcome
      /\ clock' = [clock EXCEPT !.up = FALSE] /\ Going /\ Going'
      /\ cost' = [Rollback(cost) EXCEPT !.own = 0, !.booked = 0]
  BY DEF Again, Going
<1>2. tries.step + 1 \in 0..StepRetries /\ tries.step \in Nat
  BY Parts, Typed, Bounds
<1>3. /\ tries' \in [step : 0..StepRetries, repeat : 0..SelfChecks, block : 1..Blocks,
                     built : 0..Blocks, pass : 1..2]
      /\ tries'.step = tries.step + 1 /\ tries'.repeat = 0 /\ tries'.block = 1
      /\ tries'.built = 0 /\ tries'.pass = 1
  BY <1>1, <1>2, Bounds DEF Attempt
<1>4. Loops'
  BY <1>1, <1>3, Parts DEF Loops, Going
<1>5. Earlier' \in Nat /\ Earlier + 1 <= Earlier'
  <2>1. BodyBound' = BodyBound
    BY DEF BodyBound
  <2>2. PICK n \in Nat : n = BodyBound * (tries.step + 1)
    BY <1>2, BodyCounts, Parts
  <2>3. Earlier' = n + 0
    BY <1>3, <2>1, <2>2 DEF Earlier, Before
  <2>4. Earlier + 1 <= n
    BY <2>2, EarlierCounts, Parts
  <2>5. QED
    BY <2>2, <2>3, <2>4
<1>6. PICK r \in Costs : r = Rollback(cost)
  BY RolledBack, Parts
<1>7. /\ cost' \in Costs /\ cost'.row = r.row /\ cost'.session = r.session
      /\ cost'.paid = r.paid /\ cost'.wasted = r.wasted /\ cost'.own = 0
      /\ cost'.booked = 0 /\ cost'.saved = r.saved
  BY <1>1, <1>6 DEF Costs
<1>8. Money'
  <2>1. /\ r.row = cost.row /\ r.session = cost.row /\ r.paid = cost.paid
        /\ r.wasted = cost.wasted /\ r.saved = 0
    BY <1>1, <1>6, Settled
  <2>2. cost.own \in Nat /\ cost.row \in Nat /\ cost.wasted \in Nat /\ cost.paid \in Nat
    BY Parts DEF Costs
  <2>3. job.kind # "editing" => cost.row + (cost.own - cost.own) + cost.wasted = cost.paid
    BY <1>1, Parts DEF Money, Unbooked
  <2>4. job.kind = "editing" => Unbooked'
    BY <1>2, <1>3, Bounds DEF Unbooked
  <2>5. ~Unbooked' => cost'.row + (cost'.own - cost'.booked) + cost'.wasted = cost'.paid
    BY <1>7, <2>1, <2>2, <2>3, <2>4
  <2>6. cost'.session = cost'.row /\ cost'.booked <= cost'.own /\ cost'.booked <= cost'.row
        /\ cost'.saved = 0 /\ cost'.own = cost'.booked
    BY <1>7, <2>1, <2>2
  <2>7. QED
    BY <1>1, <2>5, <2>6 DEF Money
<1>9. clock' \in [late : BOOLEAN, up : BOOLEAN]
  <2>1. clock \in [late : BOOLEAN, up : BOOLEAN]
    BY Parts DEF LlmTypeOK
  <2>2. QED
    BY <1>1, <2>1
<1>10. QED
  BY <1>1, <1>3, <1>4, <1>5, <1>7, <1>8, <1>9, AsksMore, Parts DEF LlmTypeOK

LEMMA LlmErrorStep == ASSUME LlmInv, LlmError PROVE LlmInv'
<1>1. /\ at = "raised" /\ job.kind # "images" /\ UNCHANGED <<job, asked, text, sent>>
  BY DEF LlmError
<1>2. PICK c \in Costs : c = Rollback(cost)
  BY RolledBack, Parts
<1>3. CASE TimesOut(c) /\ UNCHANGED <<tries, clock>>
  BY <1>1, <1>2, <1>3, ErrorEnds
<1>4. CASE Ended("skipped") /\ cost' = c /\ UNCHANGED <<tries, clock>>
  BY <1>1, <1>2, <1>4, ErrorEnds DEF Ended
<1>5. CASE Ended("failed") /\ cost' = c /\ UNCHANGED <<tries, clock>>
  BY <1>1, <1>2, <1>5, ErrorEnds DEF Ended
<1>6. CASE Again /\ job.kind # "check" /\ tries.step < StepRetries
  BY <1>1, <1>6, AgainStep
<1>7. QED
  BY <1>2, <1>3, <1>4, <1>5, <1>6 DEF LlmError

-----------------------------------------------------------------------------
(* The images: a call for every block, and a second pass at most.          *)

LEMMA SameCost ==
  ASSUME NEW c \in Costs, NEW d \in Costs, c.paid = d.paid, c.wasted = d.wasted, c.own = d.own,
         c.booked = d.booked, c.session = d.session, c.row = d.row, c.saved = d.saved
  PROVE  c = d
BY DEF Costs

LEMMA NextBlockStep ==
  ASSUME LlmInv, job.kind = "images", at \in {"judge", "raised"}, NEW built \in 0..Blocks,
         tries.built <= built, built <= tries.block, NextBlock(built, cost),
         UNCHANGED <<job, asked, text, clock, sent>>
  PROVE  LlmInv'
<1>1. /\ Going /\ tries.block \in 1..Blocks /\ tries.pass \in 1..2 /\ tries.built \in 0..Blocks
      /\ tries \in [step : 0..StepRetries, repeat : 0..SelfChecks, block : 1..Blocks,
                    built : 0..Blocks, pass : 1..2]
      /\ Blocks \in Nat /\ Blocks >= 1
  BY Parts, Typed, Bounds DEF Going, LlmTypeOK
<1>2. CASE tries.block < Blocks
  <2>1. /\ at' = "call" /\ tries' = [tries EXCEPT !.block = tries.block + 1, !.built = built]
        /\ cost' = cost /\ outcome' = outcome
    BY <1>2 DEF NextBlock
  <2>2. tries.block + 1 \in 1..Blocks
    BY <1>1, <1>2
  <2>3. /\ tries' \in [step : 0..StepRetries, repeat : 0..SelfChecks, block : 1..Blocks,
                       built : 0..Blocks, pass : 1..2]
        /\ tries'.step = tries.step /\ tries'.repeat = tries.repeat
        /\ tries'.block = tries.block + 1 /\ tries'.built = built /\ tries'.pass = tries.pass
    BY <1>1, <2>1, <2>2
  <2>4. built < tries.block + 1
    BY <1>1
  <2>5. Loops'
    BY <2>1, <2>3, <2>4, Parts DEF Loops
  <2>6. Earlier' = Earlier + 1
    <3>1. PICK n \in Nat, m \in Nat : n = BodyBound * tries.step /\ m = Blocks * (tries.pass - 1)
      <4>1. BodyBound * tries.step \in Nat
        BY BodyCounts, Parts, Typed, Bounds
      <4>2. Blocks * (tries.pass - 1) \in Nat
        BY <1>1
      <4>3. QED
        BY <4>1, <4>2
    <3>2. BodyBound' = BodyBound
      BY DEF BodyBound
    <3>3. Earlier = n + (m + (tries.block - 1))
      BY <3>1 DEF Earlier, Before
    <3>4. Earlier' = n + (m + ((tries.block + 1) - 1))
      BY <2>3, <3>1, <3>2 DEF Earlier, Before
    <3>5. QED
      BY <1>1, <3>1, <3>3, <3>4
  <2>7. Earlier' \in Nat /\ Earlier + 1 <= Earlier'
    BY <2>6, Parts
  <2>8. Money'
    BY <1>1, <2>1, <2>3, Parts DEF Money, Going, Unbooked
  <2>9. QED
    BY <2>1, <2>3, <2>5, <2>7, <2>8, AsksMore, Parts DEF LlmTypeOK
<1>3. CASE ~(tries.block < Blocks) /\ built = 0 /\ tries.pass = 1
  <2>1. /\ at' = "call" /\ tries' = [tries EXCEPT !.block = 1, !.pass = tries.pass + 1]
        /\ cost' = Commit(cost) /\ outcome' = outcome
    BY <1>3 DEF NextBlock
  <2>2. tries.pass + 1 = 2 /\ tries.block = Blocks /\ tries.built = 0
    BY <1>1, <1>3
  <2>3. /\ tries' \in [step : 0..StepRetries, repeat : 0..SelfChecks, block : 1..Blocks,
                       built : 0..Blocks, pass : 1..2]
        /\ tries'.step = tries.step /\ tries'.repeat = tries.repeat
        /\ tries'.block = 1 /\ tries'.built = 0 /\ tries'.pass = 2
    <3>1. 1 \in 1..Blocks /\ tries.pass + 1 \in 1..2
      BY <1>1, <2>2
    <3>2. /\ tries' \in [step : 0..StepRetries, repeat : 0..SelfChecks, block : 1..Blocks,
                         built : 0..Blocks, pass : 1..2]
          /\ tries'.step = tries.step /\ tries'.repeat = tries.repeat /\ tries'.block = 1
          /\ tries'.built = tries.built /\ tries'.pass = tries.pass + 1
      BY <1>1, <2>1, <3>1
    <3>3. QED
      BY <2>2, <3>2
  <2>4. Loops'
    BY <2>1, <2>3, Parts DEF Loops
  <2>5. Earlier' = Earlier + 1
    <3>1. PICK n \in Nat : n = BodyBound * tries.step
      BY BodyCounts, Parts, Typed, Bounds
    <3>2. BodyBound' = BodyBound
      BY DEF BodyBound
    <3>3. Blocks * (tries.pass - 1) = 0 /\ Blocks * (2 - 1) = Blocks
      BY <1>1, <1>3
    <3>4. Earlier = n + (0 + (Blocks - 1))
      BY <2>2, <3>1, <3>3 DEF Earlier, Before
    <3>5. Earlier' = n + (Blocks + (1 - 1))
      BY <2>3, <3>1, <3>2, <3>3 DEF Earlier, Before
    <3>6. QED
      BY <1>1, <3>1, <3>4, <3>5
  <2>6. Earlier' \in Nat /\ Earlier + 1 <= Earlier'
    BY <2>5, Parts
  <2>7. Going' /\ cost' \in Costs
    BY <2>1, Committed, Parts DEF Going
  <2>8. Money'
    BY <1>1, <2>1, <2>3, <2>7, SettledMoney, Committed, Parts
  <2>9. QED
    BY <2>1, <2>3, <2>4, <2>6, <2>7, <2>8, AsksMore, Parts DEF LlmTypeOK
<1>4. CASE Save("completed", Book(cost)) /\ tries' = [tries EXCEPT !.built = built]
  <2>1. /\ tries' \in [step : 0..StepRetries, repeat : 0..SelfChecks, block : 1..Blocks,
                       built : 0..Blocks, pass : 1..2]
        /\ tries'.step = tries.step /\ tries'.repeat = tries.repeat
        /\ tries'.block = tries.block /\ tries'.pass = tries.pass
    BY <1>1, <1>4
  <2>2. PICK c \in Costs : c = Book(cost)
    BY <1>1, Books
  <2>3. c.own <= c.session /\ (~Unbooked => c.session + c.wasted = c.paid)
        /\ Save("completed", c)
    BY <1>1, <1>4, <2>2, Books
  <2>4. QED
    BY <2>1, <2>3, Saves
<1>5. QED
  BY <1>2, <1>3, <1>4 DEF NextBlock

LEMMA BlockSteps == ASSUME LlmInv, BlockDone \/ BlockFailed PROVE LlmInv'
<1>1. /\ at \in {"judge", "raised"} /\ job.kind = "images" /\ Going
      /\ UNCHANGED <<job, asked, text, clock, sent>>
  BY DEF BlockDone, BlockFailed, Going
<1>2. /\ tries.block \in 1..Blocks /\ tries.built \in 0..Blocks /\ Blocks \in Nat
      /\ tries.built < tries.block
  BY <1>1, Parts, Typed, Bounds DEF Loops
<1>3. CASE BlockDone
  <2>1. PICK built \in 0..Blocks : built = tries.built + (IF text.now = "good" THEN 1 ELSE 0)
    BY <1>2
  <2>2. tries.built <= built /\ built <= tries.block
    BY <1>2, <2>1
  <2>3. NextBlock(built, cost)
    BY <1>3, <2>1 DEF BlockDone
  <2>4. QED
    BY <1>1, <2>2, <2>3, NextBlockStep
<1>4. CASE BlockFailed
  <2>1. PICK r \in Costs : r = Rollback(cost)
    BY RolledBack, Parts
  <2>2. /\ r.row = cost.row /\ r.session = cost.row /\ r.paid = cost.paid
        /\ r.wasted = cost.wasted /\ r.own = cost.own /\ r.booked = cost.booked
        /\ r.saved = cost.saved /\ cost.session = cost.row
    BY <1>1, <2>1, Settled, Parts DEF Money
  <2>3. Commit(r) = cost
    BY <2>2, SameCost, Committed, Parts
  <2>4. NextBlock(tries.built, cost)
    BY <1>4, <2>1, <2>3 DEF BlockFailed
  <2>5. tries.built <= tries.built /\ tries.built <= tries.block
    BY <1>2
  <2>6. QED
    BY <1>1, <1>2, <2>4, <2>5, NextBlockStep
<1>5. QED
  BY <1>3, <1>4

-----------------------------------------------------------------------------
(* The theorems.                                                           *)

LEMMA StartsWell == ASSUME LlmInit PROVE LlmInv
<1>1. PICK kind \in Kinds, provider \in Providers, ceiling \in Ceilings :
        job = [kind |-> kind, provider |-> provider, ceiling |-> ceiling]
  BY DEF LlmInit
<1>2. job \in [kind : Kinds, provider : Providers, ceiling : Ceilings] /\ job.ceiling \in Nat
  BY <1>1, Bounds
<1>3. /\ tries = [step |-> 0, repeat |-> 0, block |-> 1, built |-> 0, pass |-> 1]
      /\ asked = [tokens |-> job.ceiling, retries |-> 0, downscales |-> 0, resent |-> 0]
      /\ at = "call" /\ outcome = "running" /\ sent = 0
      /\ text = [now |-> "bad", first |-> "bad"] /\ clock = [late |-> FALSE, up |-> FALSE]
      /\ cost = [paid |-> 0, wasted |-> 0, own |-> 0, booked |-> 0, session |-> 0,
                 row |-> 0, saved |-> 0]
  BY DEF LlmInit, Attempt, NewCall
<1>4. tries \in [step : 0..StepRetries, repeat : 0..SelfChecks, block : 1..Blocks,
                 built : 0..Blocks, pass : 1..2]
  BY <1>3, Bounds
<1>5. asked \in CallStates
  BY <1>2, <1>3, Bounds DEF CallStates
<1>6. text \in [now : Texts, first : Texts] /\ clock \in [late : BOOLEAN, up : BOOLEAN]
  BY <1>3 DEF Texts
<1>7. cost \in Costs /\ sent \in Nat /\ outcome \in Outcomes
  BY <1>3 DEF Costs, Outcomes
<1>8. LlmTypeOK
  BY <1>2, <1>3, <1>4, <1>5, <1>6, <1>7 DEF LlmTypeOK
<1>9. Loops
  BY <1>3 DEF Loops
<1>10. Counted
  <2>1. Earlier \in Nat /\ CallBound \in Nat /\ Made = 0
    BY <1>3, <1>8, <1>9, EarlierCounts, CallCounts DEF Made
  <2>2. CallBound * Earlier \in Nat
    BY <2>1
  <2>3. QED
    BY <1>3, <2>1, <2>2 DEF Counted
<1>11. Money
  BY <1>3 DEF Money, Going
<1>12. QED
  BY <1>8, <1>9, <1>10, <1>11 DEF LlmInv

LEMMA StutterStep == ASSUME LlmInv, UNCHANGED llmVars PROVE LlmInv'
BY DEF llmVars, LlmInv, LlmTypeOK, Loops, Going, Counted, Earlier, Before, BodyBound, CallBound, Made,
       Rounds, PerRound, Money, CostKept, Unbooked

LEMMA EveryStep == ASSUME LlmInv, [LlmNext]_llmVars PROVE LlmInv'
<1>1. CASE Provider
  BY <1>1, ResendStep, AnswerStep, ErrorStep, UnusableStep, AffordStep DEF Provider
<1>2. CASE Body
  BY <1>2, SwitchedOffStep, PrepareStep, SendStep, LlmErrorStep, OneCallSteps, AskAgainStep,
     RecoverStep, StructuredStep, BlockSteps DEF Body
<1>3. QED
  BY <1>1, <1>2, TimeStep, StutterStep DEF LlmNext

\* What the invariant says of the step.
LEMMA InvMeansTyped == LlmInv => LlmTypeOK
BY DEF LlmInv

LEMMA InvBoundsRequests == LlmInv => RequestsBounded
BY CountedBounds DEF LlmInv

LEMMA InvKeepsCost == LlmInv => CostKept
BY DEF LlmInv, Money, Going, CostKept, LlmTypeOK

LEMMA AlwaysInv == LlmSpec => []LlmInv
<1>1. LlmInit => LlmInv
  BY StartsWell
<1>2. LlmInv /\ [LlmNext]_llmVars => LlmInv'
  BY EveryStep
<1>3. QED
  BY <1>1, <1>2, PTL DEF LlmSpec

\* A step that asks a model keeps its types: retries, downscales, repeats, blocks and passes
\* stay within their bounds, and no sum is ever negative (runner.py, llm.py, llm_client.py).
THEOREM StepTyped == LlmSpec => []LlmTypeOK
BY InvMeansTyped, AlwaysInv, PTL

\* The retries are nested, and their product is the bound: no step makes more requests than
\* the attempts of its policy, times the calls of its body, times the retries and downscales
\* of generate_text, times the requests the SDK's client makes of each (llm.py:50, and the
\* clients of llm_providers), for any setting of the four.
THEOREM RetriesMultiply == LlmSpec => []RequestsBounded
BY InvBoundsRequests, AlwaysInv, PTL

\* What answers have cost is in task.total_cost when the step completes, in spite of the
\* rollbacks of failed calls, but for the answers of an editing that failed in its repeat; and
\* what is saved with the step is no more than that.
THEOREM NothingUnpaid == LlmSpec => []CostKept
BY InvKeepsCost, AlwaysInv, PTL
=============================================================================
