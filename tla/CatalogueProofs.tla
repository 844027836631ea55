----------------------------- MODULE CatalogueProofs -----------------------------
(* Theorems about the services of the catalogue, AuthorList and PromptStore,    *)
(* for any number of requests, editors and changes.                             *)
EXTENDS PromptStore, AuthorList, WellFoundedInduction, TLAPS

-----------------------------------------------------------------------------
(* The list of authors.  What the cache or a list request shows is compared  *)
(* with the changes by the time they were answered at: an answer always      *)
(* comes at a tick that no request under way has begun after.                *)

ReadAt == {"none", "lookup", "build", "store", "answered"}
Reads == [at : ReadAt, now : Nat, shows : Nat]
ListEntries == [there : BOOLEAN, time : Nat, shows : Nat]
Ledger == [committed : Nat, answered : SUBSET [change : Nat, tick : Nat], lone : Nat]

AuthorShape ==
  /\ tick \in Nat /\ authors \in Ledger /\ cached \in ListEntries
  /\ reading \in [ListReaders -> Reads] /\ changing \in [ListWriters -> Nat]

AuthorBounds ==
  /\ tick <= LastTick
  /\ authors.committed <= MaxChanges /\ authors.lone <= authors.committed
  /\ \A a \in authors.answered : a.change <= authors.committed /\ a.tick <= tick
  /\ cached.time <= tick /\ cached.shows <= authors.committed
  /\ \A r \in ListReaders : reading[r].now <= tick /\ reading[r].shows <= authors.committed
  /\ \A w \in ListWriters : changing[w] <= authors.committed

\* Shows every change that was answered before that time.
ShowsBefore(shows, time) ==
  \A a \in authors.answered : a.tick < time => a.change <= shows

CacheHonest ==
  cached.there => ShowsBefore(cached.shows, cached.time) /\ cached.shows >= authors.lone

StoreHonest ==
  \A r \in ListReaders : reading[r].at = "store" =>
    ShowsBefore(reading[r].shows, reading[r].now) /\ reading[r].shows >= authors.lone

AuthorInv ==
  AuthorShape /\ AuthorBounds /\ CacheHonest /\ StoreHonest /\ OldChangesShown

LEMMA AuthorsBegin == AuthorInit => AuthorInv
BY AuthorConstants DEF AuthorInit, NoList, NoRead, AuthorInv, AuthorShape, AuthorBounds, CacheHonest,
  StoreHonest, OldChangesShown, ShowsBefore, Reads, ReadAt, ListEntries, Ledger

\* A list request moves, and the cache stays or is emptied.
LEMMA OneReader ==
  ASSUME AuthorInv, NEW r \in ListReaders, NEW m \in Reads,
         reading' = [reading EXCEPT ![r] = m], UNCHANGED <<tick, authors, changing>>,
         cached' = cached \/ cached' = NoList,
         m.now <= tick, m.shows <= authors.committed,
         m.at = "store" => ShowsBefore(m.shows, m.now) /\ m.shows >= authors.lone,
         m.at = "answered" => \A a \in authors.answered : a.tick + Ttl < m.now => a.change <= m.shows
  PROVE  AuthorInv'
<1>1. reading' \in [ListReaders -> Reads] /\ reading'[r] = m
      /\ \A q \in ListReaders : q # r => reading'[q] = reading[q]
  BY DEF AuthorInv, AuthorShape
<1>a. NoList \in ListEntries /\ cached \in ListEntries
  BY DEF AuthorInv, AuthorShape, NoList, ListEntries
<1>2. AuthorShape'
  BY <1>1, <1>a DEF AuthorInv, AuthorShape
<1>3. AuthorBounds'
  BY <1>1 DEF AuthorInv, AuthorShape, AuthorBounds, NoList, Ledger
<1>4. StoreHonest'
  BY <1>1 DEF AuthorInv, StoreHonest, ShowsBefore
<1>5. OldChangesShown'
  BY <1>1 DEF AuthorInv, OldChangesShown
<1>6. CacheHonest'
  BY DEF AuthorInv, CacheHonest, ShowsBefore, NoList
<1>7. QED
  BY <1>2, <1>3, <1>4, <1>5, <1>6 DEF AuthorInv

LEMMA LookIntoStep ==
  ASSUME AuthorInv, NEW r \in ListReaders, LookInto(r)
  PROVE  AuthorInv'
<1>1. reading[r] \in Reads /\ reading[r].now <= tick /\ cached \in ListEntries
      /\ cached.shows <= authors.committed /\ cached.time <= tick /\ tick \in Nat
      /\ reading[r].shows <= authors.committed
  BY DEF AuthorInv, AuthorShape, AuthorBounds
<1>2. CASE cached.there /\ reading[r].now - cached.time <= Ttl
  <2> DEFINE m == [reading[r] EXCEPT !.at = "answered", !.shows = cached.shows]
  <2>1. reading' = [reading EXCEPT ![r] = m] /\ UNCHANGED <<tick, authors, cached, changing>>
    BY <1>2 DEF LookInto
  <2>2. m \in Reads /\ m.at = "answered" /\ m.now = reading[r].now /\ m.shows = cached.shows
    BY <1>1 DEF Reads, ReadAt, ListEntries
  <2>3. ASSUME NEW a \in authors.answered, a.tick + Ttl < m.now
        PROVE  a.change <= m.shows
    <3>1. a.tick \in Nat /\ cached.time \in Nat /\ reading[r].now \in Nat
      BY <1>1 DEF AuthorInv, AuthorShape, Ledger, ListEntries, Reads
    <3>2. a.tick < cached.time
      BY <1>2, <2>2, <2>3, <3>1, AuthorConstants
    <3>3. QED
      BY <1>2, <2>2, <3>2 DEF AuthorInv, CacheHonest, ShowsBefore
  <2> HIDE DEF m
  <2>4. QED
    BY <1>1, <2>1, <2>2, <2>3, OneReader
<1>3. CASE ~(cached.there /\ reading[r].now - cached.time <= Ttl)
  <2> DEFINE m == [reading[r] EXCEPT !.at = "build"]
  <2>1. reading' = [reading EXCEPT ![r] = m] /\ UNCHANGED <<tick, authors, changing>> /\ cached' = NoList
    BY <1>3 DEF LookInto
  <2>2. m \in Reads /\ m.at = "build" /\ m.now = reading[r].now /\ m.shows = reading[r].shows
    BY <1>1 DEF Reads, ReadAt
  <2> HIDE DEF m
  <2>3. QED
    BY <1>1, <2>1, <2>2, OneReader
<1>4. QED
  BY <1>2, <1>3

LEMMA ReadAuthorsStep ==
  ASSUME AuthorInv, NEW r \in ListReaders, ReadAuthors(r)
  PROVE  AuthorInv'
<1> DEFINE m == [reading[r] EXCEPT !.at = "store", !.shows = authors.committed]
<1>1. reading' = [reading EXCEPT ![r] = m] /\ UNCHANGED <<tick, authors, cached, changing>>
  BY DEF ReadAuthors
<1>2. reading[r] \in Reads /\ authors \in Ledger /\ reading[r].now <= tick
  BY DEF AuthorInv, AuthorShape, AuthorBounds
<1>3. m \in Reads /\ m.at = "store" /\ m.now = reading[r].now /\ m.shows = authors.committed
  BY <1>2 DEF Reads, ReadAt, Ledger
<1>4. ShowsBefore(authors.committed, reading[r].now) /\ authors.committed >= authors.lone
      /\ authors.committed <= authors.committed
  BY <1>2 DEF AuthorInv, AuthorBounds, ShowsBefore, Ledger
<1> HIDE DEF m
<1>5. QED
  BY <1>1, <1>2, <1>3, <1>4, OneReader

LEMMA ReaderStep ==
  ASSUME AuthorInv, NEW r \in ListReaders,
         AskList(r) \/ LookInto(r) \/ ReadAuthors(r) \/ KeepList(r) \/ GiveList(r)
  PROVE  AuthorInv'
<1> USE AuthorConstants DEF AuthorInv, AuthorShape, AuthorBounds, CacheHonest, StoreHonest,
      OldChangesShown, ShowsBefore, Reads, ReadAt, ListEntries, Ledger
<1>1. CASE AskList(r)
  BY <1>1 DEF AskList
<1>2. CASE KeepList(r)
  BY <1>2 DEF KeepList
<1>3. CASE GiveList(r)
  BY <1>3 DEF GiveList, NoRead
<1>4. QED
  BY <1>1, <1>2, <1>3, LookIntoStep, ReadAuthorsStep

LEMMA ChangeAuthorStep ==
  ASSUME AuthorInv, NEW w \in ListWriters, ChangeAuthor(w)
  PROVE  AuthorInv'
BY AuthorConstants DEF ChangeAuthor, AuthorInv, AuthorShape, AuthorBounds, CacheHonest, StoreHonest,
  OldChangesShown, ShowsBefore, Reads, ListEntries, Ledger

\* The new answer comes at the present tick, which nobody under way began after.
LEMMA ClearListStep ==
  ASSUME AuthorInv, NEW w \in ListWriters, ClearList(w)
  PROVE  AuthorInv'
<1> DEFINE a == [change |-> changing[w], tick |-> tick]
<1> DEFINE last == IF (\A r \in ListReaders : reading[r].at \notin {"build", "store"}) /\ changing[w] > authors.lone
                   THEN changing[w] ELSE authors.lone
<1>0. /\ authors' = [authors EXCEPT !.answered = @ \cup {a}, !.lone = last]
      /\ last \in {authors.lone, changing[w]}
      /\ (\E r \in ListReaders : reading[r].at = "store") => last = authors.lone
  BY DEF ClearList, Answering
<1>a. authors \in Ledger /\ a \in [change : Nat, tick : Nat] /\ changing[w] \in Nat
  BY DEF AuthorInv, AuthorShape
<1> HIDE DEF last, a
<1>1. /\ authors' \in Ledger /\ authors'.answered = authors.answered \cup {a}
      /\ authors'.committed = authors.committed
      /\ authors'.lone \in {authors.lone, changing[w]}
      /\ (\E r \in ListReaders : reading[r].at = "store") => authors'.lone = authors.lone
  BY <1>0, <1>a DEF Ledger
<1>2. UNCHANGED <<tick, reading>> /\ cached' = NoList /\ changing' = [changing EXCEPT ![w] = 0]
  BY DEF ClearList
<1>3. a.tick = tick /\ a.change = changing[w] /\ changing[w] <= authors.committed /\ tick \in Nat
      /\ changing[w] \in Nat
  BY DEF AuthorInv, AuthorShape, AuthorBounds, a
<1>4. AuthorShape' /\ CacheHonest'
  BY <1>1, <1>2 DEF AuthorInv, AuthorShape, CacheHonest, NoList, ListEntries
<1>5. AuthorBounds'
  BY <1>1, <1>2, <1>3 DEF AuthorInv, AuthorShape, AuthorBounds, NoList, Ledger
<1>6. ASSUME NEW r \in ListReaders
      PROVE  reading[r].now \in Nat /\ ~(a.tick < reading[r].now) /\ ~(a.tick + Ttl < reading[r].now)
  BY <1>3, AuthorConstants DEF AuthorInv, AuthorShape, AuthorBounds, Reads
<1>7. StoreHonest'
  BY <1>1, <1>2, <1>6 DEF AuthorInv, StoreHonest, ShowsBefore
<1>8. OldChangesShown'
  BY <1>1, <1>2, <1>6 DEF AuthorInv, OldChangesShown
<1>9. QED
  BY <1>4, <1>5, <1>7, <1>8 DEF AuthorInv

LEMMA AuthorsStep == AuthorInv /\ [AuthorNext]_authorVars => AuthorInv'
<1>1. SUFFICES ASSUME AuthorInv, [AuthorNext]_authorVars
               PROVE  AuthorInv'
  OBVIOUS
<1>2. CASE PassTime
  BY <1>1, <1>2, AuthorConstants DEF PassTime, AuthorInv, AuthorShape, AuthorBounds, CacheHonest,
    StoreHonest, OldChangesShown, ShowsBefore, Reads, ListEntries, Ledger
<1>3. CASE UNCHANGED authorVars
  BY <1>1, <1>3 DEF authorVars, AuthorInv, AuthorShape, AuthorBounds, CacheHonest, StoreHonest,
    OldChangesShown, ShowsBefore
<1>4. QED
  BY <1>1, <1>2, <1>3, ReaderStep, ChangeAuthorStep, ClearListStep DEF AuthorNext

\* What the invariant says of the lists.
LEMMA AuthorInvTyped == AuthorInv => AuthorTypeOK
BY AuthorConstants DEF AuthorInv, AuthorShape, AuthorBounds, AuthorTypeOK, Reads, ReadAt, ListEntries, Ledger

LEMMA AuthorInvFresh == AuthorInv => ListFresh
BY DEF AuthorInv, CacheHonest, ListFresh, LoneChangeShown

LEMMA AuthorInvariant == AuthorSpec => []AuthorInv
BY AuthorsBegin, AuthorsStep, PTL DEF AuthorSpec

\* Every state of the list and its cache is well typed (authors.py:100-145).
THEOREM AuthorsTyped == AuthorSpec => []AuthorTypeOK
BY AuthorInvTyped, AuthorInvariant, PTL

\* A list never hides a change that was answered more than the TTL before it was asked for,
\* and the cache never hides one that no list request was in the middle of, for any number
\* of requests and changes (authors.py:119-145).
THEOREM ListsFresh == AuthorSpec => []ListFresh
BY AuthorInvFresh, AuthorInvariant, PTL

-----------------------------------------------------------------------------
(* The greatest of the versions: a bounded set of numbers has one, because   *)
(* the bounds of the set have a least one.                                   *)

LEMMA LeastNumber ==
  ASSUME NEW T \in SUBSET Nat, T # {}
  PROVE  \E x \in T : \A y \in T : x <= y
<1> DEFINE less == OpToRel(<, Nat)
<1>1. IsWellFoundedOn(less, Nat)
  BY NatLessThanWellFounded
<1>2. ASSUME NEW x \in Nat, NEW y \in Nat, <<y, x>> \notin less
      PROVE  x <= y
  <2>1. ~(y < x)
    BY <1>2 DEF OpToRel
  <2>2. QED
    BY <2>1
<1> HIDE DEF less
<1>3. PICK x \in T : \A y \in T : <<y, x>> \notin less
  BY <1>1, WFMin
<1>4. QED
  BY <1>2, <1>3

LEMMA GreatestNumber ==
  ASSUME NEW S \in SUBSET Nat, S # {}, NEW b \in Nat, \A s \in S : s <= b
  PROVE  \E m \in S : \A s \in S : s <= m
<1>1. PICK m \in {u \in Nat : \A s \in S : s <= u} :
        \A u \in {v \in Nat : \A s \in S : s <= v} : m <= u
  BY LeastNumber
<1>2. CASE m \in S
  BY <1>1, <1>2
<1>3. CASE m \notin S
  <2>1. \A s \in S : s < m
    BY <1>1, <1>3
  <2>2. PICK s \in S : TRUE
    OBVIOUS
  <2>3. m - 1 \in Nat /\ \A t \in S : t <= m - 1
    BY <1>1, <2>1, <2>2
  <2>4. QED
    BY <1>1, <2>3
<1>4. QED
  BY <1>2, <1>3

-----------------------------------------------------------------------------
(* Prompts and presets.  Three things are kept: a save deactivates rows of   *)
(* its own agent only; versions are at most the number of requests; and what *)
(* a transaction that overlaps no other has read is still so.                *)

EditAt == {"none", "update", "lock", "insert", "clear", "put"}
PromptRows == [agent : Agents, version : Nat \ {0}, active : BOOLEAN]
PresetRows == [there : BOOLEAN, items : [Agents -> Nat]]
EditRows == [at : EditAt, agent : Agents, source : Nat, version : Nat, rows : SUBSET Nat,
          name : Presets \cup {"none"}, items : [Agents -> Nat], new : BOOLEAN, alone : BOOLEAN]

PromptShape ==
  /\ prompts \in Seq(PromptRows) /\ preset \in [Presets -> PresetRows]
  /\ edit \in [Editors -> EditRows] /\ saves \in 0..MaxSaves

Pinned == \A p \in Presets, a \in Agents : preset[p].items[a] <= Len(prompts)

Numbered == \A i \in Rows : prompts[i].version <= saves

Served == \A a \in Agents : Of(a) # {} => Alive(a) # {}

\* What a transaction holds, whatever the others do.
Sound(t) ==
  /\ t.rows \subseteq Rows /\ t.source <= Len(prompts) /\ t.version <= saves
  /\ \A a \in Agents : t.items[a] <= Len(prompts)
  /\ t.at \in {"update", "lock", "insert"} => t.version > 0
  /\ t.at \in {"lock", "insert"} => t.rows \subseteq Of(t.agent)
  /\ t.at \in {"clear", "put"} => t.name \in Presets

\* What it has read, if it overlaps no other.
Fresh(t) ==
  /\ t.at \in {"update", "lock", "insert"} => \A i \in Of(t.agent) : prompts[i].version < t.version
  /\ t.at \in {"lock", "insert"} => t.rows = Of(t.agent)
  /\ t.at \in {"clear", "put"} => (t.new <=> ~preset[t.name].there)
  /\ t.at = "put" => t.rows = {preset[t.name].items[a] : a \in Agents} \ {0}

Lonely ==
  \A e \in InEdit : edit[e].alone => InEdit = {e} /\ Fresh(edit[e])

PromptInv ==
  /\ PromptShape /\ Pinned /\ Numbered /\ Served
  /\ \A e \in Editors : Sound(edit[e])
  /\ Lonely

LEMMA PromptsBegin == PromptInit => PromptInv
<1>1. SUFFICES ASSUME PromptInit
               PROVE  PromptInv
  OBVIOUS
<1>2. NoItems \in [Agents -> Nat] /\ \A a \in Agents : NoItems[a] = 0
  BY DEF NoItems
<1>3. NoEdit \in EditRows /\ NoEdit.at = "none" /\ NoEdit.rows = {} /\ NoEdit.source = 0
      /\ NoEdit.version = 0 /\ NoEdit.items = NoItems
  BY <1>2, PromptConstants DEF NoEdit, EditRows, EditAt
<1>4. NoPreset \in PresetRows /\ NoPreset.items = NoItems
  BY <1>2 DEF NoPreset, PresetRows
<1>5. prompts = <<>> /\ Len(prompts) = 0 /\ Rows = {} /\ saves = 0
  BY <1>1 DEF PromptInit, Rows
<1>6. PromptShape /\ Pinned /\ Numbered
  BY <1>1, <1>2, <1>3, <1>4, <1>5, PromptConstants DEF PromptInit, PromptShape, Pinned, Numbered
<1>7. Served /\ Lonely
  BY <1>1, <1>3, <1>5 DEF PromptInit, Served, Of, Lonely, InEdit
<1>8. \A e \in Editors : Sound(edit[e])
  BY <1>1, <1>2, <1>3, <1>5 DEF PromptInit, Sound
<1>9. QED
  BY <1>6, <1>7, <1>8 DEF PromptInv

LEMMA PromptFacts ==
  ASSUME PromptInv
  PROVE  /\ prompts \in Seq(PromptRows) /\ Len(prompts) \in Nat /\ Rows = 1..Len(prompts)
         /\ \A i \in Rows : prompts[i] \in PromptRows
         /\ \A e \in Editors : edit[e] \in EditRows
         /\ saves \in Nat
BY PromptConstants DEF PromptInv, PromptShape, Rows

LEMMA NoEditFacts ==
  /\ NoEdit \in EditRows /\ NoEdit.at = "none" /\ NoEdit.rows = {} /\ NoEdit.source = 0
  /\ NoEdit.version = 0 /\ NoEdit.items = NoItems
  /\ \A a \in Agents : NoItems[a] = 0
<1>1. NoItems \in [Agents -> Nat] /\ \A a \in Agents : NoItems[a] = 0
  BY DEF NoItems
<1>2. QED
  BY <1>1, PromptConstants DEF NoEdit, EditRows, EditAt

\* A transaction begins: those under way are no longer alone, and read what they read.
LEMMA OpenKeeps ==
  ASSUME PromptInv, NEW e \in Editors, NEW t \in EditRows, Open(e, t), UNCHANGED <<prompts, preset>>,
         t.at \in {"update", "clear"}, t.rows = {}, t.source <= Len(prompts), t.version <= saves + 1,
         \A a \in Agents : t.items[a] <= Len(prompts),
         t.at = "update" => t.version > 0 /\ \A i \in Of(t.agent) : prompts[i].version < t.version,
         t.at = "clear" => t.name \in Presets /\ (t.new <=> ~preset[t.name].there)
  PROVE  PromptInv'
<1> DEFINE u == [t EXCEPT !.alone = InEdit = {}]
           At(d) == IF d = e THEN u ELSE IF d \in InEdit THEN [edit[d] EXCEPT !.alone = FALSE] ELSE NoEdit
<1>1. edit' = [d \in Editors |-> At(d)] /\ saves' = saves + 1 /\ e \notin InEdit /\ saves < MaxSaves
  BY DEF Open
<1>2. /\ u \in EditRows /\ u.at = t.at /\ u.rows = {} /\ u.source = t.source /\ u.version = t.version
      /\ u.items = t.items /\ u.agent = t.agent /\ u.name = t.name /\ u.new = t.new
      /\ u.alone = (InEdit = {})
  BY DEF EditRows
<1> HIDE DEF u
<1>3. \A d \in InEdit : /\ d \in Editors /\ [edit[d] EXCEPT !.alone = FALSE] \in EditRows
                      /\ [edit[d] EXCEPT !.alone = FALSE].alone = FALSE
  BY PromptFacts DEF InEdit, EditRows
<1>4. \A d \in Editors : At(d) \in EditRows
  BY <1>2, <1>3, NoEditFacts
<1>5. PromptShape' /\ Pinned' /\ Numbered' /\ Served'
  <2>1. edit' \in [Editors -> EditRows]
    BY <1>1, <1>4
  <2>2. saves' \in 0..MaxSaves
    BY <1>1, PromptFacts, PromptConstants
  <2>3. Numbered'
    BY <1>1, PromptFacts DEF PromptInv, Numbered, Rows, PromptRows
  <2>4. QED
    BY <2>1, <2>2, <2>3 DEF PromptInv, PromptShape, Pinned, Served, Of, Alive, Rows
<1>6. ASSUME NEW d \in Editors
      PROVE  Sound(edit[d])'
  <2>1. CASE d = e
    BY <1>1, <1>2, <2>1, PromptFacts DEF Sound
  <2>2. CASE d # e /\ d \in InEdit
    <3>1. /\ edit'[d].rows = edit[d].rows /\ edit'[d].source = edit[d].source
          /\ edit'[d].version = edit[d].version /\ edit'[d].items = edit[d].items
          /\ edit'[d].at = edit[d].at /\ edit'[d].agent = edit[d].agent
          /\ edit'[d].name = edit[d].name
      BY <1>1, <2>2, PromptFacts DEF EditRows
    <3>2. edit[d].version \in Nat /\ saves \in Nat
      BY PromptFacts DEF EditRows
    <3>3. QED
      BY <1>1, <3>1, <3>2 DEF PromptInv, Sound, Of, Rows
  <2>3. CASE d # e /\ d \notin InEdit
    BY <1>1, <2>3, PromptFacts, NoEditFacts DEF Sound
  <2>4. QED
    BY <2>1, <2>2, <2>3
<1>7. Lonely'
  <2>1. SUFFICES ASSUME NEW d \in Editors, edit'[d].at # "none", edit'[d].alone
                 PROVE  InEdit' = {d} /\ Fresh(edit[d])'
    BY DEF Lonely, InEdit
  <2>2. d = e
    BY <1>1, <1>3, <2>1, NoEditFacts
  <2>3. InEdit = {}
    BY <1>1, <1>2, <2>1, <2>2
  <2>4. InEdit' = {e}
    BY <1>1, <1>2, <2>3, NoEditFacts DEF InEdit
  <2>5. Fresh(edit[d])'
    BY <1>1, <1>2, <2>2 DEF Fresh, Of, Rows
  <2>6. QED
    BY <2>2, <2>4, <2>5
<1>8. QED
  BY <1>5, <1>6, <1>7 DEF PromptInv

\* The version of a new row is above those of its agent, and counts no more than the requests.
LEMMA NextVersionAbove ==
  ASSUME PromptInv, NEW agent \in Agents, NEW source
  PROVE  /\ NextVersion(agent, source) \in Nat \ {0} /\ NextVersion(agent, source) <= saves + 1
         /\ \A i \in Of(agent) : prompts[i].version < NextVersion(agent, source)
<1> DEFINE versions == {prompts[i].version : i \in Of(agent)}
<1>1. /\ \A i \in Of(agent) : prompts[i].version \in versions /\ i \in Rows
      /\ versions \in SUBSET Nat /\ \A v \in versions : v <= saves
  BY PromptFacts DEF Of, PromptInv, Numbered, PromptRows
<1>2. CASE Of(agent) = {}
  BY <1>2, PromptFacts DEF NextVersion
<1>3. CASE Of(agent) # {}
  <2> DEFINE top == CHOOSE v \in versions : \A i \in Of(agent) : prompts[i].version <= v
  <2>1. versions # {} /\ saves \in Nat
    BY <1>3, PromptFacts
  <2>2. PICK m \in versions : \A v \in versions : v <= m
    BY <1>1, <2>1, GreatestNumber
  <2>3. top \in versions /\ \A i \in Of(agent) : prompts[i].version <= top
    BY <1>1, <2>2
  <2>4. NextVersion(agent, source) = 1 + top
    BY <1>3 DEF NextVersion
  <2> HIDE DEF top
  <2>5. (\A i \in Of(agent) : prompts[i].version \in Nat) /\ top \in Nat /\ top <= saves
    BY <1>1, <2>3
  <2>6. QED
    BY <2>1, <2>3, <2>4, <2>5
<1>4. QED
  BY <1>2, <1>3

LEMMA BeginSteps ==
  ASSUME PromptInv, NEW e \in Editors, CreatePrompt(e) \/ RestorePrompt(e) \/ PutPreset(e)
  PROVE  PromptInv'
<1>1. ASSUME NEW t \in EditRows, NEW source \in Nat, source <= Len(prompts), Open(e, t),
             t.at = "update", t.rows = {}, t.items = NoItems, t.source = source,
             t.version = NextVersion(t.agent, source), prompts' = prompts, preset' = preset
      PROVE  PromptInv'
  <2>1. t.agent \in Agents
    BY <1>1 DEF EditRows
  <2>2. \A a \in Agents : t.items[a] <= Len(prompts)
    BY <1>1, NoEditFacts, PromptFacts
  <2>3. QED
    BY <1>1, <2>1, <2>2, OpenKeeps, NextVersionAbove
<1>2. CASE CreatePrompt(e)
  <2>1. PICK agent \in Agents :
          Open(e, [NoEdit EXCEPT !.at = "update", !.agent = agent, !.version = NextVersion(agent, 0)])
    BY <1>2 DEF CreatePrompt
  <2> DEFINE t == [NoEdit EXCEPT !.at = "update", !.agent = agent, !.version = NextVersion(agent, 0)]
  <2>2. NextVersion(agent, 0) \in Nat
    BY NextVersionAbove
  <2>3. /\ t \in EditRows /\ t.at = "update" /\ t.rows = {} /\ t.items = NoItems /\ t.source = 0
        /\ t.agent = agent /\ t.version = NextVersion(agent, 0)
    BY <2>2, NoEditFacts DEF EditRows, EditAt
  <2> HIDE DEF t
  <2>4. Open(e, t)
    BY <2>1 DEF t
  <2>5. prompts' = prompts /\ preset' = preset
    BY <1>2 DEF CreatePrompt
  <2>6. 0 \in Nat /\ 0 <= Len(prompts)
    BY PromptFacts
  <2>7. QED
    BY <1>1, <2>3, <2>4, <2>5, <2>6
<1>3. CASE RestorePrompt(e)
  <2>1. PICK source \in Rows :
          Open(e, [NoEdit EXCEPT !.at = "update", !.agent = prompts[source].agent, !.source = source,
                                 !.version = NextVersion(prompts[source].agent, source)])
    BY <1>3 DEF RestorePrompt
  <2> DEFINE agent == prompts[source].agent
             t == [NoEdit EXCEPT !.at = "update", !.agent = agent, !.source = source,
                                 !.version = NextVersion(agent, source)]
  <2>2. agent \in Agents /\ source \in Nat /\ source <= Len(prompts)
    BY PromptFacts DEF PromptRows
  <2>3. Open(e, t)
    BY <2>1
  <2> HIDE DEF agent
  <2>4. NextVersion(agent, source) \in Nat
    BY <2>2, NextVersionAbove
  <2>5. /\ t \in EditRows /\ t.at = "update" /\ t.rows = {} /\ t.items = NoItems /\ t.source = source
        /\ t.agent = agent /\ t.version = NextVersion(agent, source)
    BY <2>2, <2>4, NoEditFacts DEF EditRows, EditAt
  <2> HIDE DEF t
  <2>6. prompts' = prompts /\ preset' = preset
    BY <1>3 DEF RestorePrompt
  <2>7. QED
    BY <1>1, <2>2, <2>3, <2>5, <2>6
<1>4. CASE PutPreset(e)
  <2>1. PICK p \in Presets, items \in Payloads :
          Open(e, [NoEdit EXCEPT !.at = "clear", !.name = p, !.items = items, !.new = ~preset[p].there])
    BY <1>4 DEF PutPreset
  <2> DEFINE t == [NoEdit EXCEPT !.at = "clear", !.name = p, !.items = items, !.new = ~preset[p].there]
  <2>2. items \in [Agents -> Nat] /\ \A a \in Agents : items[a] <= Len(prompts)
    BY PromptFacts DEF Payloads
  <2> DEFINE new == ~preset[p].there
  <2>3. new \in BOOLEAN
    BY DEF new
  <2>4. /\ t \in EditRows /\ t.at = "clear" /\ t.source = 0 /\ t.rows = {} /\ t.version = 0
        /\ t.items = items /\ t.name = p /\ t.new = new
    BY <2>2, <2>3, NoEditFacts DEF EditRows, EditAt
  <2> HIDE DEF t
  <2>5. Open(e, t)
    BY <2>1 DEF t
  <2>6. t.name \in Presets /\ (t.new <=> ~preset[t.name].there) /\ t.source <= Len(prompts)
        /\ t.version <= saves + 1
    <3>1. t.name \in Presets /\ (t.new <=> ~preset[t.name].there)
      BY <2>4 DEF new
    <3>2. t.source <= Len(prompts) /\ t.version <= saves + 1
      BY <2>4, PromptFacts
    <3>3. QED
      BY <3>1, <3>2
  <2>a. UNCHANGED <<prompts, preset>>
    BY <1>4 DEF PutPreset
  <2>7. t.at # "update" /\ t.at \in {"update", "clear"}
        /\ \A a \in Agents : t.items[a] <= Len(prompts)
    BY <2>2, <2>4
  <2>8. QED
    BY <2>4, <2>5, <2>6, <2>7, <2>a, OpenKeeps
<1>5. QED
  BY <1>2, <1>3, <1>4

\* One transaction goes on; nothing is committed.
LEMMA GoesOn ==
  ASSUME PromptInv, NEW e \in Editors, NEW t \in EditRows, edit' = [edit EXCEPT ![e] = t],
         UNCHANGED <<prompts, preset, saves>>, edit[e].at # "none", t.at # "none",
         t.alone = edit[e].alone, Sound(t), edit[e].alone => Fresh(t)
  PROVE  PromptInv'
<1>1. edit' \in [Editors -> EditRows] /\ edit'[e] = t /\ \A d \in Editors : d # e => edit'[d] = edit[d]
  BY DEF PromptInv, PromptShape
<1>2. PromptShape' /\ Pinned' /\ Numbered' /\ Served'
  BY <1>1 DEF PromptInv, PromptShape, Pinned, Numbered, Served, Of, Alive, Rows
<1>3. \A d \in Editors : Sound(edit[d])'
  BY <1>1 DEF PromptInv, Sound, Of, Rows
<1>4. InEdit' = InEdit
  BY <1>1 DEF InEdit
<1>5. \A d \in InEdit : edit'[d].alone => Fresh(edit[d])'
  BY <1>1 DEF PromptInv, Lonely, Fresh, Of, Rows, InEdit
<1>6. Lonely'
  BY <1>1, <1>4, <1>5 DEF PromptInv, Lonely, InEdit
<1>7. QED
  BY <1>2, <1>3, <1>6 DEF PromptInv

LEMMA GoOnSteps ==
  ASSUME PromptInv, NEW e \in Editors, Deactivate(e) \/ HoldRows(e) \/ ClearItems(e)
  PROVE  PromptInv'
<1>1. edit[e] \in EditRows /\ Sound(edit[e]) /\ (edit[e].at # "none" /\ edit[e].alone => Fresh(edit[e]))
  BY PromptFacts DEF PromptInv, Lonely, InEdit
<1>2. CASE Deactivate(e)
  <2> DEFINE t == [edit[e] EXCEPT !.at = "lock", !.rows = Of(edit[e].agent)]
  <2>1. Of(edit[e].agent) \in SUBSET Nat /\ Of(edit[e].agent) \subseteq Rows
    BY PromptFacts DEF Of
  <2>2. /\ t \in EditRows /\ t.at = "lock" /\ t.rows = Of(t.agent) /\ t.agent = edit[e].agent
        /\ t.source = edit[e].source /\ t.version = edit[e].version /\ t.items = edit[e].items
        /\ t.alone = edit[e].alone
    BY <1>1, <2>1 DEF EditRows, EditAt
  <2>3. edit' = [edit EXCEPT ![e] = t] /\ edit[e].at = "update" /\ UNCHANGED <<prompts, preset, saves>>
    BY <1>2 DEF Deactivate
  <2> HIDE DEF t
  <2>4. Sound(t) /\ (edit[e].alone => Fresh(t))
    BY <1>1, <2>1, <2>2, <2>3 DEF Sound, Fresh
  <2>5. QED
    BY <2>2, <2>3, <2>4, GoesOn
<1>3. CASE HoldRows(e)
  <2> DEFINE t == [edit[e] EXCEPT !.at = "insert"]
  <2>1. /\ t \in EditRows /\ t.at = "insert" /\ t.rows = edit[e].rows /\ t.agent = edit[e].agent
        /\ t.source = edit[e].source /\ t.version = edit[e].version /\ t.items = edit[e].items
        /\ t.alone = edit[e].alone
    BY <1>1 DEF EditRows, EditAt
  <2>2. edit' = [edit EXCEPT ![e] = t] /\ edit[e].at = "lock" /\ UNCHANGED <<prompts, preset, saves>>
    BY <1>3 DEF HoldRows
  <2> HIDE DEF t
  <2>3. Sound(t) /\ (edit[e].alone => Fresh(t))
    BY <1>1, <2>1, <2>2 DEF Sound, Fresh
  <2>4. QED
    BY <2>1, <2>2, <2>3, GoesOn
<1>4. CASE ClearItems(e)
  <2> DEFINE rows == {preset[edit[e].name].items[a] : a \in Agents} \ {0}
             t == [edit[e] EXCEPT !.at = "put", !.rows = rows]
  <2>1. edit[e].name \in Presets /\ edit[e].at = "clear"
    BY <1>1, <1>4 DEF ClearItems, Sound
  <2>2. preset[edit[e].name].items \in [Agents -> Nat]
        /\ \A a \in Agents : preset[edit[e].name].items[a] <= Len(prompts)
    BY <2>1 DEF PromptInv, PromptShape, PresetRows, Pinned
  <2>3. rows \in SUBSET Nat /\ rows \subseteq Rows
    BY <2>2, PromptFacts
  <2>4. edit' = [edit EXCEPT ![e] = t] /\ UNCHANGED <<prompts, preset, saves>>
    BY <1>4 DEF ClearItems
  <2> HIDE DEF rows
  <2>5. /\ t \in EditRows /\ t.at = "put" /\ t.rows = rows /\ t.name = edit[e].name
        /\ t.source = edit[e].source /\ t.version = edit[e].version /\ t.items = edit[e].items
        /\ t.alone = edit[e].alone /\ t.new = edit[e].new
    BY <1>1, <2>3 DEF EditRows, EditAt
  <2> HIDE DEF t
  <2>6. Sound(t) /\ (edit[e].alone => Fresh(t))
    BY <1>1, <2>1, <2>3, <2>5 DEF Sound, Fresh, rows
  <2>7. QED
    BY <2>1, <2>4, <2>5, <2>6, GoesOn
<1>5. QED
  BY <1>2, <1>3, <1>4

\* The rows after a save.
LEMMA SavedRows ==
  ASSUME PromptInv, NEW e \in Editors, SavePrompt(e)
  PROVE  /\ prompts' \in Seq(PromptRows) /\ Len(prompts') = Len(prompts) + 1
         /\ Rows' = Rows \cup {Len(prompts) + 1}
         /\ \A i \in Rows : prompts'[i].agent = prompts[i].agent
         /\ \A i \in Rows : prompts'[i].version = prompts[i].version
         /\ \A i \in Rows : prompts'[i].active <=> (prompts[i].active /\ i \notin edit[e].rows)
         /\ prompts'[Len(prompts) + 1].agent = edit[e].agent
         /\ prompts'[Len(prompts) + 1].version = edit[e].version
         /\ prompts'[Len(prompts) + 1].active
<1> DEFINE off == [i \in Rows |-> IF i \in edit[e].rows THEN [prompts[i] EXCEPT !.active = FALSE]
                                ELSE prompts[i]]
           new == [agent |-> edit[e].agent, version |-> edit[e].version, active |-> TRUE]
<1>1. prompts' = Append(off, new)
  BY DEF SavePrompt
<1>2. ASSUME NEW i \in Rows
      PROVE  /\ off[i] \in PromptRows /\ off[i].agent = prompts[i].agent
             /\ off[i].version = prompts[i].version
             /\ off[i].active <=> (prompts[i].active /\ i \notin edit[e].rows)
  BY PromptFacts DEF PromptRows
<1>a. off \in [1..Len(prompts) -> PromptRows] /\ Len(prompts) \in Nat
  BY <1>2, PromptFacts
<1>4. /\ new \in PromptRows /\ new.agent = edit[e].agent /\ new.version = edit[e].version
      /\ new.active
  BY PromptFacts DEF PromptInv, Sound, SavePrompt, EditRows, PromptRows
<1> HIDE DEF off, new
<1>3. off \in Seq(PromptRows) /\ Len(off) = Len(prompts)
  BY <1>a
<1>5. prompts' \in Seq(PromptRows) /\ Len(prompts') = Len(prompts) + 1
  BY <1>1, <1>3, <1>4
<1>6. \A i \in 1..Len(prompts) : prompts'[i] = off[i]
  BY <1>1, <1>3, <1>4
<1>7. prompts'[Len(prompts) + 1] = new
  BY <1>1, <1>3, <1>4, PromptFacts
<1>8. Rows' = Rows \cup {Len(prompts) + 1}
  BY <1>5, PromptFacts DEF Rows
<1>9. QED
  BY <1>2, <1>4, <1>5, <1>6, <1>7, <1>8, PromptFacts

LEMMA SaveStep ==
  ASSUME PromptInv, NEW e \in Editors, SavePrompt(e)
  PROVE  PromptInv'
<1> DEFINE n == Len(prompts) + 1
<1>a. /\ prompts' \in Seq(PromptRows) /\ Len(prompts') = Len(prompts) + 1
      /\ Rows' = Rows \cup {Len(prompts) + 1}
      /\ \A i \in Rows : prompts'[i].agent = prompts[i].agent
      /\ \A i \in Rows : prompts'[i].version = prompts[i].version
      /\ \A i \in Rows : prompts'[i].active <=> (prompts[i].active /\ i \notin edit[e].rows)
      /\ prompts'[Len(prompts) + 1].agent = edit[e].agent
      /\ prompts'[Len(prompts) + 1].version = edit[e].version
      /\ prompts'[Len(prompts) + 1].active
  BY SavedRows
<1>1. /\ edit[e].at = "insert" /\ edit' = [edit EXCEPT ![e] = NoEdit] /\ UNCHANGED <<preset, saves>>
      /\ edit[e] \in EditRows /\ Sound(edit[e]) /\ edit[e].rows \subseteq Of(edit[e].agent)
  BY PromptFacts DEF SavePrompt, Closed, PromptInv, Sound
<1>2. /\ edit' \in [Editors -> EditRows] /\ edit'[e] = NoEdit
      /\ \A d \in Editors : d # e => edit'[d] = edit[d]
  BY <1>1, NoEditFacts DEF PromptInv, PromptShape
<1>3. n \in Nat /\ n = Len(prompts') /\ Len(prompts) \in Nat /\ n \notin Rows /\ Len(prompts) < n
  <2>1. n = Len(prompts') /\ Len(prompts) \in Nat /\ Rows = 1..Len(prompts)
    BY <1>a, PromptFacts
  <2>2. QED
    BY <2>1
<1>4. PromptShape'
  BY <1>1, <1>2, <1>a DEF PromptInv, PromptShape
<1>5. Pinned'
  <2>1. ASSUME NEW p \in Presets, NEW a \in Agents
        PROVE  preset'[p].items[a] <= Len(prompts')
    <3>1. preset[p].items[a] \in Nat /\ preset[p].items[a] <= Len(prompts)
      BY DEF PromptInv, PromptShape, PresetRows, Pinned
    <3>2. QED
      BY <1>1, <1>3, <3>1
  <2>2. QED
    BY <2>1 DEF Pinned
<1>6. Numbered'
  <2>1. ASSUME NEW i \in Rows'
        PROVE  prompts'[i].version <= saves
    <3>1. CASE i \in Rows
      BY <3>1, <1>a DEF PromptInv, Numbered
    <3>2. CASE i = Len(prompts) + 1
      BY <1>1, <3>2, <1>a DEF Sound
    <3>3. QED
      BY <3>1, <3>2, <1>a
  <2>2. QED
    BY <1>1, <2>1 DEF Numbered
<1>7. Served'
  <2>1. ASSUME NEW a \in Agents, NEW i \in Rows', prompts'[i].agent = a
        PROVE  Alive(a)' # {}
    <3>1. CASE a = edit[e].agent
      <4>1. n \in Rows' /\ prompts'[n].agent = a /\ prompts'[n].active
        BY <3>1, <1>a
      <4>2. QED
        BY <4>1 DEF Alive, Of
    <3>2. CASE a # edit[e].agent
      <4>1. i \in Of(a)
        <5>1. prompts'[n].agent = edit[e].agent
          BY <1>a
        <5>2. i \in Rows
          BY <2>1, <3>2, <5>1, <1>a
        <5>3. QED
          BY <2>1, <5>2, <1>a DEF Of
      <4>2. PICK j \in Of(a) : prompts[j].active
        BY <4>1 DEF PromptInv, Served, Alive
      <4>3. j \in Rows /\ prompts[j].agent = a /\ j \notin edit[e].rows
        BY <1>1, <3>2, <4>2 DEF Of
      <4>4. j \in Rows' /\ prompts'[j].agent = a /\ prompts'[j].active
        BY <4>2, <4>3, <1>a
      <4>5. QED
        BY <4>4 DEF Alive, Of
    <3>3. QED
      BY <3>1, <3>2
  <2>2. QED
    BY <2>1 DEF Served, Of
<1>8. ASSUME NEW d \in Editors
      PROVE  Sound(edit[d])'
  <2>1. CASE d = e
    BY <1>1, <1>2, <1>3, <2>1, NoEditFacts, PromptFacts DEF Sound
  <2>2. CASE d # e
    <3>1. edit'[d] = edit[d] /\ edit[d] \in EditRows /\ Sound(edit[d])
      BY <1>2, <2>2, PromptFacts DEF PromptInv
    <3>2. edit[d].rows \subseteq Rows'
      BY <3>1, <1>a DEF Sound
    <3>3. edit[d].source <= Len(prompts') /\ \A a \in Agents : edit[d].items[a] <= Len(prompts')
      <4>1. edit[d].source \in Nat /\ \A a \in Agents : edit[d].items[a] \in Nat
        BY <3>1 DEF EditRows
      <4>2. edit[d].source <= Len(prompts) /\ \A a \in Agents : edit[d].items[a] <= Len(prompts)
        BY <3>1 DEF Sound
      <4>3. QED
        BY <1>3, <4>1, <4>2
    <3>4. edit[d].at \in {"lock", "insert"} =>
            \A i \in edit[d].rows : i \in Rows' /\ prompts'[i].agent = edit[d].agent
      BY <3>1, <1>a DEF Sound, Of
    <3>5. QED
      BY <1>1, <3>1, <3>2, <3>3, <3>4 DEF Sound, Of
  <2>3. QED
    BY <2>1, <2>2
<1>9. Lonely'
  BY <1>1, <1>2, NoEditFacts DEF PromptInv, Lonely, InEdit
<1>10. QED
  BY <1>4, <1>5, <1>6, <1>7, <1>8, <1>9 DEF PromptInv

\* A preset goes, and nobody who is under way is alone any more.
LEMMA DeletePresetStep ==
  ASSUME PromptInv, NEW p \in Presets, DeletePreset(p)
  PROVE  PromptInv'
<1>1. /\ UNCHANGED prompts /\ saves < MaxSaves /\ saves' = saves + 1
      /\ preset' = [preset EXCEPT ![p] = NoPreset]
      /\ edit' = [d \in Editors |-> IF d \in InEdit THEN [edit[d] EXCEPT !.alone = FALSE] ELSE NoEdit]
  BY DEF DeletePreset
<1>2. saves \in Nat /\ saves' \in 0..MaxSaves /\ Len(prompts) \in Nat
  BY <1>1, PromptFacts, PromptConstants
<1>3. NoPreset \in PresetRows /\ \A a \in Agents : NoPreset.items[a] = 0
  BY DEF NoPreset, PresetRows, NoItems
<1>4. preset' \in [Presets -> PresetRows]
      /\ \A q \in Presets, a \in Agents : preset'[q].items[a] <= Len(prompts)
  BY <1>1, <1>2, <1>3 DEF PromptInv, PromptShape, Pinned
<1>5. ASSUME NEW d \in InEdit
      PROVE  /\ edit'[d] \in EditRows /\ ~edit'[d].alone
             /\ edit'[d].rows = edit[d].rows /\ edit'[d].source = edit[d].source
             /\ edit'[d].version = edit[d].version /\ edit'[d].items = edit[d].items
             /\ edit'[d].at = edit[d].at /\ edit'[d].agent = edit[d].agent
             /\ edit'[d].name = edit[d].name
  BY <1>1, PromptFacts DEF InEdit, EditRows
<1>6. edit' \in [Editors -> EditRows]
  BY <1>1, <1>5, NoEditFacts
<1>7. PromptShape' /\ Pinned' /\ Served'
  BY <1>1, <1>2, <1>4, <1>6 DEF PromptInv, PromptShape, Pinned, Served, Of, Alive, Rows
<1>8. Numbered'
  BY <1>1, <1>2, PromptFacts DEF PromptInv, Numbered, Rows, PromptRows
<1>9. ASSUME NEW d \in Editors
      PROVE  Sound(edit[d])'
  <2>1. CASE d \in InEdit
    <3>1. edit[d].version \in Nat /\ edit[d].version <= saves
      BY PromptFacts DEF EditRows, PromptInv, Sound
    <3>2. edit'[d].version <= saves'
      <4>1. edit'[d].version = edit[d].version
        BY <1>5, <2>1
      <4>2. QED
        BY <1>1, <1>2, <3>1, <4>1
    <3>3. QED
      BY <1>1, <1>5, <2>1, <3>2 DEF PromptInv, Sound, Of, Rows
  <2>2. CASE d \notin InEdit
    BY <1>1, <1>2, <2>2, NoEditFacts DEF Sound
  <2>3. QED
    BY <2>1, <2>2
<1>10. Lonely'
  BY <1>1, <1>5, NoEditFacts DEF Lonely, InEdit
<1>11. QED
  BY <1>7, <1>8, <1>9, <1>10 DEF PromptInv

LEMMA WritePresetStep ==
  ASSUME PromptInv, NEW e \in Editors, WritePreset(e)
  PROVE  PromptInv'
<1> DEFINE p == edit[e].name
           old == preset[p].items
           kept == [a \in Agents |-> IF old[a] \in edit[e].rows THEN 0 ELSE old[a]]
           put == [a \in Agents |-> IF edit[e].items[a] # 0 THEN edit[e].items[a] ELSE kept[a]]
           row == [there |-> TRUE, items |-> put]
<1>1. /\ edit[e].at = "put" /\ edit' = [edit EXCEPT ![e] = NoEdit] /\ UNCHANGED <<prompts, saves>>
      /\ preset' \in {preset, [preset EXCEPT ![p] = row]}
  BY DEF WritePreset, Closed
<1>2. p \in Presets /\ preset \in [Presets -> PresetRows] /\ edit[e] \in EditRows
  BY <1>1, PromptFacts DEF PromptInv, PromptShape, Sound
<1>3. old \in [Agents -> Nat] /\ \A a \in Agents : old[a] <= Len(prompts)
  BY <1>2 DEF PresetRows, PromptInv, Pinned
<1>4. edit[e].items \in [Agents -> Nat] /\ \A a \in Agents : edit[e].items[a] <= Len(prompts)
  BY <1>2 DEF EditRows, PromptInv, Sound
<1>5. put \in [Agents -> Nat] /\ \A a \in Agents : put[a] <= Len(prompts)
  BY <1>3, <1>4, PromptFacts
<1> HIDE DEF put, p
<1>6. row \in PresetRows /\ row.items = put
  BY <1>5 DEF PresetRows
<1> HIDE DEF row
<1>7. preset' \in [Presets -> PresetRows]
  BY <1>1, <1>2, <1>6
<1>8. \A q \in Presets, a \in Agents : preset'[q].items[a] <= Len(prompts)
  <2>1. CASE preset' = preset
    BY <2>1 DEF PromptInv, Pinned
  <2>2. CASE preset' = [preset EXCEPT ![p] = row]
    BY <1>2, <1>5, <1>6, <2>2 DEF PromptInv, Pinned
  <2>3. QED
    BY <1>1, <2>1, <2>2
<1>9. /\ edit' \in [Editors -> EditRows] /\ edit'[e] = NoEdit
      /\ \A d \in Editors : d # e => edit'[d] = edit[d]
  BY <1>1, NoEditFacts DEF PromptInv, PromptShape
<1>10. /\ InEdit' \subseteq InEdit /\ e \in InEdit /\ e \notin InEdit'
       /\ \A d \in Editors \ InEdit' : d # e => edit[d].at = "none"
  BY <1>1, <1>9, NoEditFacts DEF InEdit
<1>11. Lonely' /\ \A d \in InEdit' : ~edit'[d].alone
  BY <1>9, <1>10 DEF PromptInv, Lonely, InEdit
<1>12. \A d \in Editors : Sound(edit[d])'
  BY <1>1, <1>9, NoEditFacts, PromptFacts DEF PromptInv, Sound, Of, Rows
<1>13. PromptShape' /\ Pinned' /\ Numbered' /\ Served'
  BY <1>1, <1>7, <1>8, <1>9 DEF PromptInv, PromptShape, Pinned, Numbered, Served, Of, Alive, Rows
<1>14. QED
  BY <1>11, <1>12, <1>13 DEF PromptInv

LEMMA PromptsStep == PromptInv /\ [PromptNext]_promptVars => PromptInv'
<1>1. SUFFICES ASSUME PromptInv, [PromptNext]_promptVars
               PROVE  PromptInv'
  OBVIOUS
<1>2. CASE UNCHANGED promptVars
  BY <1>1, <1>2 DEF promptVars, PromptInv, PromptShape, Pinned, Numbered, Served, Sound, Lonely, Fresh,
    InEdit, Of, Alive, Rows
<1>3. QED
  BY <1>1, <1>2, BeginSteps, GoOnSteps, SaveStep, WritePresetStep, DeletePresetStep DEF PromptNext

\* What the invariant says of the prompts and the presets.
LEMMA PromptInvTyped == PromptInv => PromptTypeOK
<1> SUFFICES ASSUME PromptInv
             PROVE  PromptTypeOK
  OBVIOUS
<1>1. preset \in [Presets -> [there : BOOLEAN, items : [Agents -> 0..Len(prompts)]]]
  <2>1. ASSUME NEW p \in Presets
        PROVE  preset[p] \in [there : BOOLEAN, items : [Agents -> 0..Len(prompts)]]
    <3>1. preset[p] \in PresetRows /\ \A a \in Agents : preset[p].items[a] <= Len(prompts)
      BY DEF PromptInv, PromptShape, Pinned
    <3>2. preset[p].items \in [Agents -> 0..Len(prompts)]
      BY <3>1, PromptFacts DEF PresetRows
    <3>3. QED
      BY <3>1, <3>2 DEF PresetRows
  <2>2. QED
    BY <2>1 DEF PromptInv, PromptShape
<1>2. ASSUME NEW e \in Editors
      PROVE  /\ edit[e].at \in EditAt
             /\ edit[e].rows \subseteq Rows /\ edit[e].source \in 0..Len(prompts)
  BY PromptFacts DEF EditRows, PromptInv, Sound
<1>3. QED
  BY <1>1, <1>2 DEF PromptInv, PromptShape, PromptTypeOK, PromptRows, EditAt

LEMMA PromptInvServed == PromptInv => AgentServed
<1> SUFFICES ASSUME PromptInv
             PROVE  AgentServed
  OBVIOUS
<1>1. SUFFICES ASSUME NEW p \in Presets \cup {"none"}, NEW a \in Agents,
                      Of(a) # {} \/ (a = FallsBack /\ Of(FallBackTo) # {})
               PROVE  Resolved(p, a) # {}
  BY DEF AgentServed
<1>2. Of(a) # {} => Alive(a) # {}
  BY DEF PromptInv, Served
<1>3. Of(FallBackTo) # {} => Alive(FallBackTo) # {}
  <2>1. FallBackTo \in Agents
    BY PromptConstants
  <2>2. QED
    BY <2>1 DEF PromptInv, Served
<1>4. QED
  BY <1>1, <1>2, <1>3 DEF Resolved

LEMMA PromptInvariant == PromptSpec => []PromptInv
BY PromptsBegin, PromptsStep, PTL DEF PromptSpec

\* Every state of the prompts, the presets and the transactions is well typed
\* (prompts.py:62-102, prompt_presets.py:49-109).
THEOREM PromptsTyped == PromptSpec => []PromptTypeOK
BY PromptInvTyped, PromptInvariant, PTL

\* A call of the pipeline finds a prompt as soon as its agent, or the one it falls back to,
\* has any, however many saves, restores and presets overlap (prompts.py:83-102,
\* prompt_presets.py:12-42).
THEOREM AgentsServed == PromptSpec => []AgentServed
BY PromptInvServed, PromptInvariant, PTL

\* Which steps end a transaction.
LEMMA Ends ==
  ASSUME PromptInv, PromptNext, NEW e \in Editors, edit[e].at # "none", edit'[e].at = "none"
  PROVE  (SavePrompt(e) /\ edit[e].at = "insert") \/ (WritePreset(e) /\ edit[e].at = "put")
<1>1. edit \in [Editors -> EditRows] /\ e \in InEdit
  BY DEF PromptInv, PromptShape, InEdit
<1>2. ASSUME NEW d \in Editors, NEW t, Open(d, t)
      PROVE  FALSE
  <2>1. edit'[e] = [edit[e] EXCEPT !.alone = FALSE]
    BY <1>1, <1>2 DEF Open
  <2>2. edit'[e].at = edit[e].at
    BY <1>1, <2>1 DEF EditRows
  <2>3. QED
    BY <2>2
<1>3. ASSUME NEW d \in Editors, CreatePrompt(d) \/ RestorePrompt(d) \/ PutPreset(d)
      PROVE  FALSE
  BY <1>2, <1>3 DEF CreatePrompt, RestorePrompt, PutPreset
<1>4. ASSUME NEW d \in Editors, Deactivate(d) \/ HoldRows(d) \/ ClearItems(d)
      PROVE  FALSE
  BY <1>1, <1>4 DEF Deactivate, HoldRows, ClearItems, EditRows
<1>5. ASSUME NEW d \in Editors, SavePrompt(d) \/ WritePreset(d)
      PROVE  d = e
  BY <1>1, <1>5 DEF SavePrompt, WritePreset, Closed
<1>6. ASSUME NEW p \in Presets, DeletePreset(p)
      PROVE  FALSE
  <2>1. edit'[e] = [edit[e] EXCEPT !.alone = FALSE]
    BY <1>1, <1>6 DEF DeletePreset
  <2>2. edit'[e].at = edit[e].at
    BY <1>1, <2>1 DEF EditRows
  <2>3. QED
    BY <2>2
<1>7. QED
  BY <1>3, <1>4, <1>5, <1>6, ZenonT(30) DEF PromptNext, SavePrompt, WritePreset

LEMMA LonePromptSaved ==
  ASSUME PromptInv, NEW e \in Editors, SavePrompt(e), edit[e].alone
  PROVE  LonePrompt(e)
<1> DEFINE n == Len(prompts) + 1
<1>1. SUFFICES ASSUME NEW a, a = edit[e].agent
               PROVE  \E i \in Alive(a)' :
                        /\ Alive(a)' = {i}
                        /\ \A j \in Of(a)' \ {i} : prompts'[j].version < prompts'[i].version
  BY DEF LonePrompt
<1>2. edit[e].at = "insert" /\ Fresh(edit[e])
  BY DEF PromptInv, Lonely, InEdit, SavePrompt
<1>3. edit[e].rows = Of(a) /\ \A i \in Of(a) : prompts[i].version < edit[e].version
  BY <1>1, <1>2 DEF Fresh
<1>4. /\ Rows' = Rows \cup {n}
      /\ \A i \in Rows : prompts'[i].agent = prompts[i].agent
      /\ \A i \in Rows : prompts'[i].version = prompts[i].version
      /\ \A i \in Rows : prompts'[i].active <=> (prompts[i].active /\ i \notin edit[e].rows)
      /\ prompts'[n].agent = a /\ prompts'[n].version = edit[e].version /\ prompts'[n].active
  BY <1>1, SavedRows
<1> HIDE DEF n
<1>5. Of(a)' = Of(a) \cup {n}
  BY <1>4 DEF Of
<1>6. Alive(a)' = {n}
  BY <1>3, <1>4, <1>5 DEF Alive, Of
<1>7. \A j \in Of(a)' \ {n} : prompts'[j].version < prompts'[n].version
  BY <1>3, <1>4, <1>5 DEF Of
<1>8. QED
  BY <1>6, <1>7

LEMMA LonePresetWritten ==
  ASSUME PromptInv, NEW e \in Editors, WritePreset(e), edit[e].alone
  PROVE  LonePreset(e)
<1> DEFINE p == edit[e].name
           items == edit[e].items
           kept == [a \in Agents |-> IF preset[p].items[a] \in edit[e].rows THEN 0 ELSE preset[p].items[a]]
           put == [a \in Agents |-> IF items[a] # 0 THEN items[a] ELSE kept[a]]
           row == [there |-> TRUE, items |-> put]
<1>1. edit[e].at = "put" /\ Fresh(edit[e]) /\ edit[e] \in EditRows /\ p \in Presets
  BY PromptFacts DEF PromptInv, Lonely, InEdit, WritePreset, Sound
<1>2. preset \in [Presets -> PresetRows] /\ preset[p] \in PresetRows
  BY <1>1 DEF PromptInv, PromptShape
<1>3. ASSUME NEW a \in Agents
      PROVE  kept[a] = 0
  BY <1>1 DEF Fresh
<1>4. items \in [Agents -> Nat]
  BY <1>1 DEF EditRows
<1>5. put = items
  BY <1>3, <1>4
<1>6. ~(edit[e].new = preset[p].there)
  BY <1>1, <1>2 DEF Fresh, EditRows, PresetRows
<1>7. preset' = [preset EXCEPT ![p] = row]
  BY <1>3, <1>6 DEF WritePreset
<1> HIDE DEF put, p
<1>8. preset'[p].items = put
  BY <1>1, <1>2, <1>7
<1>9. QED
  BY <1>5, <1>8 DEF LonePreset, p

\* What a step does to the saves that no other overlaps.
LonesExact == \A e \in Editors : edit[e].alone => LonePrompt(e) /\ LonePreset(e)

LEMMA LoneStep == PromptInv /\ [PromptNext]_promptVars => [LonesExact]_promptVars
<1>1. SUFFICES ASSUME PromptInv, PromptNext, NEW e \in Editors, edit[e].alone
               PROVE  LonePrompt(e) /\ LonePreset(e)
  BY DEF LonesExact
<1>2. edit[e].at # "none" /\ edit'[e].at = "none" => LonePrompt(e) /\ LonePreset(e)
  <2>1. SUFFICES ASSUME edit[e].at # "none", edit'[e].at = "none"
                 PROVE  LonePrompt(e) /\ LonePreset(e)
    OBVIOUS
  <2>2. CASE SavePrompt(e) /\ edit[e].at = "insert"
    BY <1>1, <2>2, LonePromptSaved DEF LonePreset
  <2>3. CASE WritePreset(e) /\ edit[e].at = "put"
    BY <1>1, <2>3, LonePresetWritten DEF LonePrompt
  <2>4. QED
    BY <1>1, <2>1, <2>2, <2>3, Ends
<1>3. QED
  BY <1>2 DEF LonePrompt, LonePreset

\* A save that overlaps no other leaves one active prompt of its agent, the newest, or a
\* preset that pins what the request said, however many rows there are
\* (prompts.py:62-102, prompt_presets.py:49-77).
THEOREM LoneSavesExact == PromptSpec => LoneSave
BY LoneStep, PromptInvariant, PTL DEF PromptSpec, LoneSave, LonesExact
=============================================================================
