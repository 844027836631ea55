--------------------------- MODULE BlueprintRunProofs ---------------------------
(* Theorems about BlueprintRun for any blueprint, references and edits: type  *)
(* correctness, that a completed project tried the pages it read, that a page *)
(* is written twice only after an edit at the one unlucky moment, and that a   *)
(* page is written from the reference that was chosen for it.                 *)
EXTENDS BlueprintRun, TLAPS

-----------------------------------------------------------------------------
(* Type correctness.                                                         *)

Steps == {"advance", "open", "begin", "next", "write", "build", "ended", "lost"}
RunOutcomes == {"generating", "completed", "failed"}
RunRows == [by : {"worker", "desktop"}, at : Steps, status : RunOutcomes, list : Seq(PageIds),
            index : Nat \ {0}, default : RefIds \cup {NoRef}, serp : BOOLEAN,
            read : SUBSET PageIds, edited : BOOLEAN]
TaskStates == {"pending", "running", "completed", "failed"}
TaskRows == [page : PageIds, type : Types, status : TaskStates, ref : RefIds \cup {NoRef}]
Edits == [count : 0..MaxEdits, pages : SUBSET PageIds, refs : SUBSET RefIds]

\* A default that a page has, listed or not, is a reference that there is.
DefaultsThere == \A p \in PageIds : blueprint[p].default # NoRef => reference[blueprint[p].default].there

BlueprintRows ==
  /\ blueprint \in [PageIds -> PageRows] /\ reference \in [RefIds -> RefRows]
  /\ chosen \in [LegalTypes -> RefIds \cup {NoRef}]
  /\ listed \in Seq(PageIds) /\ written \in Seq(TaskRows)
  /\ siterun \in RunRows /\ edits \in Edits
  /\ \A t \in DOMAIN written : written[t].page \in ThePages
  /\ DefaultsThere

LEMMA Known == MaxEdits \in Nat /\ NoRef \notin RefIds /\ Runners \subseteq {"worker", "desktop"}
BY BlueprintConstants

LEMMA Listed ==
  ASSUME NEW s \in Seq(PageIds)
  PROVE  /\ Range(s) \subseteq PageIds
         /\ \A p : p \in Range(s) <=> \E i \in DOMAIN s : s[i] = p
         /\ \A i \in DOMAIN s : s[i] \in PageIds
BY DEF Range

\* A page taken out of a list, or put into one, leaves the others in it.
LEMMA Piece ==
  ASSUME NEW s \in Seq(PageIds), NEW m \in Nat \ {0}, NEW n \in Nat, n <= Len(s)
  PROVE  /\ SubSeq(s, m, n) \in Seq(PageIds)
         /\ \A k \in m..n : s[k] \in Range(SubSeq(s, m, n))
<1>1. Len(s) \in Nat /\ DOMAIN s = 1..Len(s) /\ m \in Int /\ n \in Int
  OBVIOUS
<1>2. \A i \in m..n : s[i] \in PageIds
  BY <1>1
<1> DEFINE r == SubSeq(s, m, n)
<1>3. /\ r \in Seq(PageIds)
      /\ Len(r) = IF m <= n THEN n - m + 1 ELSE 0
      /\ \A i \in 1..(n - m + 1) : r[i] = s[m + i - 1]
  BY <1>1, <1>2
<1> HIDE DEF r
<1>4. ASSUME NEW k \in m..n
      PROVE  s[k] \in Range(r)
  <2>1. k - m + 1 \in 1..(n - m + 1) /\ m <= n /\ m + (k - m + 1) - 1 = k
    BY <1>1
  <2>2. k - m + 1 \in DOMAIN r /\ r[k - m + 1] = s[k]
    BY <1>3, <2>1
  <2>3. QED
    BY <2>2 DEF Range
<1>5. QED
  BY <1>3, <1>4 DEF r

LEMMA Joined ==
  ASSUME NEW s \in Seq(PageIds), NEW u \in Seq(PageIds)
  PROVE  s \o u \in Seq(PageIds) /\ Range(s) \cup Range(u) \subseteq Range(s \o u)
<1> DEFINE r == s \o u
<1>1. /\ r \in Seq(PageIds) /\ Len(r) = Len(s) + Len(u)
      /\ \A i \in 1..Len(s) : r[i] = s[i]
      /\ \A i \in 1..Len(u) : r[i + Len(s)] = u[i]
  OBVIOUS
<1> HIDE DEF r
<1>2. ASSUME NEW i \in DOMAIN s
      PROVE  i \in DOMAIN r /\ r[i] = s[i]
  BY <1>1
<1>3. ASSUME NEW i \in DOMAIN u
      PROVE  i + Len(s) \in DOMAIN r /\ r[i + Len(s)] = u[i]
  BY <1>1
<1>4. Range(s) \subseteq Range(r) /\ Range(u) \subseteq Range(r)
  BY <1>2, <1>3 DEF Range
<1>5. QED
  BY <1>1, <1>4 DEF r

LEMMA TakenOut ==
  ASSUME NEW s \in Seq(PageIds), NEW i \in DOMAIN s
  PROVE  /\ RemoveAt(s, i) \in Seq(PageIds)
         /\ \A q \in Range(s) : q # s[i] => q \in Range(RemoveAt(s, i))
<1>1. i \in 1..Len(s) /\ Len(s) \in Nat /\ i - 1 \in Nat /\ i + 1 \in Nat \ {0}
      /\ i - 1 <= Len(s) /\ 1 \in Nat \ {0}
  OBVIOUS
<1> DEFINE a == SubSeq(s, 1, i - 1)
           b == SubSeq(s, i + 1, Len(s))
<1>2. a \in Seq(PageIds) /\ \A k \in 1..(i - 1) : s[k] \in Range(a)
  BY <1>1, Piece
<1>3. b \in Seq(PageIds) /\ \A k \in (i + 1)..Len(s) : s[k] \in Range(b)
  BY <1>1, Piece
<1>4. RemoveAt(s, i) = a \o b
  BY DEF RemoveAt
<1> HIDE DEF a, b
<1>5. a \o b \in Seq(PageIds) /\ Range(a) \cup Range(b) \subseteq Range(a \o b)
  BY <1>2, <1>3, Joined
<1>6. ASSUME NEW q \in Range(s), q # s[i]
      PROVE  q \in Range(a) \cup Range(b)
  <2>1. PICK k \in DOMAIN s : s[k] = q
    BY DEF Range
  <2>2. k \in 1..(i - 1) \/ k \in (i + 1)..Len(s)
    BY <1>1, <1>6, <2>1
  <2>3. QED
    BY <1>2, <1>3, <2>1, <2>2
<1>7. QED
  BY <1>4, <1>5, <1>6

LEMMA PutIn ==
  ASSUME NEW s \in Seq(PageIds), NEW i \in 1..(Len(s) + 1), NEW p \in PageIds
  PROVE  /\ InsertAt(s, i, p) \in Seq(PageIds)
         /\ Range(s) \cup {p} \subseteq Range(InsertAt(s, i, p))
<1>1. Len(s) \in Nat /\ i \in Nat \ {0} /\ DOMAIN s = 1..Len(s) /\ i - 1 \in Nat
      /\ i - 1 <= Len(s) /\ 1 \in Nat \ {0} /\ Len(s) <= Len(s)
  OBVIOUS
<1> DEFINE a == SubSeq(s, 1, i - 1)
           b == SubSeq(s, i, Len(s))
           c == <<p>>
<1>2. a \in Seq(PageIds) /\ \A k \in 1..(i - 1) : s[k] \in Range(a)
  BY <1>1, Piece
<1>3. b \in Seq(PageIds) /\ \A k \in i..Len(s) : s[k] \in Range(b)
  BY <1>1, Piece
<1>4. c \in Seq(PageIds) /\ p \in Range(c)
  <2>1. c \in Seq(PageIds) /\ 1 \in DOMAIN c /\ c[1] = p
    OBVIOUS
  <2>2. QED
    BY <2>1 DEF Range
<1>5. InsertAt(s, i, p) = (a \o c) \o b
  BY DEF InsertAt
<1> HIDE DEF a, b, c
<1>6. a \o c \in Seq(PageIds) /\ Range(a) \cup Range(c) \subseteq Range(a \o c)
  BY <1>2, <1>4, Joined
<1> DEFINE d == a \o c
<1>7. d \in Seq(PageIds)
  BY <1>6
<1> HIDE DEF d
<1>8. d \o b \in Seq(PageIds) /\ Range(d) \cup Range(b) \subseteq Range(d \o b)
  BY <1>3, <1>7, Joined
<1>9. ASSUME NEW q \in Range(s)
      PROVE  q \in Range(a) \cup Range(b)
  <2>1. PICK k \in DOMAIN s : s[k] = q
    BY DEF Range
  <2>2. k \in 1..(i - 1) \/ k \in i..Len(s)
    BY <1>1, <2>1
  <2>3. QED
    BY <1>2, <1>3, <2>1, <2>2
<1>10. QED
  BY <1>4, <1>5, <1>6, <1>8, <1>9 DEF d

LEMMA OthersKept ==
  ASSUME BlueprintRows, NEW p \in PageIds
  PROVE  Others(p) \in Seq(PageIds) /\ ThePages \ {p} \subseteq Range(Others(p))
<1>1. listed \in Seq(PageIds)
  BY DEF BlueprintRows
<1>2. CASE p \in ThePages
  <2> DEFINE i == CHOOSE k \in DOMAIN listed : listed[k] = p
  <2>1. \E k \in DOMAIN listed : listed[k] = p
    BY <1>2 DEF ThePages, Range
  <2>2. i \in DOMAIN listed /\ listed[i] = p
    BY <2>1
  <2>3. Others(p) = RemoveAt(listed, i)
    BY <1>2 DEF Others
  <2> HIDE DEF i
  <2>4. QED
    BY <1>1, <2>2, <2>3, TakenOut DEF ThePages
<1>3. CASE p \notin ThePages
  BY <1>1, <1>3 DEF Others, ThePages
<1>4. QED
  BY <1>2, <1>3

LEMMA RowsMeanTyped == BlueprintRows => BlueprintTypeOK
<1> SUFFICES ASSUME BlueprintRows
             PROVE  BlueprintTypeOK
  OBVIOUS
<1>1. siterun \in RunRows /\ edits \in Edits /\ listed \in Seq(PageIds)
  BY DEF BlueprintRows
<1>2. siterun.list \in Seq(PageIds) /\ siterun.index \in Nat \ {0} /\ siterun.read \subseteq PageIds
      /\ siterun.at \in Steps /\ siterun.status \in RunOutcomes /\ edits.count \in 0..MaxEdits
  BY <1>1 DEF RunRows, Edits
<1>3. ThePages \subseteq PageIds
  BY <1>1, Listed DEF ThePages
<1>4. QED
  BY <1>1, <1>2, <1>3
  DEF BlueprintRows, BlueprintTypeOK, DefaultsThere, TaskRows, TaskStates, Steps, RunOutcomes

LEMMA InitRows == BlueprintInit => BlueprintRows
<1> SUFFICES ASSUME BlueprintInit
             PROVE  BlueprintRows
  OBVIOUS
<1>1. PICK s \in Setups : listed = s.listed /\ blueprint = s.blueprint
                          /\ reference = s.reference /\ chosen = s.chosen
  BY DEF BlueprintInit
<1>2. listed \in Seq(PageIds) /\ blueprint \in [PageIds -> PageRows]
      /\ reference \in [RefIds -> RefRows] /\ chosen \in [LegalTypes -> RefIds \cup {NoRef}]
  BY <1>1, BlueprintConstants
<1>3. written = <<>> /\ written \in Seq(TaskRows) /\ DOMAIN written = {}
  BY DEF BlueprintInit
<1>4. siterun \in RunRows
  <2>1. PICK by \in Runners :
          siterun = [by |-> by, at |-> IF by = "worker" THEN "advance" ELSE "begin",
                     status |-> "generating", list |-> <<>>, index |-> 1, default |-> NoRef,
                     serp |-> FALSE, read |-> {}, edited |-> FALSE]
    BY DEF BlueprintInit
  <2>2. by \in {"worker", "desktop"} /\ <<>> \in Seq(PageIds) /\ 1 \in Nat \ {0}
        /\ NoRef \in RefIds \cup {NoRef} /\ {} \in SUBSET PageIds /\ FALSE \in BOOLEAN
        /\ (IF by = "worker" THEN "advance" ELSE "begin") \in Steps /\ "generating" \in RunOutcomes
    BY Known DEF Steps, RunOutcomes
  <2>3. QED
    BY <2>1, <2>2 DEF RunRows
<1>5. edits \in Edits
  <2>1. 0 \in 0..MaxEdits
    BY Known
  <2>2. QED
    BY <2>1 DEF BlueprintInit, Edits
<1>6. DefaultsThere
  BY DEF BlueprintInit, DefaultsThere, Fitting
<1>7. QED
  BY <1>2, <1>3, <1>4, <1>5, <1>6 DEF BlueprintRows

\* What the actions need of the state.
LEMMA RowsFacts ==
  ASSUME BlueprintRows
  PROVE  /\ siterun \in RunRows /\ edits \in Edits /\ written \in Seq(TaskRows)
         /\ Len(written) \in Nat /\ DOMAIN written = 1..Len(written)
         /\ \A t \in DOMAIN written : written[t] \in TaskRows /\ written[t].page \in PageIds
              /\ written[t].type \in Types /\ written[t].status \in TaskStates
              /\ written[t].page \in ThePages /\ written[t].ref \in RefIds \cup {NoRef}
         /\ siterun.by \in {"worker", "desktop"} /\ siterun.at \in Steps
         /\ siterun.status \in RunOutcomes /\ siterun.list \in Seq(PageIds)
         /\ siterun.index \in Nat \ {0} /\ siterun.default \in RefIds \cup {NoRef}
         /\ siterun.read \in SUBSET PageIds /\ siterun.edited \in BOOLEAN /\ siterun.serp \in BOOLEAN
         /\ listed \in Seq(PageIds) /\ ThePages \subseteq PageIds
         /\ \A i \in DOMAIN listed : listed[i] \in ThePages
         /\ \A p \in PageIds : blueprint[p].type \in Types /\ blueprint[p].default \in RefIds \cup {NoRef}
                               /\ blueprint[p].serp \in BOOLEAN
<1>1. listed \in Seq(PageIds) /\ siterun \in RunRows /\ edits \in Edits /\ written \in Seq(TaskRows)
      /\ blueprint \in [PageIds -> PageRows]
  BY DEF BlueprintRows
<1>2. ThePages \subseteq PageIds /\ \A i \in DOMAIN listed : listed[i] \in ThePages
  BY <1>1, Listed DEF ThePages
<1>3. \A t \in DOMAIN written : written[t] \in TaskRows
  BY <1>1
<1>4. Len(written) \in Nat /\ DOMAIN written = 1..Len(written)
  BY <1>1
<1>5. \A t \in DOMAIN written : written[t].page \in ThePages
  BY DEF BlueprintRows
<1>6. siterun.by \in {"worker", "desktop"} /\ siterun.at \in Steps
      /\ siterun.status \in RunOutcomes /\ siterun.list \in Seq(PageIds)
      /\ siterun.index \in Nat \ {0} /\ siterun.default \in RefIds \cup {NoRef}
      /\ siterun.read \in SUBSET PageIds /\ siterun.edited \in BOOLEAN /\ siterun.serp \in BOOLEAN
  BY <1>1 DEF RunRows
<1>7. \A t \in DOMAIN written : written[t].page \in PageIds /\ written[t].type \in Types
        /\ written[t].status \in TaskStates /\ written[t].ref \in RefIds \cup {NoRef}
  BY <1>3 DEF TaskRows
<1>8. \A p \in PageIds : blueprint[p].type \in Types /\ blueprint[p].default \in RefIds \cup {NoRef}
                           /\ blueprint[p].serp \in BOOLEAN
  BY <1>1 DEF PageRows
<1>9. QED
  BY <1>1, <1>2, <1>3, <1>4, <1>5, <1>6, <1>7, <1>8

\* The run once a page is opened.
LEMMA PageOpened ==
  ASSUME BlueprintRows, NEW p \in ThePages, siterun' = Opened(p)
  PROVE  /\ siterun' \in RunRows /\ siterun'.by = siterun.by /\ siterun'.at = "write"
         /\ siterun'.status = siterun.status /\ siterun'.list = siterun.list
         /\ siterun'.index = siterun.index /\ siterun'.read = siterun.read
         /\ siterun'.default = blueprint[p].default /\ siterun'.serp = blueprint[p].serp
<1> DEFINE default == blueprint[p].default
           serp == blueprint[p].serp
<1>1. siterun' = [siterun EXCEPT !.at = "write", !.default = default, !.serp = serp]
  BY DEF Opened
<1>2. default \in RefIds \cup {NoRef} /\ serp \in BOOLEAN
  BY RowsFacts
<1> HIDE DEF default, serp
<1>3. /\ siterun' \in RunRows /\ siterun'.by = siterun.by /\ siterun'.at = "write"
      /\ siterun'.status = siterun.status /\ siterun'.list = siterun.list
      /\ siterun'.index = siterun.index /\ siterun'.read = siterun.read
      /\ siterun'.default = default /\ siterun'.serp = serp
  BY <1>1, <1>2, RowsFacts DEF RunRows, Steps
<1>4. QED
  BY <1>3 DEF default, serp

\* The task of a page that is opened is one there was, or a new one.
LEMMA TaskOpened ==
  ASSUME BlueprintRows, NEW p \in ThePages, TaskFor(p)
  PROVE  \/ \E t \in Reused(p) : written' = [written EXCEPT ![t].status = "running"]
         \/ written' = Append(written, [page |-> p, type |-> blueprint[p].type,
                                        status |-> "running", ref |-> NoRef])
BY DEF TaskFor

LEMMA TasksTyped ==
  ASSUME BlueprintRows, NEW p \in ThePages, TaskFor(p)
  PROVE  written' \in Seq(TaskRows) /\ \A t \in DOMAIN written' : written'[t].page \in ThePages
<1>1. p \in PageIds
  BY RowsFacts
<1>2. CASE \E t \in Reused(p) : written' = [written EXCEPT ![t].status = "running"]
  <2>1. PICK t \in Reused(p) : written' = [written EXCEPT ![t].status = "running"]
    BY <1>2
  <2>2. t \in DOMAIN written
    BY DEF Reused
  <2> DEFINE w == [written[t] EXCEPT !.status = "running"]
  <2>3. w \in TaskRows /\ w.page = written[t].page
    BY <2>2, RowsFacts DEF TaskRows, TaskStates
  <2>4. written' = [written EXCEPT ![t] = w]
    BY <2>1, <2>2, RowsFacts
  <2> HIDE DEF w
  <2>5. QED
    BY <2>2, <2>3, <2>4, RowsFacts
<1>3. CASE written' = Append(written, [page |-> p, type |-> blueprint[p].type,
                                       status |-> "running", ref |-> NoRef])
  <2> DEFINE w == [page |-> p, type |-> blueprint[p].type, status |-> "running", ref |-> NoRef]
  <2>1. w \in TaskRows /\ w.page = p
    BY <1>1, RowsFacts DEF TaskRows, TaskStates
  <2>2. written' = Append(written, w)
    BY <1>3
  <2> HIDE DEF w
  <2>3. QED
    BY <2>1, <2>2, RowsFacts
<1>4. QED
  BY <1>2, <1>3, TaskOpened

\* Steps that leave the blueprint, the references and the tasks alone.
LEMMA OnlyTheRun ==
  ASSUME BlueprintRows, siterun' \in RunRows,
         UNCHANGED <<blueprint, listed, reference, chosen, written, edits>>
  PROVE  BlueprintRows'
BY DEF BlueprintRows, DefaultsThere, ThePages

LEMMA TheRunAndTasks ==
  ASSUME BlueprintRows, siterun' \in RunRows, written' \in Seq(TaskRows),
         \A t \in DOMAIN written' : written'[t].page \in ThePages,
         UNCHANGED <<blueprint, listed, reference, chosen, edits>>
  PROVE  BlueprintRows'
BY DEF BlueprintRows, DefaultsThere, ThePages

LEMMA TouchedTyped ==
  ASSUME BlueprintRows, NEW pages \in SUBSET PageIds, NEW refs \in SUBSET RefIds,
         Touched(pages, refs)
  PROVE  edits' \in Edits
<1>1. edits.count \in Nat /\ edits.count + 1 \in 0..MaxEdits
      /\ edits.pages \subseteq PageIds /\ edits.refs \subseteq RefIds
  BY Known, RowsFacts DEF Edits, Touched
<1>2. QED
  BY <1>1 DEF Touched, Edits

LEMMA EditTyped ==
  ASSUME BlueprintRows, PageEdited
  PROVE  siterun' \in RunRows
<1> DEFINE b == siterun.edited \/ siterun.at = "open"
<1>1. b \in BOOLEAN /\ siterun' = [siterun EXCEPT !.edited = b]
  BY DEF PageEdited
<1> HIDE DEF b
<1>2. QED
  BY <1>1, RowsFacts DEF RunRows

\* Each action keeps the types.
LEMMA ChooseNextTyped == BlueprintRows /\ ChooseNext => BlueprintRows'
<1> SUFFICES ASSUME BlueprintRows, ChooseNext
             PROVE  BlueprintRows'
  OBVIOUS
<1> DEFINE left == {i \in DOMAIN listed : listed[i] \notin DoneHere}
           read == [siterun EXCEPT !.read = ThePages, !.edited = FALSE]
<1>1. \E at \in Steps, i \in Nat \ {0} : siterun' = [read EXCEPT !.at = at, !.index = i]
  <2>1. left \subseteq Nat \ {0} /\ 1 \in Nat \ {0} /\ "build" \in Steps /\ "open" \in Steps
    BY RowsFacts DEF Steps
  <2>2. \/ siterun' = [read EXCEPT !.at = "build", !.index = 1]
        \/ \E i \in left : siterun' = [read EXCEPT !.at = "open", !.index = i]
    BY DEF ChooseNext
  <2> HIDE DEF left, read
  <2>3. QED
    BY <2>1, <2>2
<1>2. PICK at \in Steps, i \in Nat \ {0} : siterun' = [read EXCEPT !.at = at, !.index = i]
  BY <1>1
<1>3. read \in RunRows
  BY RowsFacts DEF RunRows
<1> HIDE DEF read
<1>4. siterun' \in RunRows
  BY <1>2, <1>3 DEF RunRows
<1>5. QED
  BY <1>4, OnlyTheRun DEF ChooseNext

LEMMA OpenChosenTyped == BlueprintRows /\ OpenChosen => BlueprintRows'
<1> SUFFICES ASSUME BlueprintRows, OpenChosen
             PROVE  BlueprintRows'
  OBVIOUS
<1>1. CASE siterun.index > Len(listed)
  <2>1. siterun' = [siterun EXCEPT !.at = "lost"] /\ UNCHANGED written
    BY <1>1 DEF OpenChosen
  <2>2. siterun' \in RunRows
    BY <2>1, RowsFacts DEF RunRows, Steps
  <2>3. QED
    BY <2>1, <2>2, OnlyTheRun DEF OpenChosen
<1>2. CASE ~(siterun.index > Len(listed))
  <2> DEFINE p == listed[siterun.index]
  <2>1. p \in ThePages /\ p \in PageIds
    BY <1>2, RowsFacts
  <2>2. TaskFor(p) /\ siterun' = Opened(p)
    BY <1>2 DEF OpenChosen
  <2> HIDE DEF p
  <2>3. siterun' \in RunRows
    BY <2>1, <2>2, PageOpened
  <2>4. QED
    BY <2>1, <2>2, <2>3, TasksTyped, TheRunAndTasks DEF OpenChosen
<1>3. QED
  BY <1>1, <1>2

LEMMA BeginRunTyped == BlueprintRows /\ BeginRun => BlueprintRows'
<1> SUFFICES ASSUME BlueprintRows, BeginRun
             PROVE  BlueprintRows'
  OBVIOUS
<1>1. siterun' = [siterun EXCEPT !.at = "next", !.list = listed, !.index = 1, !.read = ThePages]
  BY DEF BeginRun
<1>2. siterun \in RunRows /\ listed \in Seq(PageIds) /\ ThePages \in SUBSET PageIds
      /\ 1 \in Nat \ {0} /\ "next" \in Steps
  BY RowsFacts DEF Steps
<1>3. siterun' \in RunRows
  BY <1>1, <1>2 DEF RunRows
<1>4. QED
  BY <1>3, OnlyTheRun DEF BeginRun

LEMMA StepOnTyped == BlueprintRows /\ StepOn => BlueprintRows'
<1> SUFFICES ASSUME BlueprintRows, StepOn
             PROVE  BlueprintRows'
  OBVIOUS
<1> DEFINE p == siterun.list[siterun.index]
<1>1. CASE Completed(p)
  <2>1. siterun' = [siterun EXCEPT !.index = @ + 1] /\ UNCHANGED written
    BY <1>1 DEF StepOn
  <2>2. siterun.index + 1 \in Nat \ {0}
    BY RowsFacts
  <2>3. siterun' \in RunRows
    BY <2>1, <2>2, RowsFacts DEF RunRows
  <2>4. QED
    BY <2>1, <2>3, OnlyTheRun DEF StepOn
<1>2. CASE ~Completed(p) /\ p \notin ThePages
  <2>1. siterun' = [siterun EXCEPT !.at = "ended", !.status = "failed"] /\ UNCHANGED written
    BY <1>2 DEF StepOn
  <2>2. siterun' \in RunRows
    BY <2>1, RowsFacts DEF RunRows, Steps, RunOutcomes
  <2>3. QED
    BY <2>1, <2>2, OnlyTheRun DEF StepOn
<1>3. CASE ~Completed(p) /\ p \in ThePages
  <2>1. TaskFor(p) /\ siterun' = Opened(p)
    BY <1>3 DEF StepOn
  <2>2. p \in ThePages
    BY <1>3
  <2> HIDE DEF p
  <2>3. siterun' \in RunRows
    BY <2>1, <2>2, PageOpened
  <2>4. QED
    BY <2>1, <2>2, <2>3, TasksTyped, TheRunAndTasks DEF StepOn
<1>4. QED
  BY <1>1, <1>2, <1>3

LEMMA ListDoneTyped == BlueprintRows /\ ListDone => BlueprintRows'
<1> SUFFICES ASSUME BlueprintRows, ListDone
             PROVE  BlueprintRows'
  OBVIOUS
<1>1. siterun' = [siterun EXCEPT !.at = "build"]
  BY DEF ListDone
<1>2. siterun' \in RunRows
  BY <1>1, RowsFacts DEF RunRows, Steps
<1>3. QED
  BY <1>2, OnlyTheRun DEF ListDone

LEMMA BuildSiteTyped == BlueprintRows /\ BuildSite => BlueprintRows'
<1> SUFFICES ASSUME BlueprintRows, BuildSite
             PROVE  BlueprintRows'
  OBVIOUS
<1> DEFINE status == IF \E p \in ThePages : Completed(p) THEN "completed" ELSE "failed"
<1>1. siterun' = [siterun EXCEPT !.at = "ended", !.list = <<>>, !.index = 1, !.status = status]
  BY DEF BuildSite
<1>2. status \in RunOutcomes /\ <<>> \in Seq(PageIds) /\ 1 \in Nat \ {0} /\ "ended" \in Steps
      /\ siterun \in RunRows
  BY RowsFacts DEF RunOutcomes, Steps
<1> HIDE DEF status
<1>3. siterun' \in RunRows
  BY <1>1, <1>2 DEF RunRows
<1>4. QED
  BY <1>3, OnlyTheRun DEF BuildSite

\* One task changes.
LEMMA TaskChanges ==
  ASSUME BlueprintRows, NEW t \in DOMAIN written, NEW w \in TaskRows,
         written' = [written EXCEPT ![t] = w]
  PROVE  /\ written' \in Seq(TaskRows) /\ DOMAIN written' = DOMAIN written /\ written'[t] = w
         /\ \A u \in DOMAIN written : u # t => written'[u] = written[u]
<1>1. written \in Seq(TaskRows)
  BY RowsFacts
<1>2. written' \in Seq(TaskRows)
  BY <1>1
<1>3. QED
  BY <1>1, <1>2

\* The end of a page: one running task is completed, with the reference that was injected,
\* or fails with the one it had.
LEMMA PageWritten ==
  ASSUME BlueprintRows, WritePage
  PROVE  \E t \in DOMAIN written, status \in {"completed", "failed"} :
           /\ written[t].status = "running"
           /\ written' \in Seq(TaskRows) /\ DOMAIN written' = DOMAIN written
           /\ \A u \in DOMAIN written : u # t => written'[u] = written[u]
           /\ written'[t].page = written[t].page /\ written'[t].type = written[t].type
           /\ written'[t].status = status
           /\ status = "completed" => written'[t].ref = Injected(t)
<1>1. PICK t \in DOMAIN written, status \in {"completed", "failed"} :
         /\ written[t].status = "running"
         /\ written' = [written EXCEPT ![t].status = status,
                                       ![t].ref = IF status = "completed" THEN Injected(t) ELSE @]
  BY DEF WritePage
<1> DEFINE ref == IF status = "completed" THEN Injected(t) ELSE written[t].ref
<1>2. Injected(t) \in RefIds \cup {NoRef}
  BY DEF Injected, Fitting
<1>3. ref \in RefIds \cup {NoRef} /\ status \in TaskStates
  BY <1>2, RowsFacts DEF TaskStates
<1> DEFINE w == [written[t] EXCEPT !.status = status, !.ref = ref]
<1>4. w \in TaskRows /\ w.page = written[t].page /\ w.type = written[t].type
      /\ w.status = status /\ (status = "completed" => w.ref = Injected(t))
  BY <1>3, RowsFacts DEF TaskRows
<1>5. written' = [written EXCEPT ![t] = w]
  BY <1>1, RowsFacts
<1> HIDE DEF w, ref
<1>6. /\ written' \in Seq(TaskRows) /\ DOMAIN written' = DOMAIN written /\ written'[t] = w
      /\ \A u \in DOMAIN written : u # t => written'[u] = written[u]
  BY <1>4, <1>5, TaskChanges
<1>7. QED
  BY <1>1, <1>4, <1>6

LEMMA WritePageTyped == BlueprintRows /\ WritePage => BlueprintRows'
<1> SUFFICES ASSUME BlueprintRows, WritePage
             PROVE  BlueprintRows'
  OBVIOUS
<1> DEFINE at == IF siterun.by = "worker" THEN "advance" ELSE "next"
           index == IF siterun.by = "worker" THEN 1 ELSE siterun.index + 1
<1>1. siterun' = [siterun EXCEPT !.at = at, !.index = index, !.default = NoRef, !.serp = FALSE]
  BY RowsFacts DEF WritePage
<1>2. at \in Steps /\ index \in Nat \ {0} /\ NoRef \in RefIds \cup {NoRef} /\ siterun \in RunRows
  BY RowsFacts DEF Steps
<1> HIDE DEF at, index
<1>3. siterun' \in RunRows
  BY <1>1, <1>2 DEF RunRows
<1>4. PICK t \in DOMAIN written :
         /\ written' \in Seq(TaskRows) /\ DOMAIN written' = DOMAIN written
         /\ \A u \in DOMAIN written : u # t => written'[u] = written[u]
         /\ written'[t].page = written[t].page
  BY PageWritten
<1>5. \A u \in DOMAIN written' : written'[u].page \in ThePages
  BY <1>4, RowsFacts
<1>6. QED
  BY <1>3, <1>4, <1>5, TheRunAndTasks DEF WritePage

\* A retry makes the failed tasks pending.
LEMMA TasksRetried ==
  ASSUME BlueprintRows, RetryRun
  PROVE  /\ written' \in Seq(TaskRows) /\ DOMAIN written' = DOMAIN written
         /\ \A t \in DOMAIN written :
              /\ written'[t].page = written[t].page /\ written'[t].type = written[t].type
              /\ written'[t].status \in {written[t].status, "pending"}
<1> DEFINE W(t) == IF written[t].status = "failed"
                   THEN [written[t] EXCEPT !.status = "pending"] ELSE written[t]
<1>1. written' = [t \in DOMAIN written |-> W(t)]
  BY DEF RetryRun
<1>2. ASSUME NEW t \in DOMAIN written
      PROVE  /\ W(t) \in TaskRows /\ W(t).page = written[t].page /\ W(t).type = written[t].type
             /\ W(t).status \in {written[t].status, "pending"}
  BY RowsFacts DEF TaskRows, TaskStates
<1> HIDE DEF W
<1>3. Len(written) \in Nat /\ DOMAIN written = 1..Len(written)
  BY RowsFacts
<1>4. written' \in [1..Len(written) -> TaskRows] /\ DOMAIN written' = DOMAIN written
  BY <1>1, <1>2, <1>3
<1>5. written' \in Seq(TaskRows)
  BY <1>3, <1>4
<1>6. QED
  BY <1>1, <1>2, <1>4, <1>5

LEMMA RetryRunTyped == BlueprintRows /\ RetryRun => BlueprintRows'
<1> SUFFICES ASSUME BlueprintRows, RetryRun
             PROVE  BlueprintRows'
  OBVIOUS
<1> DEFINE at == IF siterun.by = "worker" THEN "advance" ELSE "begin"
<1>1. siterun' = [siterun EXCEPT !.at = at, !.status = "generating"]
  BY DEF RetryRun
<1>2. at \in Steps /\ "generating" \in RunOutcomes /\ siterun \in RunRows
  BY RowsFacts DEF Steps, RunOutcomes
<1> HIDE DEF at
<1>3. siterun' \in RunRows
  BY <1>1, <1>2 DEF RunRows
<1>4. edits' \in Edits
  BY TouchedTyped DEF RetryRun
<1>5. \A t \in DOMAIN written' : written'[t].page \in ThePages
  BY TasksRetried, RowsFacts
<1>6. QED
  BY <1>3, <1>4, <1>5, TasksRetried DEF RetryRun, BlueprintRows, DefaultsThere, ThePages

LEMMA PagePut ==
  ASSUME NEW p \in PageIds, PutPage(p)
  PROVE  \E type \in Types, default \in {NoRef} \cup RefIds, serp \in BOOLEAN :
           /\ default # NoRef => type \in LegalTypes /\ default \in Fitting(type)
           /\ blueprint' = [blueprint EXCEPT ![p] = [type |-> type, default |-> default, serp |-> serp]]
<1>1. PICK type \in Types, serp \in BOOLEAN :
        \E default \in {NoRef} \cup (IF type \in LegalTypes THEN Fitting(type) ELSE {}) :
           blueprint' = [blueprint EXCEPT ![p] = [type |-> type, default |-> default, serp |-> serp]]
  BY DEF PutPage
<1>2. PICK default \in {NoRef} \cup (IF type \in LegalTypes THEN Fitting(type) ELSE {}) :
        blueprint' = [blueprint EXCEPT ![p] = [type |-> type, default |-> default, serp |-> serp]]
  BY <1>1
<1>3. default \in {NoRef} \cup RefIds
      /\ (default # NoRef => type \in LegalTypes /\ default \in Fitting(type))
  BY <1>2 DEF Fitting
<1>4. QED
  BY <1>1, <1>2, <1>3

LEMMA PutPageTyped == \A p \in PageIds : BlueprintRows /\ PutPage(p) => BlueprintRows'
<1> SUFFICES ASSUME BlueprintRows, NEW p \in PageIds, PutPage(p)
             PROVE  BlueprintRows'
  OBVIOUS
<1>1. PICK i \in 1..(Len(Others(p)) + 1) : listed' = InsertAt(Others(p), i, p)
  BY DEF PutPage
<1>2. listed' \in Seq(PageIds) /\ ThePages \subseteq ThePages'
  <2> DEFINE s == Others(p)
  <2>1. s \in Seq(PageIds) /\ ThePages \ {p} \subseteq Range(s)
    BY OthersKept
  <2>2. i \in 1..(Len(s) + 1) /\ listed' = InsertAt(s, i, p)
    BY <1>1
  <2> HIDE DEF s
  <2>3. listed' \in Seq(PageIds) /\ Range(s) \cup {p} \subseteq Range(listed')
    BY <2>1, <2>2, PutIn
  <2>4. QED
    BY <2>1, <2>3 DEF ThePages
<1>3. PICK type \in Types, default \in {NoRef} \cup RefIds, serp \in BOOLEAN :
        /\ default # NoRef => type \in LegalTypes /\ default \in Fitting(type)
        /\ blueprint' = [blueprint EXCEPT ![p] = [type |-> type, default |-> default, serp |-> serp]]
  BY PagePut
<1>4. default \in RefIds \cup {NoRef} /\ (default # NoRef => reference[default].there)
  BY <1>3 DEF Fitting
<1>5. [type |-> type, default |-> default, serp |-> serp] \in PageRows
  BY <1>3, <1>4 DEF PageRows
<1>6. blueprint' \in [PageIds -> PageRows] /\ DefaultsThere'
  BY <1>3, <1>4, <1>5 DEF BlueprintRows, DefaultsThere, PutPage
<1>7. siterun' \in RunRows /\ edits' \in Edits
  BY EditTyped, TouchedTyped DEF PutPage
<1>8. QED
  BY <1>2, <1>6, <1>7 DEF BlueprintRows, PutPage

LEMMA DropPageTyped == \A p \in PageIds : BlueprintRows /\ DropPage(p) => BlueprintRows'
<1> SUFFICES ASSUME BlueprintRows, NEW p \in PageIds, DropPage(p)
             PROVE  BlueprintRows'
  OBVIOUS
<1>1. listed' \in Seq(PageIds) /\ ThePages \ {p} \subseteq ThePages'
  BY OthersKept DEF DropPage, ThePages
<1>2. siterun' \in RunRows /\ edits' \in Edits
  BY EditTyped, TouchedTyped DEF DropPage
<1>3. \A t \in DOMAIN written : written[t].page \in ThePages'
  BY <1>1, RowsFacts DEF DropPage
<1>4. QED
  BY <1>1, <1>2, <1>3 DEF BlueprintRows, DropPage, DefaultsThere

LEMMA PutRefTyped == \A r \in RefIds : BlueprintRows /\ PutRef(r) => BlueprintRows'
<1> SUFFICES ASSUME BlueprintRows, NEW r \in RefIds, PutRef(r)
             PROVE  BlueprintRows'
  OBVIOUS
<1>1. PICK type \in LegalTypes, active \in BOOLEAN :
        reference' = [reference EXCEPT ![r].type = type, ![r].active = active]
  BY DEF PutRef
<1>2. reference \in [RefIds -> RefRows]
  BY DEF BlueprintRows
<1>3. reference' \in [RefIds -> RefRows] /\ \A q \in RefIds : reference'[q].there = reference[q].there
  BY <1>1, <1>2 DEF RefRows
<1>4. edits' \in Edits
  BY TouchedTyped DEF PutRef
<1>5. DefaultsThere'
  BY <1>3, RowsFacts DEF BlueprintRows, DefaultsThere, PutRef
<1>6. QED
  BY <1>3, <1>4, <1>5 DEF BlueprintRows, PutRef, ThePages

\* A reference that is deleted is nobody's default any more.
LEMMA RefDropped ==
  ASSUME BlueprintRows, NEW r \in RefIds, DropRef(r)
  PROVE  /\ blueprint' \in [PageIds -> PageRows] /\ reference' \in [RefIds -> RefRows]
         /\ \A q \in RefIds \ {r} : reference'[q] = reference[q]
         /\ \A p \in PageIds :
              /\ blueprint'[p].type = blueprint[p].type /\ blueprint'[p].default # r
              /\ blueprint[p].default # r => blueprint'[p] = blueprint[p]
              /\ blueprint[p].default = r => blueprint'[p].default = NoRef
<1> DEFINE W(p) == IF blueprint[p].default = r THEN [blueprint[p] EXCEPT !.default = NoRef] ELSE blueprint[p]
<1>1. blueprint' = [p \in PageIds |-> W(p)] /\ reference' = [reference EXCEPT ![r].there = FALSE]
  BY DEF DropRef
<1>2. blueprint \in [PageIds -> PageRows] /\ reference \in [RefIds -> RefRows] /\ r # NoRef
  BY Known DEF BlueprintRows
<1>3. ASSUME NEW p \in PageIds
      PROVE  /\ W(p) \in PageRows /\ W(p).type = blueprint[p].type /\ W(p).default # r
             /\ blueprint[p].default # r => W(p) = blueprint[p]
             /\ blueprint[p].default = r => W(p).default = NoRef
  BY <1>2 DEF PageRows
<1> HIDE DEF W
<1>4. reference' \in [RefIds -> RefRows] /\ \A q \in RefIds \ {r} : reference'[q] = reference[q]
  BY <1>1, <1>2 DEF RefRows
<1>5. QED
  BY <1>1, <1>3, <1>4

LEMMA DropRefTyped == \A r \in RefIds : BlueprintRows /\ DropRef(r) => BlueprintRows'
<1> SUFFICES ASSUME BlueprintRows, NEW r \in RefIds, DropRef(r)
             PROVE  BlueprintRows'
  OBVIOUS
<1>1. edits' \in Edits
  <2>1. {p \in PageIds : blueprint[p].default = r} \in SUBSET PageIds /\ {r} \in SUBSET RefIds
    OBVIOUS
  <2>2. QED
    BY <2>1, TouchedTyped DEF DropRef
<1>2. /\ reference' \in [RefIds -> RefRows] /\ \A q \in RefIds \ {r} : reference'[q] = reference[q]
      /\ blueprint' \in [PageIds -> PageRows]
  BY RefDropped
<1>3. \A p \in PageIds : blueprint[p].default # r => blueprint'[p] = blueprint[p]
  BY RefDropped
<1>4. \A p \in PageIds : blueprint[p].default = r => blueprint'[p].default = NoRef
  BY RefDropped
<1>5. DefaultsThere'
  <2> SUFFICES ASSUME NEW p \in PageIds, blueprint'[p].default # NoRef
               PROVE  reference'[blueprint'[p].default].there
    BY DEF DefaultsThere
  <2>1. blueprint[p].default # r /\ blueprint'[p] = blueprint[p]
    BY <1>3, <1>4
  <2>2. blueprint[p].default \in RefIds \ {r}
    BY <2>1, RowsFacts
  <2>3. QED
    BY <1>2, <2>1, <2>2 DEF BlueprintRows, DefaultsThere
<1>6. QED
  BY <1>1, <1>2, <1>5 DEF BlueprintRows, DropRef, ThePages

LEMMA RowsStep == BlueprintRows /\ [BlueprintNext]_blueprintVars => BlueprintRows'
<1> SUFFICES ASSUME BlueprintRows, [BlueprintNext]_blueprintVars
             PROVE  BlueprintRows'
  OBVIOUS
<1>1. CASE RunStep
  BY <1>1, ChooseNextTyped, OpenChosenTyped, BeginRunTyped, StepOnTyped, ListDoneTyped,
     WritePageTyped, BuildSiteTyped DEF RunStep
<1>2. CASE RetryRun
  BY <1>2, RetryRunTyped
<1>3. CASE \E p \in PageIds : PutPage(p) \/ DropPage(p)
  BY <1>3, PutPageTyped, DropPageTyped
<1>4. CASE \E r \in RefIds : PutRef(r) \/ DropRef(r)
  BY <1>4, PutRefTyped, DropRefTyped
<1>5. CASE UNCHANGED blueprintVars
  BY <1>5 DEF blueprintVars, BlueprintRows, DefaultsThere, ThePages
<1>6. QED
  BY <1>1, <1>2, <1>3, <1>4, <1>5 DEF BlueprintNext

\* The rows stay rows whoever edits them: a task keeps the page of its foreign key, and no page
\* names a reference that was deleted as its default (delete_blueprint_page, delete_legal_page).
THEOREM BlueprintTyped == BlueprintSpec => []BlueprintTypeOK
<1>1. BlueprintSpec => []BlueprintRows
  BY InitRows, RowsStep, PTL DEF BlueprintSpec
<1>2. QED
  BY <1>1, RowsMeanTyped, PTL

-----------------------------------------------------------------------------
(* What a run knows of its pages.                                            *)

Tried(p) == \E t \in DOMAIN written : written[t].page = p /\ written[t].status \in {"completed", "failed"}

\* Workers and the desktop have steps of their own, and only the page being written runs.
Placed ==
  /\ siterun.by = "worker" => siterun.at \notin {"begin", "next"}
  /\ siterun.by = "desktop" => siterun.at \notin {"advance", "open", "lost"}
  /\ \A t \in DOMAIN written : written[t].status = "running" => siterun.at = "write"
  /\ \A t, u \in DOMAIN written :
       written[t].status = "running" /\ written[u].status = "running" => t = u

\* The desktop has tried the pages of its list up to the number it is at: the one it writes
\* now may be in the list before.
ListTried ==
  siterun.by = "desktop" /\ siterun.at \in {"next", "write"} =>
    /\ siterun.read = Range(siterun.list)
    /\ \A i \in DOMAIN siterun.list :
         i < siterun.index => \/ Tried(siterun.list[i])
                              \/ siterun.at = "write" /\ siterun.list[i] = siterun.list[siterun.index]
    /\ siterun.at = "write" =>
         /\ siterun.index <= Len(siterun.list)
         /\ \A t \in DOMAIN written :
              written[t].status = "running" => written[t].page = siterun.list[siterun.index]

\* When the site is built, and when it was, all the pages read were tried.
ReadTried ==
  /\ siterun.at = "build" => \A p \in siterun.read : Tried(p)
  /\ siterun.status = "completed" => siterun.at = "ended" /\ \A p \in siterun.read : Tried(p)

\* The number that was chosen names a page that is to be written, unless pages were edited.
NumberHolds ==
  siterun.at = "open" /\ ~siterun.edited =>
    siterun.index <= Len(listed) /\ listed[siterun.index] \notin DoneHere

\* What the requests accepted still fits, as long as nobody edited it.
ChosenFits ==
  \A type \in LegalTypes :
    chosen[type] # NoRef /\ chosen[type] \notin edits.refs => chosen[type] \in Fitting(type)
DefaultsFit ==
  \A p \in PageIds \ edits.pages :
    blueprint[p].default # NoRef /\ blueprint[p].default \notin edits.refs
      => blueprint[p].default \in Fitting(blueprint[p].type)

\* A task, its delivery, and the session of a worker, have of a page that nobody edited what
\* it has.
PagesKnown ==
  \A t \in DOMAIN written :
    written[t].page \notin edits.pages =>
      /\ written[t].type = blueprint[written[t].page].type
      /\ siterun.by = "worker" /\ written[t].status = "running"
           => siterun.default = blueprint[written[t].page].default
      /\ written[t].status = "running" => siterun.serp = blueprint[written[t].page].serp

BlueprintInv ==
  BlueprintRows /\ Placed /\ ListTried /\ ReadTried /\ NumberHolds /\ ChosenFits /\ DefaultsFit /\ PagesKnown

LEMMA DoneTried == \A p : p \in DoneHere <=> Tried(p)
BY DEF DoneHere, Finished, Tried

\* Opening a page starts one task of it, which was not completed, and leaves the others.
LEMMA OneTaskOpened ==
  ASSUME BlueprintRows, NEW p \in ThePages, TaskFor(p)
  PROVE  \E t \in DOMAIN written' :
           /\ DOMAIN written' = DOMAIN written \cup {t}
           /\ written'[t].page = p /\ written'[t].status = "running"
           /\ \A u \in DOMAIN written : u # t => written'[u] = written[u]
           /\ t \in DOMAIN written => /\ written[t].page = p /\ written'[t].type = written[t].type
                                      /\ written[t].status \in {"pending", "failed"}
           /\ t \notin DOMAIN written => written'[t].type = blueprint[p].type
<1>1. CASE \E t \in Reused(p) : written' = [written EXCEPT ![t].status = "running"]
  <2>1. PICK t \in Reused(p) : written' = [written EXCEPT ![t].status = "running"]
    BY <1>1
  <2>2. t \in DOMAIN written /\ written[t].page = p /\ written[t].status \in {"pending", "failed"}
    BY DEF Reused
  <2> DEFINE w == [written[t] EXCEPT !.status = "running"]
  <2>3. w \in TaskRows /\ w.page = p /\ w.type = written[t].type /\ w.status = "running"
    BY <2>2, RowsFacts DEF TaskRows, TaskStates
  <2>4. written' = [written EXCEPT ![t] = w]
    BY <2>1, <2>2, RowsFacts
  <2> HIDE DEF w
  <2>5. DOMAIN written' = DOMAIN written /\ written'[t] = w
        /\ \A u \in DOMAIN written : u # t => written'[u] = written[u]
    BY <2>2, <2>3, <2>4, TaskChanges
  <2>6. QED
    BY <2>2, <2>3, <2>5
<1>2. CASE written' = Append(written, [page |-> p, type |-> blueprint[p].type,
                                       status |-> "running", ref |-> NoRef])
  <2> DEFINE w == [page |-> p, type |-> blueprint[p].type, status |-> "running", ref |-> NoRef]
             t == Len(written) + 1
  <2>1. w.page = p /\ w.type = blueprint[p].type /\ w.status = "running"
    OBVIOUS
  <2>2. written' = Append(written, w)
    BY <1>2
  <2> HIDE DEF w
  <2>3. DOMAIN written' = 1..t /\ written'[t] = w /\ t \in 1..t
        /\ \A u \in DOMAIN written : written'[u] = written[u]
    BY <2>2, RowsFacts
  <2>4. 1..t = DOMAIN written \cup {t} /\ t \notin DOMAIN written
    BY RowsFacts
  <2> HIDE DEF t
  <2>5. QED
    BY <2>1, <2>3, <2>4
<1>3. QED
  BY <1>1, <1>2, TaskOpened

\* What was tried stays so unless its task is opened again.
LEMMA TriedStays ==
  ASSUME NEW q, Tried(q), DOMAIN written \subseteq DOMAIN written',
         \A t \in DOMAIN written : written[t].page = q /\ written[t].status \in {"completed", "failed"}
           => written'[t].page = q /\ written'[t].status \in {"completed", "failed"}
  PROVE  Tried(q)'
BY DEF Tried

LEMMA OpenKeepsTried ==
  ASSUME BlueprintRows, NEW p \in ThePages, TaskFor(p), NEW q, q # p, Tried(q)
  PROVE  Tried(q)'
<1>1. PICK t \in DOMAIN written' :
           /\ DOMAIN written' = DOMAIN written \cup {t}
           /\ \A u \in DOMAIN written : u # t => written'[u] = written[u]
           /\ t \in DOMAIN written => written[t].page = p
  BY OneTaskOpened
<1>2. QED
  BY <1>1, TriedStays

LEMMA OpenRuns ==
  ASSUME BlueprintRows, Placed, siterun.at # "write", NEW p \in ThePages, TaskFor(p)
  PROVE  /\ \A u \in DOMAIN written' : written'[u].status = "running" => written'[u].page = p
         /\ \A u, v \in DOMAIN written' :
              written'[u].status = "running" /\ written'[v].status = "running" => u = v
<1>1. PICK t \in DOMAIN written' :
           /\ DOMAIN written' = DOMAIN written \cup {t} /\ written'[t].page = p
           /\ \A u \in DOMAIN written : u # t => written'[u] = written[u]
  BY OneTaskOpened
<1>2. QED
  BY <1>1 DEF Placed

LEMMA WriteKeepsTried ==
  ASSUME BlueprintRows, WritePage, NEW q, Tried(q)
  PROVE  Tried(q)'
<1>1. PICK t \in DOMAIN written, status \in {"completed", "failed"} :
           /\ written[t].status = "running" /\ DOMAIN written' = DOMAIN written
           /\ \A u \in DOMAIN written : u # t => written'[u] = written[u]
  BY PageWritten
<1>2. QED
  BY <1>1, TriedStays

-----------------------------------------------------------------------------
(* The run's knowledge, step by step.                                        *)

RunInv == Placed /\ ListTried /\ ReadTried

LEMMA InitRunInv == BlueprintInit => RunInv
<1> SUFFICES ASSUME BlueprintInit
             PROVE  RunInv
  OBVIOUS
<1>1. written = <<>> /\ DOMAIN written = {}
  BY DEF BlueprintInit
<1>2. PICK by \in Runners :
        /\ siterun.by = by /\ siterun.at = (IF by = "worker" THEN "advance" ELSE "begin")
        /\ siterun.status = "generating"
  BY DEF BlueprintInit
<1>3. Placed
  BY <1>1, <1>2, Known DEF Placed
<1>4. QED
  BY <1>2, <1>3, Known DEF RunInv, ListTried, ReadTried

\* Steps that change neither the tasks nor what the run knows of them.
LEMMA RunUntouched ==
  ASSUME RunInv, written' = written, siterun'.by = siterun.by, siterun'.at = siterun.at,
         siterun'.status = siterun.status, siterun'.list = siterun.list,
         siterun'.index = siterun.index, siterun'.read = siterun.read
  PROVE  RunInv'
BY DEF RunInv, Placed, ListTried, ReadTried, Tried

LEMMA EditFields ==
  ASSUME BlueprintRows, PageEdited
  PROVE  /\ siterun'.by = siterun.by /\ siterun'.at = siterun.at /\ siterun'.status = siterun.status
         /\ siterun'.list = siterun.list /\ siterun'.index = siterun.index
         /\ siterun'.read = siterun.read /\ siterun'.default = siterun.default
         /\ siterun'.serp = siterun.serp /\ (siterun'.edited <=> siterun.edited \/ siterun.at = "open")
<1> DEFINE b == siterun.edited \/ siterun.at = "open"
<1>1. b \in BOOLEAN /\ siterun' = [siterun EXCEPT !.edited = b]
  BY DEF PageEdited
<1> HIDE DEF b
<1>2. /\ siterun'.by = siterun.by /\ siterun'.at = siterun.at /\ siterun'.status = siterun.status
      /\ siterun'.list = siterun.list /\ siterun'.index = siterun.index
      /\ siterun'.read = siterun.read /\ siterun'.default = siterun.default
      /\ siterun'.serp = siterun.serp /\ siterun'.edited = b
  BY <1>1, RowsFacts DEF RunRows
<1>3. QED
  BY <1>2 DEF b

LEMMA ChooseNextRun == BlueprintRows /\ RunInv /\ ChooseNext => RunInv'
<1> SUFFICES ASSUME BlueprintRows, RunInv, ChooseNext
             PROVE  RunInv'
  OBVIOUS
<1> DEFINE left == {i \in DOMAIN listed : listed[i] \notin DoneHere}
           read == [siterun EXCEPT !.read = ThePages, !.edited = FALSE]
<1>1. /\ siterun'.by = siterun.by /\ siterun'.status = siterun.status /\ siterun'.read = ThePages
      /\ siterun'.at \in {"build", "open"} /\ (siterun'.at = "build" => left = {})
  <2>1. read.by = siterun.by /\ read.status = siterun.status /\ read.read = ThePages /\ read \in RunRows
    BY RowsFacts DEF RunRows
  <2>2. \/ left = {} /\ siterun' = [read EXCEPT !.at = "build", !.index = 1]
        \/ \E i \in left : siterun' = [read EXCEPT !.at = "open", !.index = i]
    BY DEF ChooseNext
  <2> HIDE DEF left, read
  <2>3. QED
    BY <2>1, <2>2 DEF RunRows
<1>2. siterun.at = "advance" /\ written' = written
  BY DEF ChooseNext
<1>3. siterun.by = "worker" /\ siterun.status # "completed"
  BY <1>2, RowsFacts DEF RunInv, Placed, ReadTried
<1>4. ASSUME left = {}, NEW p \in ThePages
      PROVE  Tried(p)
  <2>1. PICK i \in DOMAIN listed : listed[i] = p
    BY <1>4 DEF ThePages, Range
  <2>2. QED
    BY <1>4, <2>1, DoneTried
<1> HIDE DEF left, read
<1>5. siterun'.at = "build" => \A p \in siterun'.read : Tried(p)'
  BY <1>1, <1>2, <1>4 DEF Tried
<1>6. Placed'
  BY <1>1, <1>2, <1>3 DEF RunInv, Placed
<1>7. QED
  BY <1>1, <1>3, <1>5, <1>6 DEF RunInv, ListTried, ReadTried

LEMMA OpenChosenRun == BlueprintRows /\ RunInv /\ OpenChosen => RunInv'
<1> SUFFICES ASSUME BlueprintRows, RunInv, OpenChosen
             PROVE  RunInv'
  OBVIOUS
<1>1. siterun.at = "open" /\ siterun.by = "worker" /\ siterun.status # "completed"
  BY RowsFacts DEF OpenChosen, RunInv, Placed, ReadTried
<1>2. CASE siterun.index > Len(listed)
  <2>1. siterun' = [siterun EXCEPT !.at = "lost"] /\ written' = written
    BY <1>2 DEF OpenChosen
  <2>2. siterun'.by = siterun.by /\ siterun'.at = "lost" /\ siterun'.status = siterun.status
    BY <2>1, RowsFacts DEF RunRows
  <2>3. QED
    BY <1>1, <2>1, <2>2 DEF RunInv, Placed, ListTried, ReadTried
<1>3. CASE ~(siterun.index > Len(listed))
  <2> DEFINE p == listed[siterun.index]
  <2>1. siterun' = Opened(p)
    BY <1>3 DEF OpenChosen
  <2>2. p \in ThePages /\ TaskFor(p)
    BY <1>3, RowsFacts DEF OpenChosen
  <2> HIDE DEF p
  <2>3. siterun'.by = siterun.by /\ siterun'.at = "write" /\ siterun'.status = siterun.status
    BY <2>1, <2>2, PageOpened
  <2>4. \A u, v \in DOMAIN written' :
          written'[u].status = "running" /\ written'[v].status = "running" => u = v
    BY <1>1, <2>2, OpenRuns DEF RunInv
  <2>5. Placed'
    BY <1>1, <2>3, <2>4 DEF Placed
  <2>6. QED
    BY <1>1, <2>3, <2>5 DEF RunInv, ListTried, ReadTried
<1>4. QED
  BY <1>2, <1>3

LEMMA BeginRunRun == BlueprintRows /\ RunInv /\ BeginRun => RunInv'
<1> SUFFICES ASSUME BlueprintRows, RunInv, BeginRun
             PROVE  RunInv'
  OBVIOUS
<1>1. siterun.at = "begin" /\ siterun.by = "desktop" /\ siterun.status # "completed"
      /\ written' = written
  BY RowsFacts DEF BeginRun, RunInv, Placed, ReadTried
<1>2. siterun' = [siterun EXCEPT !.at = "next", !.list = listed, !.index = 1, !.read = ThePages]
  BY DEF BeginRun
<1>3. /\ siterun'.by = siterun.by /\ siterun'.at = "next" /\ siterun'.status = siterun.status
      /\ siterun'.list = listed /\ siterun'.index = 1 /\ siterun'.read = Range(listed)
  BY <1>2, RowsFacts DEF RunRows, ThePages
<1>4. \A i \in DOMAIN listed : ~(i < 1)
  BY RowsFacts
<1>5. Placed'
  BY <1>1, <1>3 DEF RunInv, Placed
<1>6. ListTried'
  BY <1>3, <1>4 DEF ListTried
<1>7. QED
  BY <1>1, <1>3, <1>5, <1>6 DEF RunInv, ReadTried

LEMMA StepOnRun == BlueprintRows /\ RunInv /\ StepOn => RunInv'
<1> SUFFICES ASSUME BlueprintRows, RunInv, StepOn
             PROVE  RunInv'
  OBVIOUS
<1> DEFINE n == siterun.index
           p == siterun.list[n]
<1>1. siterun.at = "next" /\ siterun.by = "desktop" /\ siterun.status # "completed"
      /\ n <= Len(siterun.list)
  BY RowsFacts DEF StepOn, RunInv, Placed, ReadTried
<1>2. siterun.list \in Seq(PageIds) /\ n \in Nat \ {0}
  BY RowsFacts
<1>3. siterun.read = Range(siterun.list) /\ \A i \in DOMAIN siterun.list : i < n => Tried(siterun.list[i])
  BY <1>1 DEF RunInv, ListTried
<1>4. CASE Completed(p)
  <2>1. siterun' = [siterun EXCEPT !.index = n + 1] /\ written' = written
    BY <1>4 DEF StepOn
  <2>2. /\ siterun'.by = siterun.by /\ siterun'.at = siterun.at /\ siterun'.status = siterun.status
        /\ siterun'.list = siterun.list /\ siterun'.index = n + 1 /\ siterun'.read = siterun.read
    BY <2>1, RowsFacts DEF RunRows
  <2>3. Tried(p)
    BY <1>4 DEF Tried, Completed
  <2>4. \A i \in DOMAIN siterun.list : i < n + 1 => i < n \/ i = n
    BY <1>2
  <2>5. \A i \in DOMAIN siterun.list : i < n + 1 => Tried(siterun.list[i])
    BY <1>3, <2>3, <2>4
  <2>6. Placed' /\ ReadTried'
    BY <1>1, <2>1, <2>2 DEF RunInv, Placed, ReadTried
  <2>7. ListTried'
    BY <1>1, <1>3, <2>1, <2>2, <2>5 DEF ListTried, Tried
  <2>8. QED
    BY <2>6, <2>7 DEF RunInv
<1>5. CASE ~Completed(p) /\ p \notin ThePages
  <2>1. siterun' = [siterun EXCEPT !.at = "ended", !.status = "failed"] /\ written' = written
    BY <1>5 DEF StepOn
  <2>2. siterun'.by = siterun.by /\ siterun'.at = "ended" /\ siterun'.status = "failed"
    BY <2>1, RowsFacts DEF RunRows, Steps, RunOutcomes
  <2>3. QED
    BY <1>1, <2>1, <2>2 DEF RunInv, Placed, ListTried, ReadTried
<1>6. CASE ~Completed(p) /\ p \in ThePages
  <2>1. TaskFor(p) /\ siterun' = Opened(p)
    BY <1>6 DEF StepOn
  <2>2. p \in ThePages
    BY <1>6
  <2>3. /\ siterun'.by = siterun.by /\ siterun'.at = "write" /\ siterun'.status = siterun.status
        /\ siterun'.list = siterun.list /\ siterun'.index = n /\ siterun'.read = siterun.read
    BY <2>1, <2>2, PageOpened
  <2>4. /\ \A u \in DOMAIN written' : written'[u].status = "running" => written'[u].page = p
        /\ \A u, v \in DOMAIN written' :
             written'[u].status = "running" /\ written'[v].status = "running" => u = v
    BY <1>1, <1>6, <2>1, OpenRuns DEF RunInv
  <2>5. ASSUME NEW i \in DOMAIN siterun.list, i < n
        PROVE  Tried(siterun.list[i])' \/ siterun.list[i] = p
    <3> DEFINE q == siterun.list[i]
    <3>1. Tried(q)
      BY <1>3, <2>5
    <3>2. CASE q # p
      <4> HIDE DEF p
      <4>1. PICK r : r = q
        OBVIOUS
      <4>2. Tried(r) /\ r # p
        BY <3>1, <3>2, <4>1
      <4>3. Tried(r)'
        BY <1>6, <2>1, <4>2, OpenKeepsTried
      <4>4. QED
        BY <2>3, <4>1, <4>3 DEF Tried
    <3>3. QED
      BY <3>2
  <2>6. Placed' /\ ReadTried'
    BY <1>1, <2>3, <2>4 DEF RunInv, Placed, ReadTried
  <2>7. ListTried'
    BY <1>1, <1>3, <2>3, <2>4, <2>5 DEF ListTried, Tried
  <2>8. QED
    BY <2>6, <2>7 DEF RunInv
<1>7. QED
  BY <1>4, <1>5, <1>6

LEMMA ListDoneRun == BlueprintRows /\ RunInv /\ ListDone => RunInv'
<1> SUFFICES ASSUME BlueprintRows, RunInv, ListDone
             PROVE  RunInv'
  OBVIOUS
<1>1. siterun.at = "next" /\ siterun.by = "desktop" /\ siterun.status # "completed"
      /\ siterun.index > Len(siterun.list) /\ written' = written
  BY RowsFacts DEF ListDone, RunInv, Placed, ReadTried
<1>2. siterun' = [siterun EXCEPT !.at = "build"]
  BY DEF ListDone
<1>3. /\ siterun'.by = siterun.by /\ siterun'.at = "build" /\ siterun'.status = siterun.status
      /\ siterun'.read = siterun.read
  BY <1>2, RowsFacts DEF RunRows
<1>4. \A i \in DOMAIN siterun.list : i < siterun.index
  BY <1>1, RowsFacts
<1>5. \A p \in siterun.read : Tried(p)
  BY <1>1, <1>4 DEF RunInv, ListTried, Range
<1>6. QED
  BY <1>1, <1>3, <1>5 DEF RunInv, Placed, ListTried, ReadTried, Tried

LEMMA WritePageRun == BlueprintRows /\ RunInv /\ WritePage => RunInv'
<1> SUFFICES ASSUME BlueprintRows, RunInv, WritePage
             PROVE  RunInv'
  OBVIOUS
<1>1. siterun.at = "write" /\ siterun.status # "completed"
  BY RowsFacts DEF WritePage, RunInv, ReadTried
<1>2. PICK t \in DOMAIN written, status \in {"completed", "failed"} :
           /\ written[t].status = "running" /\ DOMAIN written' = DOMAIN written
           /\ \A u \in DOMAIN written : u # t => written'[u] = written[u]
           /\ written'[t].page = written[t].page /\ written'[t].status = status
  BY PageWritten
<1> DEFINE at == IF siterun.by = "worker" THEN "advance" ELSE "next"
           index == IF siterun.by = "worker" THEN 1 ELSE siterun.index + 1
<1>3. siterun' = [siterun EXCEPT !.at = at, !.index = index, !.default = NoRef, !.serp = FALSE]
  BY RowsFacts DEF WritePage
<1> HIDE DEF at, index
<1>4. /\ siterun'.by = siterun.by /\ siterun'.at = at /\ siterun'.status = siterun.status
      /\ siterun'.list = siterun.list /\ siterun'.index = index /\ siterun'.read = siterun.read
  BY <1>3, RowsFacts DEF RunRows
<1>5. \A u \in DOMAIN written' : written'[u].status # "running"
  BY <1>2 DEF RunInv, Placed
<1>6. CASE siterun.by = "worker"
  <2>1. siterun'.at = "advance"
    BY <1>4, <1>6 DEF at
  <2>2. QED
    BY <1>1, <1>4, <1>5, <1>6, <2>1 DEF RunInv, Placed, ListTried, ReadTried
<1>7. CASE siterun.by = "desktop"
  <2>1. siterun'.at = "next" /\ index = siterun.index + 1
    BY <1>4, <1>7 DEF at, index
  <2> DEFINE n == siterun.index
             list == siterun.list
  <2>2. list \in Seq(PageIds) /\ n \in Nat \ {0} /\ n <= Len(list)
    BY <1>1, <1>7, RowsFacts DEF RunInv, ListTried
  <2>3. /\ siterun.read = Range(list) /\ written[t].page = list[n]
        /\ \A i \in DOMAIN list : i < n => Tried(list[i]) \/ list[i] = list[n]
    BY <1>1, <1>2, <1>7 DEF RunInv, ListTried
  <2> HIDE DEF n, list
  <2>4. PICK r : r = list[n]
    OBVIOUS
  <2>5. Tried(r)'
    BY <1>2, <2>3, <2>4 DEF Tried
  <2>6. ASSUME NEW i \in DOMAIN list, i < n + 1
        PROVE  \E q : q = list[i] /\ Tried(q)'
    <3>1. PICK q : q = list[i]
      OBVIOUS
    <3>2. i < n \/ i = n
      BY <2>2, <2>6
    <3>3. Tried(q) \/ q = r
      BY <2>3, <2>4, <3>1, <3>2
    <3>4. Tried(q)'
      BY <2>5, <3>3, WriteKeepsTried
    <3>5. QED
      BY <3>1, <3>4
  <2>7. siterun'.list = list /\ siterun'.index = n + 1
    BY <1>4, <2>1 DEF n, list
  <2>8. ListTried'
    BY <1>4, <2>1, <2>3, <2>6, <2>7 DEF ListTried, Tried
  <2>9. QED
    BY <1>1, <1>4, <1>5, <1>7, <2>1, <2>8 DEF RunInv, Placed, ReadTried
<1>8. QED
  BY <1>6, <1>7, RowsFacts

LEMMA BuildSiteRun == BlueprintRows /\ RunInv /\ BuildSite => RunInv'
<1> SUFFICES ASSUME BlueprintRows, RunInv, BuildSite
             PROVE  RunInv'
  OBVIOUS
<1> DEFINE status == IF \E p \in ThePages : Completed(p) THEN "completed" ELSE "failed"
<1>1. siterun' = [siterun EXCEPT !.at = "ended", !.list = <<>>, !.index = 1, !.status = status]
      /\ siterun.at = "build" /\ written' = written
  BY DEF BuildSite
<1> HIDE DEF status
<1>2. siterun'.by = siterun.by /\ siterun'.at = "ended" /\ siterun'.read = siterun.read
  BY <1>1, RowsFacts DEF RunRows
<1>3. \A p \in siterun.read : Tried(p)
  BY <1>1 DEF RunInv, ReadTried
<1>4. QED
  BY <1>1, <1>2, <1>3 DEF RunInv, Placed, ListTried, ReadTried, Tried

LEMMA RetryRunRun == BlueprintRows /\ RunInv /\ RetryRun => RunInv'
<1> SUFFICES ASSUME BlueprintRows, RunInv, RetryRun
             PROVE  RunInv'
  OBVIOUS
<1> DEFINE at == IF siterun.by = "worker" THEN "advance" ELSE "begin"
<1>1. siterun' = [siterun EXCEPT !.at = at, !.status = "generating"]
      /\ siterun.at \in {"ended", "lost"}
  BY DEF RetryRun
<1> HIDE DEF at
<1>2. siterun'.by = siterun.by /\ siterun'.at = at /\ siterun'.status = "generating"
  BY <1>1, RowsFacts DEF RunRows
<1>3. \A t \in DOMAIN written : written[t].status # "running"
  BY <1>1 DEF RunInv, Placed
<1>4. \A t \in DOMAIN written' : written'[t].status # "running"
  BY <1>3, TasksRetried
<1>5. QED
  BY <1>2, <1>4, RowsFacts DEF RunInv, Placed, ListTried, ReadTried, at

LEMMA RunInvStep == BlueprintRows /\ RunInv /\ [BlueprintNext]_blueprintVars => RunInv'
<1> SUFFICES ASSUME BlueprintRows, RunInv, [BlueprintNext]_blueprintVars
             PROVE  RunInv'
  OBVIOUS
<1>1. CASE RunStep
  BY <1>1, ChooseNextRun, OpenChosenRun, BeginRunRun, StepOnRun, ListDoneRun,
     WritePageRun, BuildSiteRun DEF RunStep
<1>2. CASE RetryRun
  BY <1>2, RetryRunRun
<1>3. CASE \E p \in PageIds : PutPage(p) \/ DropPage(p)
  <2>1. PageEdited /\ written' = written
    BY <1>3 DEF PutPage, DropPage
  <2>2. QED
    BY <2>1, EditFields, RunUntouched
<1>4. CASE \E r \in RefIds : PutRef(r) \/ DropRef(r)
  <2>1. siterun' = siterun /\ written' = written
    BY <1>4 DEF PutRef, DropRef
  <2>2. QED
    BY <2>1, RunUntouched
<1>5. CASE UNCHANGED blueprintVars
  BY <1>5, RunUntouched DEF blueprintVars
<1>6. QED
  BY <1>1, <1>2, <1>3, <1>4, <1>5 DEF BlueprintNext

LEMMA RunTriesAll == RunInv => AllTried
BY DEF RunInv, ReadTried, AllTried, Tried

\* A completed project tried every page of the last reading of its blueprint, whatever was
\* edited meanwhile and however often it was retried (advance_project, _project_sync).
THEOREM CompletedTriedAll == BlueprintSpec => []AllTried
<1>1. BlueprintInit => BlueprintRows /\ RunInv
  BY InitRows, InitRunInv
<1>2. BlueprintRows /\ RunInv /\ [BlueprintNext]_blueprintVars => (BlueprintRows /\ RunInv)'
  BY RowsStep, RunInvStep
<1>3. BlueprintRows /\ RunInv => AllTried
  BY RunTriesAll
<1>4. QED
  BY <1>1, <1>2, <1>3, PTL DEF BlueprintSpec

-----------------------------------------------------------------------------
(* A page gets a second task only after an unlucky edit.                      *)

LEMMA ChooseNextNumber == BlueprintRows /\ ChooseNext => NumberHolds'
<1> SUFFICES ASSUME BlueprintRows, ChooseNext
             PROVE  NumberHolds'
  OBVIOUS
<1> DEFINE left == {i \in DOMAIN listed : listed[i] \notin DoneHere}
           read == [siterun EXCEPT !.read = ThePages, !.edited = FALSE]
<1>1. read \in RunRows
  BY RowsFacts DEF RunRows
<1>2. \/ left = {} /\ siterun' = [read EXCEPT !.at = "build", !.index = 1]
      \/ \E i \in left : siterun' = [read EXCEPT !.at = "open", !.index = i]
  BY DEF ChooseNext
<1>3. \A i \in left : i <= Len(listed) /\ listed[i] \notin DoneHere
  BY RowsFacts
<1> HIDE DEF left, read
<1>4. siterun'.at = "open" => siterun'.index \in left
  BY <1>1, <1>2 DEF RunRows
<1>5. listed' = listed /\ DoneHere' = DoneHere
  <2>1. listed' = listed /\ written' = written
    BY DEF ChooseNext
  <2>2. QED
    BY <2>1 DEF DoneHere
<1>6. QED
  BY <1>3, <1>4, <1>5 DEF NumberHolds

LEMMA NoNumber ==
  ASSUME BlueprintRows, OpenChosen \/ BeginRun \/ StepOn \/ ListDone \/ WritePage \/ BuildSite \/ RetryRun
  PROVE  siterun'.at # "open"
<1>1. ASSUME OpenChosen
      PROVE  siterun'.at # "open"
  <2> DEFINE default == blueprint[listed[siterun.index]].default
             serp == blueprint[listed[siterun.index]].serp
  <2>1. \/ siterun' = [siterun EXCEPT !.at = "lost"]
        \/ siterun' = [siterun EXCEPT !.at = "write", !.default = default, !.serp = serp]
    BY <1>1 DEF OpenChosen, Opened
  <2> HIDE DEF default, serp
  <2>2. QED
    BY <2>1, RowsFacts DEF RunRows
<1>2. ASSUME BeginRun \/ ListDone
      PROVE  siterun'.at # "open"
  BY <1>2, RowsFacts DEF BeginRun, ListDone, RunRows
<1>3. ASSUME StepOn
      PROVE  siterun'.at # "open"
  <2> DEFINE default == blueprint[siterun.list[siterun.index]].default
             serp == blueprint[siterun.list[siterun.index]].serp
  <2>1. \/ siterun' = [siterun EXCEPT !.index = @ + 1]
        \/ siterun' = [siterun EXCEPT !.at = "ended", !.status = "failed"]
        \/ siterun' = [siterun EXCEPT !.at = "write", !.default = default, !.serp = serp]
    BY <1>3 DEF StepOn, Opened
  <2>2. siterun.at = "next"
    BY <1>3 DEF StepOn
  <2> HIDE DEF default, serp
  <2>3. QED
    BY <2>1, <2>2, RowsFacts DEF RunRows
<1>4. ASSUME WritePage \/ RetryRun
      PROVE  siterun'.at # "open"
  BY <1>4, RowsFacts DEF WritePage, RetryRun, RunRows
<1>5. ASSUME BuildSite
      PROVE  siterun'.at # "open"
  <2> DEFINE status == IF \E p \in ThePages : Completed(p) THEN "completed" ELSE "failed"
  <2>1. siterun' = [siterun EXCEPT !.at = "ended", !.list = <<>>, !.index = 1, !.status = status]
    BY <1>5 DEF BuildSite
  <2> HIDE DEF status
  <2>2. QED
    BY <2>1, RowsFacts DEF RunRows
<1>6. QED
  BY <1>1, <1>2, <1>3, <1>4, <1>5

LEMMA NumberStep == BlueprintRows /\ NumberHolds /\ [BlueprintNext]_blueprintVars => NumberHolds'
<1> SUFFICES ASSUME BlueprintRows, NumberHolds, [BlueprintNext]_blueprintVars
             PROVE  NumberHolds'
  OBVIOUS
<1>1. CASE ChooseNext
  BY <1>1, ChooseNextNumber
<1>2. CASE OpenChosen \/ BeginRun \/ StepOn \/ ListDone \/ WritePage \/ BuildSite \/ RetryRun
  BY <1>2, NoNumber DEF NumberHolds
<1>3. CASE \E p \in PageIds : PutPage(p) \/ DropPage(p)
  <2>1. PageEdited
    BY <1>3 DEF PutPage, DropPage
  <2>2. QED
    BY <2>1, EditFields DEF NumberHolds
<1>4. CASE \E r \in RefIds : PutRef(r) \/ DropRef(r)
  BY <1>4 DEF PutRef, DropRef, NumberHolds, DoneHere
<1>5. CASE UNCHANGED blueprintVars
  BY <1>5 DEF blueprintVars, NumberHolds, DoneHere
<1>6. QED
  BY <1>1, <1>2, <1>3, <1>4, <1>5 DEF BlueprintNext, RunStep

LEMMA Longer ==
  ASSUME BlueprintRows, NEW p \in ThePages, TaskFor(p), Len(written') > Len(written)
  PROVE  written'[Len(written')].page = p
<1>1. CASE \E t \in Reused(p) : written' = [written EXCEPT ![t].status = "running"]
  <2>1. PICK t \in Reused(p) : written' = [written EXCEPT ![t].status = "running"]
    BY <1>1
  <2>2. t \in DOMAIN written
    BY DEF Reused
  <2> DEFINE w == [written[t] EXCEPT !.status = "running"]
  <2>3. w \in TaskRows /\ written' = [written EXCEPT ![t] = w]
    BY <2>1, <2>2, RowsFacts DEF TaskRows, TaskStates
  <2> HIDE DEF w
  <2>4. Len(written') = Len(written)
    BY <2>3, RowsFacts
  <2>5. QED
    BY <2>4, RowsFacts
<1>2. CASE written' = Append(written, [page |-> p, type |-> blueprint[p].type,
                                       status |-> "running", ref |-> NoRef])
  <2> DEFINE w == [page |-> p, type |-> blueprint[p].type, status |-> "running", ref |-> NoRef]
  <2>1. w.page = p /\ written' = Append(written, w)
    BY <1>2
  <2> HIDE DEF w
  <2>2. written'[Len(written')] = w
    BY <2>1, RowsFacts
  <2>3. QED
    BY <2>1, <2>2
<1>3. QED
  BY <1>1, <1>2, TaskOpened

SecondTask ==
  Len(written') > Len(written) /\ Completed(written'[Len(written')].page)
    => siterun.by = "worker" /\ siterun.edited

LEMMA NoMoreTasks ==
  BlueprintRows /\ (written' = written \/ WritePage \/ RetryRun) => ~(Len(written') > Len(written))
<1> SUFFICES ASSUME BlueprintRows, written' = written \/ WritePage \/ RetryRun
             PROVE  ~(Len(written') > Len(written))
  OBVIOUS
<1>1. CASE written' = written
  BY <1>1, RowsFacts
<1>2. CASE WritePage \/ RetryRun
  <2>1. written' \in Seq(TaskRows) /\ DOMAIN written' = DOMAIN written
    BY <1>2, PageWritten, TasksRetried
  <2>2. Len(written') = Len(written)
    BY <2>1, RowsFacts
  <2>3. QED
    BY <2>2, RowsFacts
<1>3. QED
  BY <1>1, <1>2

LEMMA OnceStep ==
  BlueprintRows /\ Placed /\ NumberHolds /\ [BlueprintNext]_blueprintVars => SecondTask
<1> SUFFICES ASSUME BlueprintRows, Placed, NumberHolds, [BlueprintNext]_blueprintVars,
                    Len(written') > Len(written), Completed(written'[Len(written')].page)
             PROVE  siterun.by = "worker" /\ siterun.edited
  BY DEF SecondTask
<1>1. CASE OpenChosen
  <2> DEFINE p == listed[siterun.index]
  <2>1. siterun.at = "open" /\ ~(siterun.index > Len(listed)) /\ TaskFor(p) /\ p \in ThePages
    BY <1>1, NoMoreTasks, RowsFacts DEF OpenChosen
  <2> HIDE DEF p
  <2>2. Completed(p)
    BY <2>1, Longer
  <2>3. p \in DoneHere
    BY <2>2, DoneTried DEF Completed, Tried
  <2>4. siterun.edited
    BY <2>1, <2>3 DEF NumberHolds, p
  <2>5. QED
    BY <2>1, <2>4, RowsFacts DEF Placed
<1>2. CASE StepOn
  <2> DEFINE p == siterun.list[siterun.index]
  <2>1. ~Completed(p) /\ TaskFor(p) /\ p \in ThePages
    BY <1>2, NoMoreTasks DEF StepOn
  <2> HIDE DEF p
  <2>2. QED
    BY <2>1, Longer
<1>3. CASE ChooseNext \/ BeginRun \/ ListDone \/ WritePage \/ BuildSite \/ RetryRun
  BY <1>3, NoMoreTasks DEF ChooseNext, BeginRun, ListDone, BuildSite
<1>4. CASE \E p \in PageIds : PutPage(p) \/ DropPage(p)
  BY <1>4, NoMoreTasks DEF PutPage, DropPage
<1>5. CASE \E r \in RefIds : PutRef(r) \/ DropRef(r)
  BY <1>5, NoMoreTasks DEF PutRef, DropRef
<1>6. CASE UNCHANGED blueprintVars
  BY <1>6, NoMoreTasks DEF blueprintVars
<1>7. QED
  BY <1>1, <1>2, <1>3, <1>4, <1>5, <1>6 DEF BlueprintNext, RunStep

\* A page that is written gets a second task only from a worker whose number was chosen before
\* pages were edited: the desktop asks for a completed task before it opens the page, the
\* worker only when it chooses (process_project_page).
THEOREM WrittenOnce == BlueprintSpec => PageOnce
<1>1. BlueprintInit => BlueprintRows /\ RunInv /\ NumberHolds
  <2>1. BlueprintInit => siterun.at # "open"
    BY DEF BlueprintInit
  <2>2. QED
    BY <2>1, InitRows, InitRunInv DEF NumberHolds
<1>2. BlueprintRows /\ RunInv /\ NumberHolds /\ [BlueprintNext]_blueprintVars
        => (BlueprintRows /\ RunInv /\ NumberHolds)'
  BY RowsStep, RunInvStep, NumberStep
<1>3. BlueprintRows /\ RunInv /\ NumberHolds /\ [BlueprintNext]_blueprintVars => SecondTask
  BY OnceStep DEF RunInv
<1>4. (SecondTask) => [SecondTask]_blueprintVars
  OBVIOUS
<1>5. QED
  BY <1>1, <1>2, <1>3, <1>4, PTL DEF BlueprintSpec, PageOnce, SecondTask

-----------------------------------------------------------------------------
(* A page is written from the reference chosen for it.                       *)

\* Every edit is recorded: what is not among the edits is as it was.
Recorded ==
  /\ chosen' = chosen /\ edits.refs \subseteq edits'.refs /\ edits.pages \subseteq edits'.pages
  /\ \A r \in RefIds \ edits'.refs : reference'[r] = reference[r]
  /\ \A p \in PageIds \ edits'.pages : blueprint'[p] = blueprint[p]

LEMMA TouchedRecorded ==
  ASSUME NEW pages, NEW refs, Touched(pages, refs)
  PROVE  edits'.refs = edits.refs \cup refs /\ edits'.pages = edits.pages \cup pages
BY DEF Touched

LEMMA AllRecorded == BlueprintRows /\ [BlueprintNext]_blueprintVars => Recorded
<1> SUFFICES ASSUME BlueprintRows, [BlueprintNext]_blueprintVars
             PROVE  Recorded
  OBVIOUS
<1>1. CASE RunStep \/ UNCHANGED blueprintVars
  <2>1. chosen' = chosen /\ edits' = edits /\ reference' = reference /\ blueprint' = blueprint
    BY <1>1 DEF RunStep, ChooseNext, OpenChosen, BeginRun, StepOn, ListDone, WritePage, BuildSite,
       blueprintVars
  <2>2. QED
    BY <2>1 DEF Recorded
<1>2. CASE RetryRun
  <2>1. chosen' = chosen /\ reference' = reference /\ blueprint' = blueprint /\ Touched({}, {})
    BY <1>2 DEF RetryRun
  <2>2. QED
    BY <2>1, TouchedRecorded DEF Recorded
<1>3. ASSUME NEW p \in PageIds, PutPage(p)
      PROVE  Recorded
  <2>1. chosen' = chosen /\ reference' = reference /\ Touched({p}, {})
    BY <1>3 DEF PutPage
  <2>2. \E new : blueprint' = [blueprint EXCEPT ![p] = new]
    BY <1>3, PagePut
  <2>3. edits'.refs = edits.refs \cup {} /\ edits'.pages = edits.pages \cup {p}
    BY <2>1, TouchedRecorded
  <2>4. \A q \in PageIds \ edits'.pages : q # p /\ blueprint'[q] = blueprint[q]
    BY <2>2, <2>3 DEF BlueprintRows
  <2>5. QED
    BY <2>1, <2>3, <2>4 DEF Recorded
<1>4. ASSUME NEW p \in PageIds, DropPage(p)
      PROVE  Recorded
  <2>1. chosen' = chosen /\ reference' = reference /\ blueprint' = blueprint /\ Touched({p}, {})
    BY <1>4 DEF DropPage
  <2>2. QED
    BY <2>1, TouchedRecorded DEF Recorded
<1>5. ASSUME NEW r \in RefIds, PutRef(r)
      PROVE  Recorded
  <2>1. chosen' = chosen /\ blueprint' = blueprint /\ Touched({}, {r})
    BY <1>5 DEF PutRef
  <2>2. edits'.refs = edits.refs \cup {r} /\ edits'.pages = edits.pages
    BY <2>1, TouchedRecorded
  <2>3. \A q \in RefIds \ {r} : reference'[q] = reference[q]
    BY <1>5 DEF PutRef, BlueprintRows
  <2>4. QED
    BY <2>1, <2>2, <2>3 DEF Recorded
<1>6. ASSUME NEW r \in RefIds, DropRef(r)
      PROVE  Recorded
  <2> DEFINE pages == {p \in PageIds : blueprint[p].default = r}
  <2>1. chosen' = chosen /\ Touched(pages, {r})
    BY <1>6 DEF DropRef
  <2>2. edits'.refs = edits.refs \cup {r} /\ edits'.pages = edits.pages \cup pages
    BY <2>1, TouchedRecorded
  <2>3. \A q \in RefIds \ {r} : reference'[q] = reference[q]
    BY <1>6, RefDropped
  <2>4. \A p \in PageIds : blueprint[p].default # r => blueprint'[p] = blueprint[p]
    BY <1>6, RefDropped
  <2>5. QED
    BY <2>1, <2>2, <2>3, <2>4 DEF Recorded
<1>7. QED
  BY <1>1, <1>2, <1>3, <1>4, <1>5, <1>6 DEF BlueprintNext

LEMMA FitsStill ==
  ASSUME Recorded, NEW type, NEW r \in Fitting(type), r \notin edits'.refs
  PROVE  r \in Fitting(type)'
BY DEF Recorded, Fitting

LEMMA ChosenStep == BlueprintRows /\ ChosenFits /\ Recorded => ChosenFits'
<1> SUFFICES ASSUME BlueprintRows, ChosenFits, Recorded, NEW type \in LegalTypes,
                    chosen'[type] # NoRef, chosen'[type] \notin edits'.refs
             PROVE  chosen'[type] \in Fitting(type)'
  BY DEF ChosenFits
<1>1. chosen' = chosen /\ edits.refs \subseteq edits'.refs
  BY DEF Recorded
<1>2. PICK r : r = chosen[type]
  OBVIOUS
<1>3. r \in Fitting(type) /\ r \notin edits'.refs
  BY <1>1, <1>2 DEF ChosenFits
<1>4. r \in Fitting(type)'
  BY <1>3, FitsStill
<1>5. QED
  BY <1>1, <1>2, <1>4

LEMMA DefaultsStep == BlueprintRows /\ DefaultsFit /\ Recorded => DefaultsFit'
<1> SUFFICES ASSUME BlueprintRows, DefaultsFit, Recorded, NEW p \in PageIds \ edits'.pages,
                    blueprint'[p].default # NoRef, blueprint'[p].default \notin edits'.refs
             PROVE  (blueprint[p].default \in Fitting(blueprint[p].type))'
  BY DEF DefaultsFit
<1>1. blueprint'[p] = blueprint[p] /\ edits.refs \subseteq edits'.refs /\ p \notin edits.pages
  BY DEF Recorded
<1>2. PICK r, type : r = blueprint[p].default /\ type = blueprint[p].type
  OBVIOUS
<1>3. r \in Fitting(type) /\ r \notin edits'.refs
  BY <1>1, <1>2 DEF DefaultsFit
<1>4. r \in Fitting(type)'
  BY <1>3, FitsStill
<1>5. QED
  BY <1>1, <1>2, <1>4 DEF Fitting

\* Tasks that keep their pages and types, none of them running.
LEMMA KnownAsBefore ==
  ASSUME BlueprintRows, PagesKnown, Recorded, DOMAIN written' = DOMAIN written,
         \A t \in DOMAIN written : /\ written'[t].page = written[t].page
                                   /\ written'[t].type = written[t].type
                                   /\ written'[t].status # "running"
  PROVE  PagesKnown'
<1>1. ASSUME NEW t \in DOMAIN written, written[t].page \notin edits'.pages
      PROVE  written[t].type = blueprint'[written[t].page].type
  <2>1. written[t].page \in PageIds /\ written[t].page \notin edits.pages
    BY <1>1, RowsFacts DEF Recorded
  <2>2. blueprint'[written[t].page] = blueprint[written[t].page]
    BY <1>1, <2>1 DEF Recorded
  <2>3. QED
    BY <2>1, <2>2 DEF PagesKnown
<1>2. QED
  BY <1>1 DEF PagesKnown

LEMMA KnownUntouched ==
  ASSUME BlueprintRows, PagesKnown, Recorded, written' = written,
         siterun'.by = siterun.by, siterun'.default = siterun.default, siterun'.serp = siterun.serp
  PROVE  PagesKnown'
<1>1. ASSUME NEW t \in DOMAIN written, written[t].page \notin edits'.pages
      PROVE  /\ written[t].page \notin edits.pages
             /\ blueprint'[written[t].page] = blueprint[written[t].page]
  <2>1. written[t].page \in PageIds
    BY RowsFacts
  <2>2. QED
    BY <1>1, <2>1 DEF Recorded
<1>2. QED
  BY <1>1 DEF PagesKnown

LEMMA KnownOpened ==
  ASSUME BlueprintRows, PagesKnown, Placed, siterun.at # "write", NEW p \in ThePages, TaskFor(p),
         blueprint' = blueprint, edits' = edits, siterun'.default = blueprint[p].default,
         siterun'.serp = blueprint[p].serp
  PROVE  PagesKnown'
<1>1. PICK t \in DOMAIN written' :
           /\ DOMAIN written' = DOMAIN written \cup {t}
           /\ written'[t].page = p
           /\ \A u \in DOMAIN written : u # t => written'[u] = written[u]
           /\ t \in DOMAIN written => written[t].page = p /\ written'[t].type = written[t].type
           /\ t \notin DOMAIN written => written'[t].type = blueprint[p].type
  BY OneTaskOpened
<1>2. p \notin edits.pages => written'[t].type = blueprint[p].type
  BY <1>1 DEF PagesKnown
<1>3. \A u \in DOMAIN written : written[u].status # "running"
  BY DEF Placed
<1>4. QED
  BY <1>1, <1>2, <1>3 DEF PagesKnown

LEMMA KnownStep ==
  BlueprintRows /\ Placed /\ PagesKnown /\ [BlueprintNext]_blueprintVars => PagesKnown'
<1> SUFFICES ASSUME BlueprintRows, Placed, PagesKnown, [BlueprintNext]_blueprintVars
             PROVE  PagesKnown'
  OBVIOUS
<1>1. Recorded
  BY AllRecorded
<1>2. CASE OpenChosen
  <2>1. siterun.at = "open" /\ blueprint' = blueprint /\ edits' = edits
    BY <1>2 DEF OpenChosen
  <2>2. CASE siterun.index > Len(listed)
    <3>1. siterun' = [siterun EXCEPT !.at = "lost"] /\ written' = written
      BY <1>2, <2>2 DEF OpenChosen
    <3>2. siterun'.by = siterun.by /\ siterun'.default = siterun.default /\ siterun'.serp = siterun.serp
      BY <3>1, RowsFacts DEF RunRows
    <3>3. QED
      BY <1>1, <3>1, <3>2, KnownUntouched
  <2>3. CASE ~(siterun.index > Len(listed))
    <3> DEFINE p == listed[siterun.index]
    <3>1. p \in ThePages /\ TaskFor(p) /\ siterun' = Opened(p)
      BY <1>2, <2>3, RowsFacts DEF OpenChosen
    <3> HIDE DEF p
    <3>2. siterun'.default = blueprint[p].default /\ siterun'.serp = blueprint[p].serp
      BY <3>1, PageOpened
    <3>3. QED
      BY <2>1, <3>1, <3>2, KnownOpened
  <2>4. QED
    BY <2>2, <2>3
<1>3. CASE StepOn
  <2> DEFINE p == siterun.list[siterun.index]
  <2>1. siterun.at = "next" /\ blueprint' = blueprint /\ edits' = edits
    BY <1>3 DEF StepOn
  <2>2. CASE TaskFor(p) /\ p \in ThePages /\ siterun' = Opened(p)
    <3>1. siterun'.default = blueprint[p].default /\ siterun'.serp = blueprint[p].serp
      BY <2>2, PageOpened
    <3> HIDE DEF p
    <3>2. QED
      BY <2>1, <2>2, <3>1, KnownOpened
  <2>3. CASE written' = written /\ (\/ siterun' = [siterun EXCEPT !.index = @ + 1]
                                   \/ siterun' = [siterun EXCEPT !.at = "ended", !.status = "failed"])
    <3>1. siterun'.by = siterun.by /\ siterun'.default = siterun.default /\ siterun'.serp = siterun.serp
      BY <2>3, RowsFacts DEF RunRows
    <3>2. QED
      BY <1>1, <2>3, <3>1, KnownUntouched
  <2>4. QED
    BY <1>3, <2>2, <2>3 DEF StepOn
<1>4. CASE WritePage
  <2>1. PICK t \in DOMAIN written, status \in {"completed", "failed"} :
           /\ written[t].status = "running" /\ DOMAIN written' = DOMAIN written
           /\ \A u \in DOMAIN written : u # t => written'[u] = written[u]
           /\ written'[t].page = written[t].page /\ written'[t].type = written[t].type
           /\ written'[t].status = status
    BY <1>4, PageWritten
  <2>2. \A u \in DOMAIN written : /\ written'[u].page = written[u].page
                                  /\ written'[u].type = written[u].type
                                  /\ written'[u].status # "running"
    BY <2>1 DEF Placed
  <2>3. QED
    BY <1>1, <2>1, <2>2, KnownAsBefore
<1>5. CASE RetryRun
  <2>1. \A t \in DOMAIN written : written[t].status # "running"
    BY <1>5 DEF RetryRun, Placed
  <2>2. \A u \in DOMAIN written : /\ written'[u].page = written[u].page
                                  /\ written'[u].type = written[u].type
                                  /\ written'[u].status # "running"
    BY <1>5, <2>1, TasksRetried
  <2>3. QED
    BY <1>1, <1>5, <2>2, TasksRetried, KnownAsBefore
<1>6. CASE ChooseNext \/ BeginRun \/ ListDone \/ BuildSite
  <2>1. written' = written
    BY <1>6 DEF ChooseNext, BeginRun, ListDone, BuildSite
  <2>2. siterun.at # "write"
    BY <1>6 DEF ChooseNext, BeginRun, ListDone, BuildSite
  <2>3. \A t \in DOMAIN written : written[t].status # "running"
    BY <2>2 DEF Placed
  <2>4. QED
    BY <1>1, <2>1, <2>3, KnownAsBefore
<1>7. CASE \E p \in PageIds : PutPage(p) \/ DropPage(p)
  <2>1. written' = written /\ PageEdited
    BY <1>7 DEF PutPage, DropPage
  <2>2. QED
    BY <1>1, <2>1, EditFields, KnownUntouched
<1>8. CASE \E r \in RefIds : PutRef(r) \/ DropRef(r)
  <2>1. written' = written /\ siterun' = siterun
    BY <1>8 DEF PutRef, DropRef
  <2>2. QED
    BY <1>1, <2>1, KnownUntouched
<1>9. CASE UNCHANGED blueprintVars
  BY <1>1, <1>9, KnownUntouched DEF blueprintVars
<1>10. QED
  BY <1>2, <1>3, <1>4, <1>5, <1>6, <1>7, <1>8, <1>9 DEF BlueprintNext, RunStep

\* Only the end of a page completes a task that runs.
LEMMA OnlyWriting ==
  ASSUME BlueprintRows, Placed, [BlueprintNext]_blueprintVars, NEW t \in DOMAIN written,
         written[t].status = "running", written'[t].status = "completed"
  PROVE  WritePage
<1>1. siterun.at = "write" /\ written' # written
  BY DEF Placed
<1>2. ~(ChooseNext \/ OpenChosen \/ BeginRun \/ StepOn \/ ListDone \/ BuildSite \/ RetryRun)
  BY <1>1 DEF ChooseNext, OpenChosen, BeginRun, StepOn, ListDone, BuildSite, RetryRun
<1>3. ~(\E p \in PageIds : PutPage(p) \/ DropPage(p)) /\ ~(\E r \in RefIds : PutRef(r) \/ DropRef(r))
      /\ ~ UNCHANGED blueprintVars
  BY <1>1 DEF PutPage, DropPage, PutRef, DropRef, blueprintVars
<1>4. QED
  BY <1>2, <1>3 DEF BlueprintNext, RunStep

\* The reference that a page may be written from.
RightRef(type, page, ref) ==
  LET choice == IF type \in LegalTypes THEN chosen[type] ELSE NoRef
  IN /\ ref # NoRef => reference[ref].type = type
     /\ choice \notin edits.refs \cup {NoRef} => ref = IF siterun.serp THEN NoRef ELSE choice
     /\ page \notin edits.pages /\ type \in LegalTypes =>
          /\ blueprint[page].serp => ref = NoRef
          /\ /\ choice = NoRef /\ blueprint[page].default \notin edits.refs
             /\ ~blueprint[page].serp
             => ref = blueprint[page].default

\* What the page is written from.
LEMMA InjectedRight ==
  ASSUME BlueprintRows, ChosenFits, DefaultsFit, PagesKnown,
         NEW t \in DOMAIN written, written[t].status = "running"
  PROVE  RightRef(written[t].type, written[t].page, Injected(t))
<1> DEFINE type == written[t].type
           page == written[t].page
           choice == IF type \in LegalTypes THEN chosen[type] ELSE NoRef
<1>1. page \in PageIds /\ type \in Types
  BY RowsFacts
<1>2. Injected(t) # NoRef => reference[Injected(t)].type = type
  BY DEF Injected, Fitting
<1>3. ASSUME choice \notin edits.refs \cup {NoRef}
      PROVE  Injected(t) = IF siterun.serp THEN NoRef ELSE choice
  <2>1. type \in LegalTypes /\ chosen[type] \notin edits.refs \cup {NoRef} /\ choice = chosen[type]
    BY <1>3
  <2>2. Wanted(t) = choice /\ choice \in Fitting(type)
    BY <2>1 DEF Wanted, ChosenFits
  <2>3. QED
    BY <2>2 DEF Injected
<1>4. ASSUME page \notin edits.pages
      PROVE  siterun.serp = blueprint[page].serp
  BY <1>4 DEF PagesKnown
<1>5. ASSUME page \notin edits.pages, blueprint[page].serp
      PROVE  Injected(t) = NoRef
  BY <1>4, <1>5 DEF Injected
<1>6. ASSUME type \in LegalTypes, choice = NoRef, page \notin edits.pages,
             blueprint[page].default \notin edits.refs, ~blueprint[page].serp
      PROVE  Injected(t) = blueprint[page].default
  <2>1. type = blueprint[page].type /\ ~siterun.serp /\ chosen[type] = NoRef
    BY <1>4, <1>6 DEF PagesKnown
  <2>2. DefaultOf(t) = blueprint[page].default
    BY <1>6 DEF PagesKnown, DefaultOf
  <2>3. Wanted(t) = blueprint[page].default
    BY <1>6, <2>1, <2>2 DEF Wanted
  <2>4. CASE blueprint[page].default = NoRef
    BY <2>3, <2>4 DEF Injected
  <2>5. CASE blueprint[page].default # NoRef
    <3>1. blueprint[page].default \in Fitting(blueprint[page].type)
      BY <1>1, <1>6, <2>5 DEF DefaultsFit
    <3>2. QED
      BY <2>1, <2>3, <3>1 DEF Injected
  <2>6. QED
    BY <2>4, <2>5
<1>7. QED
  BY <1>2, <1>3, <1>5, <1>6 DEF RightRef

Honoured ==
  \A t \in DOMAIN written :
    written'[t].status = "completed" /\ written[t].status = "running" =>
      RightRef(written'[t].type, written'[t].page, written'[t].ref)

LEMMA HonouredStep == BlueprintInv /\ [BlueprintNext]_blueprintVars => Honoured
<1> SUFFICES ASSUME BlueprintInv, [BlueprintNext]_blueprintVars, NEW t \in DOMAIN written,
                    written'[t].status = "completed", written[t].status = "running"
             PROVE  RightRef(written'[t].type, written'[t].page, written'[t].ref)
  BY DEF Honoured
<1>1. WritePage
  BY OnlyWriting DEF BlueprintInv
<1>2. PICK u \in DOMAIN written, status \in {"completed", "failed"} :
           /\ written[u].status = "running"
           /\ \A v \in DOMAIN written : v # u => written'[v] = written[v]
           /\ written'[u].page = written[u].page /\ written'[u].type = written[u].type
           /\ written'[u].status = status
           /\ status = "completed" => written'[u].ref = Injected(u)
  BY <1>1, PageWritten DEF BlueprintInv
<1>3. t = u
  BY <1>2
<1>4. /\ written'[t].page = written[t].page /\ written'[t].type = written[t].type
      /\ written'[t].ref = Injected(t)
  BY <1>2, <1>3
<1>5. RightRef(written[t].type, written[t].page, Injected(t))
  BY InjectedRight DEF BlueprintInv
<1>6. QED
  BY <1>4, <1>5

LEMMA InitBlueprintInv == BlueprintInit => BlueprintInv
<1> SUFFICES ASSUME BlueprintInit
             PROVE  BlueprintInv
  OBVIOUS
<1>1. BlueprintRows /\ Placed /\ ListTried /\ ReadTried
  BY InitRows, InitRunInv DEF RunInv
<1>2. siterun.at # "open" /\ DOMAIN written = {}
  BY DEF BlueprintInit
<1>3. ChosenFits /\ DefaultsFit
  BY DEF BlueprintInit, ChosenFits, DefaultsFit
<1>4. QED
  BY <1>1, <1>2, <1>3 DEF BlueprintInv, NumberHolds, PagesKnown

LEMMA BlueprintInvStep == BlueprintInv /\ [BlueprintNext]_blueprintVars => BlueprintInv'
<1> SUFFICES ASSUME BlueprintInv, [BlueprintNext]_blueprintVars
             PROVE  BlueprintInv'
  OBVIOUS
<1>1. BlueprintRows' /\ Recorded
  BY RowsStep, AllRecorded DEF BlueprintInv
<1>2. Placed' /\ ListTried' /\ ReadTried'
  BY RunInvStep DEF BlueprintInv, RunInv
<1>3. NumberHolds' /\ PagesKnown'
  BY NumberStep, KnownStep DEF BlueprintInv
<1>4. ChosenFits' /\ DefaultsFit'
  BY <1>1, ChosenStep, DefaultsStep DEF BlueprintInv
<1>5. QED
  BY <1>1, <1>2, <1>3, <1>4 DEF BlueprintInv

\* A page whose preset searches is written from no reference; any other from the one of the
\* project, or else of its page, unless someone edited the reference or the page since; and
\* none from one of another type (inject_legal_template_vars).
THEOREM ReferenceHonoured == BlueprintSpec => ChoiceHonoured
<1>1. BlueprintInv /\ [BlueprintNext]_blueprintVars => [Honoured]_blueprintVars
  BY HonouredStep
<1>2. [Honoured]_blueprintVars =>
        [\A t \in DOMAIN written :
           written'[t].status = "completed" /\ written[t].status = "running" =>
             LET w == written'[t]
                 choice == IF w.type \in LegalTypes THEN chosen[w.type] ELSE NoRef
             IN /\ w.ref # NoRef => reference[w.ref].type = w.type
                /\ choice \notin edits.refs \cup {NoRef} =>
                     w.ref = IF siterun.serp THEN NoRef ELSE choice
                /\ w.page \notin edits.pages /\ w.type \in LegalTypes =>
                     /\ blueprint[w.page].serp => w.ref = NoRef
                     /\ /\ choice = NoRef /\ blueprint[w.page].default \notin edits.refs
                        /\ ~blueprint[w.page].serp
                        => w.ref = blueprint[w.page].default]_blueprintVars
  BY DEF Honoured, RightRef
<1>3. QED
  BY <1>1, <1>2, InitBlueprintInv, BlueprintInvStep, PTL DEF BlueprintSpec, ChoiceHonoured
=============================================================================
