------------------------------ MODULE PromptStore ------------------------------
(* The prompts of the agents and the presets that pin versions of them        *)
(* (app/api/prompts.py, prompt_presets.py, services/prompt_presets.py).  A    *)
(* save is one transaction of a query, an UPDATE of all rows of the agent and *)
(* an INSERT; the migrations drop the unique index on the active row, so      *)
(* nothing but this transaction keeps an agent at one active prompt.          *)
(* PostgreSQL runs it at READ COMMITTED: an UPDATE waits for the rows another *)
(* transaction holds, and does not see the row that one inserts.              *)
EXTENDS Integers, Sequences, FiniteSets

CONSTANTS
  Agents,
  FallsBack,   \* the agent that takes the prompt of another if it has none
  FallBackTo,  \* that other one
  Presets,     \* presets that may exist, by name
  Editors,     \* requests that may be in progress at a time
  MaxSaves     \* bound on the requests

ASSUME PromptConstants == {FallsBack, FallBackTo} \subseteq Agents /\ MaxSaves \in Nat

VARIABLES
  prompts,  \* the rows, oldest first
  preset,   \* per name: is it there, the version it pins per agent, and whose request it was
  edit,     \* per editor: the transaction
  saves     \* requests so far

promptVars == <<prompts, preset, edit, saves>>

Rows == DOMAIN prompts
Of(agent) == {i \in Rows : prompts[i].agent = agent}
Alive(agent) == {i \in Of(agent) : prompts[i].active}
NoItems == [a \in Agents |-> 0]
NoPreset == [there |-> FALSE, items |-> NoItems]
NoEdit == [at |-> "none", agent |-> FallsBack, source |-> 0, version |-> 0, rows |-> {},
           name |-> "none", items |-> NoItems, new |-> FALSE, alone |-> TRUE]

PromptInit ==
  /\ prompts = <<>>
  /\ preset = [p \in Presets |-> NoPreset]
  /\ edit = [e \in Editors |-> NoEdit]
  /\ saves = 0

InEdit == {e \in Editors : edit[e].at # "none"}
Open(e, r) ==
  /\ e \notin InEdit /\ saves < MaxSaves
  /\ saves' = saves + 1
  /\ edit' = [d \in Editors |-> IF d = e THEN [r EXCEPT !.alone = InEdit = {}]
                                ELSE IF d \in InEdit THEN [edit[d] EXCEPT !.alone = FALSE]
                                ELSE NoEdit]

Closed(e) == edit' = [edit EXCEPT ![e] = NoEdit]

-----------------------------------------------------------------------------
(* Saving a prompt.                                                        *)

\* Mutant of NextVersion: a restored version counts on from its source.
NextAfterSource(agent, source) ==
  IF source = 0 THEN 1 + Cardinality(Of(agent)) ELSE prompts[source].version + 1

NextVersion(agent, source) ==
  IF Of(agent) = {} THEN 1
  ELSE 1 + CHOOSE v \in {prompts[i].version : i \in Of(agent)} :
             \A i \in Of(agent) : prompts[i].version <= v

\* create_prompt, or restore of a version: both make a new row.
CreatePrompt(e) ==
  /\ \E agent \in Agents :
       Open(e, [NoEdit EXCEPT !.at = "update", !.agent = agent, !.version = NextVersion(agent, 0)])
  /\ UNCHANGED <<prompts, preset>>

RestorePrompt(e) ==
  /\ \E source \in Rows :
       Open(e, [NoEdit EXCEPT !.at = "update", !.agent = prompts[source].agent, !.source = source,
                              !.version = NextVersion(prompts[source].agent, source)])
  /\ UNCHANGED <<prompts, preset>>

\* Mutant of Deactivate: the deactivation is committed by itself.
DeactivateAtOnce(e) ==
  /\ edit[e].at = "update"
  /\ edit' = [edit EXCEPT ![e].at = "lock"]
  /\ prompts' = [i \in Rows |-> IF prompts[i].agent = edit[e].agent
                                THEN [prompts[i] EXCEPT !.active = FALSE] ELSE prompts[i]]
  /\ UNCHANGED <<preset, saves>>

\* The UPDATE starts: it sees the rows that are committed now.
Deactivate(e) ==
  /\ edit[e].at = "update"
  /\ edit' = [edit EXCEPT ![e].at = "lock", ![e].rows = Of(edit[e].agent)]
  /\ UNCHANGED <<prompts, preset, saves>>

\* Mutant of HoldRows: a save waits for whoever waits for the rows.
HoldRowsLast(e) ==
  /\ edit[e].at = "lock"
  /\ \A d \in Editors \ {e} :
       edit[d].at \in {"lock", "insert"} => edit[d].rows \cap edit[e].rows = {}
  /\ edit' = [edit EXCEPT ![e].at = "insert"]
  /\ UNCHANGED <<prompts, preset, saves>>

\* It has the rows, once nobody else holds one.
HoldRows(e) ==
  /\ edit[e].at = "lock"
  /\ \A d \in Editors : edit[d].at = "insert" => edit[d].rows \cap edit[e].rows = {}
  /\ edit' = [edit EXCEPT ![e].at = "insert"]
  /\ UNCHANGED <<prompts, preset, saves>>

\* The INSERT and the commit.
SavePrompt(e) ==
  /\ edit[e].at = "insert"
  /\ prompts' = Append([i \in Rows |-> IF i \in edit[e].rows
                                       THEN [prompts[i] EXCEPT !.active = FALSE] ELSE prompts[i]],
                       [agent |-> edit[e].agent, version |-> edit[e].version, active |-> TRUE])
  /\ Closed(e)
  /\ UNCHANGED <<preset, saves>>

-----------------------------------------------------------------------------
(* Presets.  That a prompt belongs to the agent it is pinned for is left to  *)
(* the user interface, and so it is here.                                   *)

Payloads == {items \in [Agents -> Rows \cup {0}] :
               \A a \in Agents : items[a] # 0 => prompts[items[a]].agent = a}

\* create_preset looks for the name; update_preset must find it.
PutPreset(e) ==
  /\ \E p \in Presets, items \in Payloads :
       Open(e, [NoEdit EXCEPT !.at = "clear", !.name = p, !.items = items,
                              !.new = ~preset[p].there])
  /\ UNCHANGED <<prompts, preset>>

\* Mutant of ClearItems: the old items stay.
ClearNothing(e) ==
  /\ edit[e].at = "clear"
  /\ edit' = [edit EXCEPT ![e].at = "put"]
  /\ UNCHANGED <<prompts, preset, saves>>

\* The DELETE of the items it sees; source: stands for none, rows for the agents' items.
ClearItems(e) ==
  /\ edit[e].at = "clear"
  /\ edit' = [edit EXCEPT ![e].at = "put",
                          ![e].rows = {preset[edit[e].name].items[a] : a \in Agents} \ {0}]
  /\ UNCHANGED <<prompts, preset, saves>>

\* The INSERTs and the commit, unless the name was taken, the preset deleted, or an agent
\* pinned, since.
WritePreset(e) ==
  /\ edit[e].at = "put"
  /\ LET p == edit[e].name
         kept == [a \in Agents |-> IF preset[p].items[a] \in edit[e].rows THEN 0
                                   ELSE preset[p].items[a]]
     IN preset' = IF edit[e].new = preset[p].there
                     \/ \E a \in Agents : edit[e].items[a] # 0 /\ kept[a] # 0
                  THEN preset
                  ELSE [preset EXCEPT ![p] = [there |-> TRUE,
                          items |-> [a \in Agents |-> IF edit[e].items[a] # 0 THEN edit[e].items[a]
                                                      ELSE kept[a]]]]
  /\ Closed(e)
  /\ UNCHANGED <<prompts, saves>>

\* delete_preset: the items go with it, and projects are left without a preset.
DeletePreset(p) ==
  /\ preset[p].there /\ saves < MaxSaves
  /\ preset' = [preset EXCEPT ![p] = NoPreset]
  /\ saves' = saves + 1
  /\ edit' = [d \in Editors |-> IF d \in InEdit THEN [edit[d] EXCEPT !.alone = FALSE] ELSE NoEdit]
  /\ UNCHANGED prompts

\* resolve_prompt_for_agent: the rows it may return to a call of the pipeline.
Resolved(p, agent) ==
  IF p \in Presets /\ preset[p].items[agent] # 0 THEN {preset[p].items[agent]}
  ELSE IF Alive(agent) = {} /\ agent = FallsBack THEN Alive(FallBackTo)
  ELSE Alive(agent)

PromptNext ==
  \/ \E e \in Editors :
       \/ CreatePrompt(e) \/ RestorePrompt(e) \/ Deactivate(e) \/ HoldRows(e) \/ SavePrompt(e)
       \/ PutPreset(e) \/ ClearItems(e) \/ WritePreset(e)
  \/ \E p \in Presets : DeletePreset(p)

\* A transaction that waits for nobody goes on.
PromptFairness ==
  \A e \in Editors : WF_promptVars(Deactivate(e) \/ HoldRows(e) \/ SavePrompt(e))

PromptSpec == PromptInit /\ [][PromptNext]_promptVars /\ PromptFairness

-----------------------------------------------------------------------------
PromptTypeOK ==
  /\ prompts \in Seq([agent : Agents, version : Nat \ {0}, active : BOOLEAN])
  /\ preset \in [Presets -> [there : BOOLEAN, items : [Agents -> 0..Len(prompts)]]]
  /\ \A e \in Editors :
       /\ edit[e].at \in {"none", "update", "lock", "insert", "clear", "put"}
       /\ edit[e].rows \subseteq Rows /\ edit[e].source \in 0..Len(prompts)
  /\ saves \in 0..MaxSaves

\* A call of the pipeline finds a prompt in every committed state once its agent, or the
\* one it falls back to, has any: also while saves overlap, wait for each other, or
\* presets are replaced and deleted (prompts.py:83-102, prompt_presets.py:12-42).
AgentServed ==
  \A p \in Presets \cup {"none"}, a \in Agents :
    Of(a) # {} \/ (a = FallsBack /\ Of(FallBackTo) # {}) => Resolved(p, a) # {}

\* What a save that overlaps no other leaves: one active prompt of the agent, and no version
\* that is as new; or a preset that pins what the request said.  Saves that overlap leave
\* two versions with one number, or mix their items (prompts.py:62-102,
\* prompt_presets.py:49-77).
LonePrompt(e) ==
  edit[e].at = "insert" /\ edit'[e].at = "none" =>
    \A a \in {edit[e].agent} :
      \E i \in Alive(a)' :
        /\ Alive(a)' = {i}
        /\ \A j \in Of(a)' \ {i} : prompts'[j].version < prompts'[i].version

LonePreset(e) ==
  edit[e].at = "put" /\ edit'[e].at = "none" => preset'[edit[e].name].items = edit[e].items

LoneSave ==
  [][\A e \in Editors : edit[e].alone => LonePrompt(e) /\ LonePreset(e)]_promptVars

\* No save waits for ever for the rows of another: MaxSaves bounds the saves, so that in
\* the end none waits.
SavesEnd == <>[](\A e \in Editors : edit[e].at # "lock")
=============================================================================
