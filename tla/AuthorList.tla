------------------------------- MODULE AuthorList -------------------------------
(* The list of authors and its cache (app/api/authors.py): a list request is  *)
(* a thread that takes the time, looks into the cache under its lock, reads   *)
(* the database without the lock and stores what it read with the time it     *)
(* began; a change commits, clears the cache and answers.                     *)
EXTENDS Integers

CONSTANTS
  ListReaders,  \* list requests in progress at a time
  ListWriters,  \* changes in progress at a time
  Ttl,          \* _CACHE_TTL_SEC, in ticks
  LastTick,     \* bound on time
  MaxChanges    \* bound on the changes

ASSUME AuthorConstants == Ttl \in Nat /\ LastTick \in Nat /\ MaxChanges \in Nat

VARIABLES
  tick,      \* time.monotonic()
  authors,   \* how many changes are committed; those answered, with their ticks; and the
             \* last one that no list request was in the middle of when it was answered
  cached,    \* the cache entry: the time in it, and how many of the changes it shows
  reading,   \* per list request: where it is, when it began, what it has read
  changing   \* per change: its number once it is committed

authorVars == <<tick, authors, cached, reading, changing>>

NoList == [there |-> FALSE, time |-> 0, shows |-> 0]
NoRead == [at |-> "none", now |-> 0, shows |-> 0]

AuthorInit ==
  /\ tick = 0
  /\ authors = [committed |-> 0, answered |-> {}, lone |-> 0]
  /\ cached = NoList
  /\ reading = [r \in ListReaders |-> NoRead]
  /\ changing = [w \in ListWriters |-> 0]

-----------------------------------------------------------------------------
(* get_authors.                                                            *)

AskList(r) ==
  /\ reading[r].at = "none"
  /\ reading' = [reading EXCEPT ![r] = [at |-> "lookup", now |-> tick, shows |-> 0]]
  /\ UNCHANGED <<tick, authors, cached, changing>>

\* An entry that is too old is deleted.
LookInto(r) ==
  /\ reading[r].at = "lookup"
  /\ IF cached.there /\ reading[r].now - cached.time <= Ttl
     THEN /\ reading' = [reading EXCEPT ![r].at = "answered", ![r].shows = cached.shows]
          /\ UNCHANGED cached
     ELSE /\ reading' = [reading EXCEPT ![r].at = "build"]
          /\ cached' = NoList
  /\ UNCHANGED <<tick, authors, changing>>

ReadAuthors(r) ==
  /\ reading[r].at = "build"
  /\ reading' = [reading EXCEPT ![r].at = "store", ![r].shows = authors.committed]
  /\ UNCHANGED <<tick, authors, cached, changing>>

\* Mutant of KeepList: with the time of the store.
KeepFromNow(r) ==
  /\ reading[r].at = "store"
  /\ cached' = [there |-> TRUE, time |-> tick, shows |-> reading[r].shows]
  /\ reading' = [reading EXCEPT ![r].at = "answered"]
  /\ UNCHANGED <<tick, authors, changing>>

KeepList(r) ==
  /\ reading[r].at = "store"
  /\ cached' = [there |-> TRUE, time |-> reading[r].now, shows |-> reading[r].shows]
  /\ reading' = [reading EXCEPT ![r].at = "answered"]
  /\ UNCHANGED <<tick, authors, changing>>

GiveList(r) ==
  /\ reading[r].at = "answered"
  /\ reading' = [reading EXCEPT ![r] = NoRead]
  /\ UNCHANGED <<tick, authors, cached, changing>>

-----------------------------------------------------------------------------
(* create_author, update_author, delete_author.                            *)

ChangeAuthor(w) ==
  /\ changing[w] = 0 /\ authors.committed < MaxChanges
  /\ authors' = [authors EXCEPT !.committed = @ + 1]
  /\ changing' = [changing EXCEPT ![w] = authors.committed + 1]
  /\ UNCHANGED <<tick, cached, reading>>

Answering(w) ==
  authors' = [authors EXCEPT
    !.answered = @ \cup {[change |-> changing[w], tick |-> tick]},
    !.lone = IF (\A r \in ListReaders : reading[r].at \notin {"build", "store"}) /\ changing[w] > @
             THEN changing[w] ELSE @]

\* Mutant of ClearList: nothing is cleared.
AnswerOnly(w) ==
  /\ changing[w] # 0
  /\ Answering(w)
  /\ changing' = [changing EXCEPT ![w] = 0]
  /\ UNCHANGED <<tick, cached, reading>>

ClearList(w) ==
  /\ changing[w] # 0
  /\ cached' = NoList
  /\ Answering(w)
  /\ changing' = [changing EXCEPT ![w] = 0]
  /\ UNCHANGED <<tick, reading>>

PassTime ==
  /\ tick < LastTick
  /\ tick' = tick + 1
  /\ UNCHANGED <<authors, cached, reading, changing>>

AuthorNext ==
  \/ \E r \in ListReaders :
       AskList(r) \/ LookInto(r) \/ ReadAuthors(r) \/ KeepList(r) \/ GiveList(r)
  \/ \E w \in ListWriters : ChangeAuthor(w) \/ ClearList(w)
  \/ PassTime

AuthorSpec == AuthorInit /\ [][AuthorNext]_authorVars

-----------------------------------------------------------------------------
AuthorTypeOK ==
  /\ tick \in 0..LastTick
  /\ authors.committed \in 0..MaxChanges /\ authors.lone \in 0..authors.committed
  /\ cached.time \in 0..tick /\ cached.shows \in 0..authors.committed
  /\ \A r \in ListReaders :
       /\ reading[r].at \in {"none", "lookup", "build", "store", "answered"}
       /\ reading[r].now \in 0..tick /\ reading[r].shows \in 0..authors.committed
  /\ changing \in [ListWriters -> 0..authors.committed]

\* A list shows every change that was answered more than the TTL before the list was asked
\* for, however long requests take in between (authors.py:119-134).
OldChangesShown ==
  \A r \in ListReaders : reading[r].at = "answered" =>
    \A a \in authors.answered : a.tick + Ttl < reading[r].now => a.change <= reading[r].shows

\* A change that no list request was in the middle of is never hidden by the cache: only a
\* request that read before the commit and stores after the clearing can hide one, until
\* the TTL is over (authors.py:131-145).
LoneChangeShown == cached.there => cached.shows >= authors.lone

\* The list is never older than the cache promises, both ways (authors.py:120-142).
ListFresh == OldChangesShown /\ LoneChangeShown
=============================================================================
