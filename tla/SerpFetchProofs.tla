---------------------------- MODULE SerpFetchProofs ----------------------------
(* Theorems about SerpFetch for any number of tasks, any answers of the        *)
(* providers and any cache: type correctness, that the cache serves nothing    *)
(* older than an invalidation, that the fallbacks lose nothing, and that the   *)
(* URLs of one task do not reach another through a cache of copies.            *)
EXTENDS SerpFetch, FiniteSetTheorems, TLAPS

-----------------------------------------------------------------------------
(* The inductive invariant.  What ties a thread to its dict: a dict that is  *)
(* not stored yet is in the hands of its thread alone, and where the cache   *)
(* keeps copies every dict stays so.                                         *)

SerpAt == {"lookup", "google", "bing", "serpapi", "store", "read", "write", "save", "scrape", "done",
           "failed"}
AtProvider == {"google", "bing", "serpapi", "store"}
HasDict == {"store", "read", "write", "save"}

Dicts == [urls : SUBSET Urls, usable : BOOLEAN]
Threads == [at : SerpAt, tries : 0..SerpRetries, attempt : 1..SerpAttempts,
            google : {Nothing} \cup SUBSET Urls, seen : SUBSET Urls, usable : BOOLEAN,
            dict : {0} \cup Cells, since : Nat]
Entries == [dict : {0} \cup Cells, copy : Dicts, since : Nat]

SerpShape ==
  /\ serp \in [engine : Engines, cache : Caches, clears : 0..MaxClears, missed : BOOLEAN]
  /\ search \in [Searchers -> Threads] /\ heap \in [Cells -> Dicts]
  /\ entry \in {Nothing} \cup Entries /\ saved \in [Searchers -> {Nothing} \cup SUBSET Urls]

\* Nothing was asked of a provider before the last invalidation that was heard by all.
Current(since) == serp.missed \/ since = serp.clears

Copies == serp.cache # "memory"
Unshared(t) == \A s \in Searchers \ {t} : search[s].dict # search[t].dict

EntryOk ==
  entry # Nothing =>
    /\ Current(entry.since)
    /\ Copies => entry.dict = 0 /\ entry.copy.urls \subseteq UNION Answers
    /\ ~Copies => entry.dict \in Cells

\* A thread and what it has of the providers.
AskedOk(t) ==
  /\ search[t].at \in AtProvider => Current(search[t].since)
  /\ search[t].at \in {"lookup", "google"} => search[t].google = Nothing
  /\ search[t].google # Nothing =>
       /\ search[t].usable <=> search[t].google # {}
       /\ search[t].google \subseteq UNION Answers

\* A thread and its dict.
DictOk(t) ==
  /\ search[t].dict = 0 <=> search[t].at \notin HasDict
  /\ search[t].at = "store" =>
       /\ Unshared(t)
       /\ entry # Nothing => entry.dict # search[t].dict
       /\ heap[search[t].dict].usable <=> heap[search[t].dict].urls # {}
  /\ Copies /\ search[t].dict # 0 => Unshared(t)

Covers(t, us) ==
  us \subseteq UserUrls[t] \cup UNION Answers /\ DomainsOf(UserUrls[t]) \subseteq DomainsOf(us)

\* Where the cache keeps copies: what a thread holds, and what it has saved.
UrlsOk(t) ==
  Copies =>
    /\ search[t].at \in {"store", "read"} => heap[search[t].dict].urls \subseteq UNION Answers
    /\ search[t].at = "write" => search[t].seen \subseteq UNION Answers
    /\ search[t].at = "save" => Covers(t, heap[search[t].dict].urls)
    /\ saved[t] # Nothing => Covers(t, saved[t])

SerpInv ==
  /\ SerpShape /\ EntryOk
  /\ \A t \in Searchers : AskedOk(t) /\ DictOk(t) /\ UrlsOk(t)

-----------------------------------------------------------------------------
(* Lemmas about the operators.                                             *)

LEMMA CellFacts == IsFiniteSet(Searchers) /\ Cardinality(Searchers) \in Nat
                   /\ Cells = 1..(Cardinality(Searchers) + 1) /\ 0 \notin Cells
BY SerpConstants, FS_CardinalityType DEF Cells

\* There are more cells than threads and an entry can hold, if one thread holds none.
LEMMA FreeCell ==
  ASSUME SerpInv, NEW t \in Searchers, search[t].dict = 0, NEW used,
         used \subseteq Held \cup (IF entry # Nothing THEN {entry.dict} ELSE {})
  PROVE  Free(used) \in Cells \ used
<1> DEFINE f == [s \in Searchers |-> IF s # t THEN search[s].dict
                                   ELSE IF entry # Nothing THEN entry.dict ELSE 0]
           image == {f[s] : s \in Searchers}
<1>1. used \subseteq image
  <2>1. ASSUME NEW i \in Held
        PROVE  i \in image
    <3>1. PICK s \in Searchers : search[s].dict = i /\ i # 0
      BY DEF Held
    <3>2. s # t /\ f[s] = i
      BY <3>1
    <3>3. QED
      BY <3>2
  <2>2. f[t] = (IF entry # Nothing THEN entry.dict ELSE 0) /\ f[t] \in image
    OBVIOUS
  <2>3. QED
    BY <2>1, <2>2
<1>2. f \in Surjection(Searchers, image)
  BY DEF Surjection
<1> HIDE DEF f
<1>3. IsFiniteSet(image) /\ Cardinality(image) <= Cardinality(Searchers) /\ Cardinality(image) \in Nat
  BY <1>2, CellFacts, FS_Surjection, FS_CardinalityType
<1>4. Cardinality(Cells) = Cardinality(Searchers) + 1
  BY CellFacts, FS_Interval
<1>5. ~(Cells \subseteq image)
  <2>1. SUFFICES ASSUME Cells \subseteq image
                 PROVE  FALSE
    OBVIOUS
  <2>2. Cardinality(Cells) <= Cardinality(image)
    BY <1>3, <2>1, FS_Subset
  <2>3. QED
    BY <1>3, <1>4, <2>2, CellFacts
<1>6. \E i \in Cells : i \notin used
  BY <1>1, <1>5
<1>7. QED
  BY <1>6 DEF Free

LEMMA ParsesUrls ==
  ASSUME NEW raw \in Answers, NEW us \in Parses(raw)
  PROVE  us \subseteq UNION Answers /\ us \subseteq Urls
BY SerpConstants DEF Parses, Usable

LEMMA MergedUrls ==
  ASSUME NEW google \in SUBSET UNION Answers, NEW us \in SUBSET UNION Answers
  PROVE  /\ Merged(google, us) \subseteq UNION Answers /\ Merged(google, us) \subseteq Urls
         /\ Merged(google, us) = {} <=> google = {} /\ us = {}
BY SerpConstants DEF Merged

LEMMA MergesUrls ==
  ASSUME NEW primary, NEW extra, NEW us \in MergesByDomain(primary, extra)
  PROVE  us \subseteq primary \cup extra /\ DomainsOf(extra) \subseteq DomainsOf(us)
<1>1. us \subseteq primary \cup extra
  BY DEF MergesByDomain
<1>2. ASSUME NEW d \in DomainsOf(extra)
      PROVE  d \in DomainsOf(us)
  <2>1. d \in DomainsOf(primary \cup extra)
    BY DEF DomainsOf
  <2>2. Cardinality(AtDomain(us, d)) = 1
    BY <2>1 DEF MergesByDomain
  <2>3. AtDomain(us, d) # {}
    BY <2>2, FS_EmptySet
  <2>4. QED
    BY <2>3 DEF AtDomain, DomainsOf
<1>3. QED
  BY <1>1, <1>2

LEMMA AskingThread == /\ Asking \in Threads /\ Asking.at = "lookup" /\ Asking.google = Nothing
                      /\ Asking.dict = 0 /\ Asking.since = 0 /\ Asking.seen = {} /\ Asking.tries = 0
BY SerpConstants DEF Asking, Threads, SerpAt

LEMMA SerpFacts ==
  ASSUME SerpInv
  PROVE  /\ serp \in [engine : Engines, cache : Caches, clears : 0..MaxClears, missed : BOOLEAN]
         /\ search \in [Searchers -> Threads] /\ heap \in [Cells -> Dicts]
         /\ \A t \in Searchers : search[t] \in Threads
         /\ serp.clears \in Nat
BY SerpConstants DEF SerpInv, SerpShape

LEMMA SerpBegin == SerpInit => SerpInv
<1>1. SUFFICES ASSUME SerpInit
               PROVE  SerpInv
  OBVIOUS
<1>2. /\ search = [t \in Searchers |-> Asking] /\ heap = [i \in Cells |-> NoDict] /\ entry = Nothing
      /\ saved = [t \in Searchers |-> Nothing]
      /\ serp \in [engine : Engines, cache : Caches, clears : 0..MaxClears, missed : BOOLEAN]
  BY <1>1, SerpConstants DEF SerpInit
<1>3. NoDict \in Dicts
  BY DEF NoDict, Dict, Dicts
<1>4. SerpShape
  BY <1>2, <1>3, AskingThread DEF SerpShape
<1>5. EntryOk /\ \A t \in Searchers : AskedOk(t) /\ DictOk(t) /\ UrlsOk(t)
  BY <1>2, AskingThread DEF EntryOk, AskedOk, DictOk, UrlsOk, AtProvider, HasDict
<1>6. QED
  BY <1>4, <1>5 DEF SerpInv

-----------------------------------------------------------------------------
(* One thread moves.  The others are not disturbed: what they hold stays, and *)
(* what nobody shares with them stays theirs.                                 *)

LEMMA ThreadMoves ==
  ASSUME SerpInv, NEW t \in Searchers, NEW m \in Threads, search' = [search EXCEPT ![t] = m],
         serp' = serp, heap' \in [Cells -> Dicts], entry' \in {Nothing} \cup Entries,
         saved' \in [Searchers -> {Nothing} \cup SUBSET Urls],
         EntryOk', AskedOk(t)', UrlsOk(t)',
         m.dict = 0 <=> m.at \notin HasDict,
         m.at = "store" => /\ \A s \in Searchers \ {t} : search[s].dict # m.dict
                           /\ entry' # Nothing => entry'.dict # m.dict
                           /\ heap'[m.dict].usable <=> heap'[m.dict].urls # {},
         \A s \in Searchers \ {t} :
           /\ saved'[s] = saved[s]
           /\ Copies /\ m.dict # 0 => m.dict # search[s].dict
           /\ search[s].dict # 0 /\ (search[s].at = "store" \/ Copies) =>
                heap'[search[s].dict] = heap[search[s].dict]
           /\ search[s].at = "store" =>
                m.dict # search[s].dict /\ (entry' # Nothing => entry'.dict # search[s].dict)
  PROVE  SerpInv'
<1>1. search' \in [Searchers -> Threads] /\ search'[t] = m
      /\ \A s \in Searchers : s # t => search'[s] = search[s]
  BY SerpFacts
<1>2. SerpShape'
  BY <1>1, SerpFacts DEF SerpShape
<1>3. Copies' = Copies
  BY DEF Copies
<1>4. ASSUME NEW s \in Searchers
      PROVE  AskedOk(s)'
  <2>1. CASE s = t
    BY <2>1
  <2>2. CASE s # t
    BY <1>1, <2>2 DEF SerpInv, AskedOk, Current
  <2>3. QED
    BY <2>1, <2>2
<1>5. ASSUME NEW s \in Searchers
      PROVE  DictOk(s)'
  <2>1. CASE s = t
    <3>1. \A r \in Searchers \ {t} : search'[r].dict = search[r].dict
      BY <1>1
    <3>2. Copies /\ m.dict # 0 => Unshared(t)'
      BY <1>1, <3>1 DEF Unshared
    <3>3. m.at = "store" => Unshared(t)'
      BY <1>1, <3>1 DEF Unshared
    <3>4. QED
      BY <1>1, <1>3, <2>1, <3>2, <3>3 DEF DictOk
  <2>2. CASE s # t
    <3>1. search'[s] = search[s] /\ DictOk(s)
      BY <1>1, <2>2 DEF SerpInv
    <3>2. search[s].dict # 0 /\ Copies => Unshared(s)'
      <4>1. SUFFICES ASSUME search[s].dict # 0, Copies, NEW r \in Searchers \ {s}
                     PROVE  search'[r].dict # search[s].dict
        BY <3>1 DEF Unshared
      <4>2. CASE r = t
        BY <1>1, <2>2, <4>1, <4>2
      <4>3. CASE r # t
        BY <1>1, <3>1, <4>1, <4>3 DEF DictOk, Unshared
      <4>4. QED
        BY <4>2, <4>3
    <3>3. search[s].at = "store" => Unshared(s)'
      <4>1. SUFFICES ASSUME search[s].at = "store", NEW r \in Searchers \ {s}
                     PROVE  search'[r].dict # search[s].dict
        BY <3>1 DEF Unshared
      <4>2. CASE r = t
        BY <1>1, <2>2, <4>1, <4>2
      <4>3. CASE r # t
        BY <1>1, <3>1, <4>1, <4>3 DEF DictOk, Unshared
      <4>4. QED
        BY <4>2, <4>3
    <3>4. search[s].at = "store" => search[s].dict # 0
      BY <3>1 DEF DictOk, HasDict
    <3>5. QED
      BY <1>3, <2>2, <3>1, <3>2, <3>3, <3>4 DEF DictOk
  <2>3. QED
    BY <2>1, <2>2
<1>6. ASSUME NEW s \in Searchers
      PROVE  UrlsOk(s)'
  <2>1. CASE s = t
    BY <2>1
  <2>2. CASE s # t
    <3>1. search'[s] = search[s] /\ DictOk(s) /\ UrlsOk(s) /\ saved'[s] = saved[s]
      BY <1>1, <2>2 DEF SerpInv
    <3>2. search[s].at \in HasDict => search[s].dict # 0
      BY <3>1 DEF DictOk
    <3>3. search[s].at \in HasDict /\ Copies => heap'[search[s].dict] = heap[search[s].dict]
      BY <2>2, <3>2
    <3>4. QED
      BY <1>3, <3>1, <3>3 DEF UrlsOk, Covers, HasDict
  <2>3. QED
    BY <2>1, <2>2
<1>7. QED
  BY <1>2, <1>4, <1>5, <1>6 DEF SerpInv

\* A move that touches nothing but the thread, and makes no dict.
LEMMA OnlyThread ==
  ASSUME SerpInv, NEW t \in Searchers, NEW m \in Threads, search' = [search EXCEPT ![t] = m],
         UNCHANGED <<serp, heap, entry>>, m.at # "store",
         saved' \in [Searchers -> {Nothing} \cup SUBSET Urls],
         \A s \in Searchers \ {t} : saved'[s] = saved[s],
         AskedOk(t)', UrlsOk(t)',
         m.dict = 0 <=> m.at \notin HasDict, m.dict # 0 => m.dict = search[t].dict
  PROVE  SerpInv'
<1>1. heap' \in [Cells -> Dicts] /\ entry' \in {Nothing} \cup Entries /\ EntryOk'
  BY SerpFacts DEF SerpInv, SerpShape, EntryOk, Current, Copies
<1>2. ASSUME NEW s \in Searchers \ {t}
      PROVE  /\ saved'[s] = saved[s]
             /\ Copies /\ m.dict # 0 => m.dict # search[s].dict
             /\ search[s].dict # 0 /\ (search[s].at = "store" \/ Copies) =>
                  heap'[search[s].dict] = heap[search[s].dict]
             /\ search[s].at = "store" =>
                  m.dict # search[s].dict /\ (entry' # Nothing => entry'.dict # search[s].dict)
  <2>1. DictOk(s) /\ DictOk(t) /\ s # t
    BY DEF SerpInv
  <2>2. search[s].at = "store" => search[s].dict # 0
    BY <2>1 DEF DictOk, HasDict
  <2>3. QED
    BY <2>1, <2>2 DEF DictOk, Unshared
<1>3. QED
  BY <1>1, <1>2, ThreadMoves

\* A thread whose dict was made by nobody else.
LEMMA Asks ==
  ASSUME SerpInv, NEW t \in Searchers, search[t].at \notin HasDict
  PROVE  search[t].dict = 0 /\ search[t] \in Threads
BY SerpFacts DEF SerpInv, DictOk

LEMMA SerpFailsStep ==
  ASSUME SerpInv, NEW t \in Searchers, SerpFails(t), UNCHANGED <<serp, entry, saved>>
  PROVE  SerpInv'
<1> DEFINE tries == Fewer(search[t].tries + 1, SerpRetries)
           m == [Asking EXCEPT !.at = IF search[t].tries < SerpRetries THEN "lookup" ELSE "failed",
                               !.tries = tries]
<1>1. search' = [search EXCEPT ![t] = m] /\ UNCHANGED <<serp, heap, entry, saved>>
  BY DEF SerpFails
<1>2. tries \in 0..SerpRetries
  BY SerpFacts, SerpConstants DEF Fewer, Threads
<1>3. /\ m \in Threads /\ m.at \in {"lookup", "failed"} /\ m.google = Nothing /\ m.dict = 0
  BY <1>2, AskingThread DEF Threads, SerpAt
<1> HIDE DEF m
<1>4. search'[t] = m
  BY <1>1, SerpFacts
<1>5. AskedOk(t)' /\ UrlsOk(t)'
  BY <1>1, <1>3, <1>4 DEF SerpInv, AskedOk, UrlsOk, AtProvider, Copies, Covers
<1>6. QED
  BY <1>1, <1>3, <1>5, OnlyThread DEF HasDict, SerpInv, SerpShape

\* A fetch returns: its dict is new.
LEMMA FetchedStep ==
  ASSUME SerpInv, NEW t \in Searchers, search[t].at \in AtProvider \ {"store"},
         NEW us, us \subseteq UNION Answers, us \subseteq Urls,
         NEW usable \in BOOLEAN, usable <=> us # {},
         Fetched(t, us, usable), UNCHANGED <<serp, entry, saved>>
  PROVE  SerpInv'
<1> DEFINE used == Held \cup (IF entry # Nothing THEN {entry.dict} ELSE {})
           i == Free(used)
           m == [search[t] EXCEPT !.at = "store", !.dict = i, !.google = Nothing,
                                  !.attempt = 1, !.usable = FALSE]
<1>1. search' = [search EXCEPT ![t] = m] /\ heap' = [Swept(heap, used) EXCEPT ![i] = Dict(us, usable)]
  BY DEF Fetched
<1>2. search[t].dict = 0 /\ search[t] \in Threads /\ Current(search[t].since)
  BY Asks DEF AtProvider, HasDict, SerpInv, AskedOk
<1>3. i \in Cells /\ i \notin used
  BY <1>2, FreeCell
<1> HIDE DEF i
<1>4. m \in Threads /\ m.at = "store" /\ m.dict = i /\ m.google = Nothing /\ m.since = search[t].since
  <2>1. 1 \in 1..SerpAttempts /\ i \in {0} \cup Cells /\ Nothing \in {Nothing} \cup SUBSET Urls
    BY <1>3, SerpConstants
  <2>2. QED
    BY <1>2, <2>1 DEF Threads, SerpAt
<1> HIDE DEF m
<1>5. Dict(us, usable) \in Dicts /\ Dict(us, usable).urls = us /\ Dict(us, usable).usable = usable
      /\ NoDict \in Dicts
  BY DEF Dict, Dicts, NoDict
<1>6. Swept(heap, used) \in [Cells -> Dicts] /\ \A j \in used : j \in Cells => Swept(heap, used)[j] = heap[j]
  BY <1>5, SerpFacts DEF Swept
<1>7. heap' \in [Cells -> Dicts] /\ heap'[i] = Dict(us, usable)
      /\ \A j \in used : j \in Cells => heap'[j] = heap[j]
  BY <1>1, <1>3, <1>5, <1>6
<1>8. search'[t] = m
  BY <1>1, SerpFacts
<1>9. \A s \in Searchers : search[s].dict # 0 => search[s].dict \in used /\ search[s].dict \in Cells
  BY SerpFacts DEF Held, Threads
<1>10. entry # Nothing => entry.dict # i
  BY <1>3
<1>11. ASSUME NEW s \in Searchers \ {t}
       PROVE  /\ search[s].dict # i
              /\ search[s].dict # 0 => heap'[search[s].dict] = heap[search[s].dict]
              /\ search[s].at = "store" => (entry' # Nothing => entry'.dict # search[s].dict)
  <2>1. search[s].dict # i
    BY <1>3, <1>9, CellFacts
  <2>2. DictOk(s)
    BY DEF SerpInv
  <2>3. QED
    BY <1>7, <1>9, <2>1, <2>2 DEF DictOk
<1>12. AskedOk(t)'
  BY <1>2, <1>4, <1>8 DEF AskedOk, Current
<1>13. UrlsOk(t)'
  BY <1>4, <1>5, <1>7, <1>8 DEF SerpInv, UrlsOk, Copies, Covers
<1>14. EntryOk' /\ entry' \in {Nothing} \cup Entries /\ saved' \in [Searchers -> {Nothing} \cup SUBSET Urls]
  BY DEF SerpInv, SerpShape, EntryOk, Current, Copies
<1> HIDE DEF used
<1>15. m.dict # 0 /\ m.at \in HasDict
  BY <1>3, <1>4, CellFacts DEF HasDict
<1>16. /\ \A s \in Searchers \ {t} : search[s].dict # m.dict
       /\ entry' # Nothing => entry'.dict # m.dict
       /\ heap'[m.dict].usable <=> heap'[m.dict].urls # {}
  BY <1>4, <1>5, <1>7, <1>10, <1>11
<1>17. \A s \in Searchers \ {t} :
         /\ saved'[s] = saved[s]
         /\ Copies /\ m.dict # 0 => m.dict # search[s].dict
         /\ search[s].dict # 0 /\ (search[s].at = "store" \/ Copies) =>
              heap'[search[s].dict] = heap[search[s].dict]
         /\ search[s].at = "store" =>
              m.dict # search[s].dict /\ (entry' # Nothing => entry'.dict # search[s].dict)
  BY <1>4, <1>11
<1>18. QED
  BY <1>1, <1>4, <1>7, <1>12, <1>13, <1>14, <1>15, <1>16, <1>17, ThreadMoves

-----------------------------------------------------------------------------
(* Every action.                                                           *)

LEMMA LookUpStep ==
  ASSUME SerpInv, NEW t \in Searchers, LookUp(t)
  PROVE  SerpInv'
<1>1. /\ search[t].at = "lookup" /\ UNCHANGED <<serp, entry, saved>> /\ search[t] \in Threads
      /\ search[t].dict = 0 /\ search[t].google = Nothing
  BY Asks DEF LookUp, HasDict, SerpInv, AskedOk
<1>2. /\ EntryOk' /\ entry' \in {Nothing} \cup Entries
      /\ saved' \in [Searchers -> {Nothing} \cup SUBSET Urls]
      /\ entry # Nothing => entry \in Entries
  BY <1>1 DEF SerpInv, SerpShape, EntryOk, Current, Copies
<1>3. CASE serp.cache = "memory" /\ entry # Nothing /\ UNCHANGED heap
           /\ search' = [search EXCEPT ![t].at = "read", ![t].dict = entry.dict]
  <2> DEFINE m == [search[t] EXCEPT !.at = "read", !.dict = entry.dict]
  <2>1. entry.dict \in Cells /\ ~Copies
    BY <1>3 DEF SerpInv, EntryOk, Copies
  <2>2. m \in Threads /\ m.at = "read" /\ m.dict = entry.dict /\ m.google = Nothing
    BY <1>1, <2>1 DEF Threads, SerpAt
  <2>3. search' = [search EXCEPT ![t] = m]
    BY <1>3
  <2> HIDE DEF m
  <2>4. search'[t] = m
    BY <2>3, SerpFacts
  <2>5. AskedOk(t)' /\ UrlsOk(t)'
    BY <1>1, <2>1, <2>2, <2>4 DEF AskedOk, UrlsOk, AtProvider, Copies
  <2>6. m.dict # 0 /\ m.at \in HasDict /\ heap' \in [Cells -> Dicts]
    BY <1>3, <2>1, <2>2, CellFacts, SerpFacts DEF HasDict
  <2>7. \A s \in Searchers \ {t} : search[s].at = "store" => entry.dict # search[s].dict
    BY <1>3 DEF SerpInv, DictOk
  <2>8. \A s \in Searchers \ {t} :
          /\ saved'[s] = saved[s]
          /\ Copies /\ m.dict # 0 => m.dict # search[s].dict
          /\ search[s].dict # 0 /\ (search[s].at = "store" \/ Copies) =>
               heap'[search[s].dict] = heap[search[s].dict]
          /\ search[s].at = "store" =>
               m.dict # search[s].dict /\ (entry' # Nothing => entry'.dict # search[s].dict)
    BY <1>1, <1>3, <2>1, <2>2, <2>7
  <2>9. serp' = serp /\ m.at # "store"
    BY <1>1, <2>2
  <2>10. QED
    BY <1>2, <2>2, <2>3, <2>5, <2>6, <2>8, <2>9, ThreadMoves
<1>4. CASE serp.cache = "redis" /\ entry # Nothing /\ heap' = [heap EXCEPT ![Free(Held)] = entry.copy]
           /\ search' = [search EXCEPT ![t].at = "read", ![t].dict = Free(Held)]
  <2> DEFINE i == Free(Held)
             m == [search[t] EXCEPT !.at = "read", !.dict = i]
  <2>1. i \in Cells /\ i \notin Held /\ i # 0
    BY <1>1, FreeCell, CellFacts
  <2>2. search' = [search EXCEPT ![t] = m] /\ heap' = [heap EXCEPT ![i] = entry.copy]
    BY <1>4
  <2> HIDE DEF i
  <2>3. m \in Threads /\ m.at = "read" /\ m.dict = i /\ m.google = Nothing
    BY <1>1, <2>1 DEF Threads, SerpAt
  <2> HIDE DEF m
  <2>4. search'[t] = m
    BY <2>2, SerpFacts
  <2>5. entry.copy \in Dicts /\ entry.copy.urls \subseteq UNION Answers /\ entry.dict = 0 /\ Copies
    BY <1>2, <1>4 DEF Entries, SerpInv, EntryOk, Copies
  <2>6. heap' \in [Cells -> Dicts] /\ heap'[i] = entry.copy /\ \A j \in Cells : j # i => heap'[j] = heap[j]
    BY <2>1, <2>2, <2>5, SerpFacts
  <2>7. \A s \in Searchers : /\ search[s].dict \in {0} \cup Cells
                           /\ search[s].dict # i
    BY <2>1, SerpFacts DEF Held, Threads
  <2>8. AskedOk(t)' /\ UrlsOk(t)'
    BY <1>1, <2>3, <2>4, <2>5, <2>6 DEF SerpInv, AskedOk, UrlsOk, AtProvider, Copies, Covers
  <2>9. m.dict # 0 /\ m.at \in HasDict /\ m.at # "store"
    BY <2>1, <2>3 DEF HasDict
  <2>10. \A s \in Searchers \ {t} :
           /\ saved'[s] = saved[s]
           /\ Copies /\ m.dict # 0 => m.dict # search[s].dict
           /\ search[s].dict # 0 /\ (search[s].at = "store" \/ Copies) =>
                heap'[search[s].dict] = heap[search[s].dict]
           /\ search[s].at = "store" =>
                m.dict # search[s].dict /\ (entry' # Nothing => entry'.dict # search[s].dict)
    <3>1. \A s \in Searchers : search[s].at = "store" => search[s].dict # 0
      BY DEF SerpInv, DictOk, HasDict
    <3>2. QED
      BY <1>1, <2>3, <2>5, <2>6, <2>7, <3>1
  <2>11. QED
    BY <1>1, <1>2, <2>2, <2>3, <2>6, <2>8, <2>9, <2>10, ThreadMoves
<1>5. CASE /\ search' = [search EXCEPT ![t].at = IF serp.engine = "bing" THEN "bing" ELSE "google",
                                       ![t].since = serp.clears]
           /\ UNCHANGED heap
  <2> DEFINE m == [search[t] EXCEPT !.at = IF serp.engine = "bing" THEN "bing" ELSE "google",
                                    !.since = serp.clears]
  <2>1. /\ m \in Threads /\ m.at \in {"bing", "google"} /\ m.dict = 0 /\ m.google = Nothing
        /\ m.since = serp.clears
    BY <1>1, SerpFacts DEF Threads, SerpAt
  <2>2. search' = [search EXCEPT ![t] = m]
    BY <1>5
  <2> HIDE DEF m
  <2>3. search'[t] = m
    BY <2>2, SerpFacts
  <2>4. AskedOk(t)' /\ UrlsOk(t)'
    BY <1>1, <1>5, <2>1, <2>3 DEF SerpInv, AskedOk, UrlsOk, AtProvider, Copies, Covers, Current
  <2>5. QED
    BY <1>1, <1>2, <1>5, <2>1, <2>2, <2>4, OnlyThread DEF HasDict
<1>6. QED
  BY <1>3, <1>4, <1>5 DEF LookUp

LEMMA TakeUserUrlsStep ==
  ASSUME SerpInv, NEW t \in Searchers, TakeUserUrls(t)
  PROVE  SerpInv'
<1> DEFINE m == [search[t] EXCEPT !.at = "scrape"]
<1>1. /\ search[t].at = "lookup" /\ UNCHANGED <<serp, heap, entry>> /\ search' = [search EXCEPT ![t] = m]
      /\ saved' = [saved EXCEPT ![t] = UserUrls[t]]
  BY DEF TakeUserUrls, Go
<1>2. search[t] \in Threads /\ search[t].dict = 0 /\ search[t].google = Nothing
  BY <1>1, Asks DEF HasDict, SerpInv, AskedOk
<1>3. m \in Threads /\ m.at = "scrape" /\ m.dict = 0 /\ m.google = Nothing
  BY <1>2 DEF Threads, SerpAt
<1> HIDE DEF m
<1>4. search'[t] = m
  BY <1>1, SerpFacts
<1>5. UserUrls[t] \subseteq Urls
  BY SerpConstants
<1>6. /\ saved' \in [Searchers -> {Nothing} \cup SUBSET Urls] /\ saved'[t] = UserUrls[t]
      /\ \A s \in Searchers \ {t} : saved'[s] = saved[s]
  BY <1>1, <1>5 DEF SerpInv, SerpShape
<1>7. AskedOk(t)' /\ UrlsOk(t)'
  BY <1>3, <1>4, <1>6 DEF AskedOk, UrlsOk, AtProvider, Copies, Covers
<1>8. QED
  BY <1>1, <1>3, <1>6, <1>7, OnlyThread DEF HasDict

\* A thread goes on to ask, with what it has been told so far.
LEMMA AsksOn ==
  ASSUME SerpInv, NEW t \in Searchers, search[t].at \in {"google", "bing", "serpapi"},
         NEW m \in Threads, search' = [search EXCEPT ![t] = m], UNCHANGED <<serp, heap, entry, saved>>,
         m.at \in {"google", "bing", "serpapi"}, m.dict = search[t].dict, m.since = search[t].since,
         m.at = "google" => m.google = Nothing,
         m.google # Nothing => (m.usable <=> m.google # {}) /\ m.google \subseteq UNION Answers
  PROVE  SerpInv'
<1>1. search'[t] = m /\ search[t].dict = 0 /\ Current(search[t].since)
  BY SerpFacts, Asks DEF HasDict, SerpInv, AskedOk, AtProvider
<1>2. AskedOk(t)' /\ UrlsOk(t)'
  BY <1>1 DEF SerpInv, AskedOk, UrlsOk, AtProvider, Copies, Covers, Current
<1>3. saved' \in [Searchers -> {Nothing} \cup SUBSET Urls] /\ \A s \in Searchers \ {t} : saved'[s] = saved[s]
  BY DEF SerpInv, SerpShape
<1>4. QED
  BY <1>1, <1>2, <1>3, OnlyThread DEF HasDict

LEMMA AskGoogleStep ==
  ASSUME SerpInv, NEW t \in Searchers, AskGoogle(t)
  PROVE  SerpInv'
<1> DEFINE next == IF serp.engine = "google" THEN "serpapi" ELSE "bing"
<1>1. search[t].at = "google" /\ search[t].google = Nothing /\ search[t] \in Threads
      /\ UNCHANGED <<serp, entry, saved>> /\ next \in {"serpapi", "bing"}
  BY SerpFacts DEF AskGoogle, SerpInv, AskedOk
<1> HIDE DEF next
<1>2. CASE search' = [search EXCEPT ![t].at = next] /\ UNCHANGED heap
  <2> DEFINE m == [search[t] EXCEPT !.at = next]
  <2>1. m \in Threads /\ m.at \in {"bing", "serpapi"} /\ m.dict = search[t].dict
        /\ m.since = search[t].since /\ m.google = Nothing
    BY <1>1 DEF Threads, SerpAt
  <2>2. search' = [search EXCEPT ![t] = m]
    BY <1>2
  <2> HIDE DEF m
  <2>3. QED
    BY <1>1, <1>2, <2>1, <2>2, AsksOn
<1>3. ASSUME NEW raw \in Answers, NEW us \in Parses(raw), us # {}, Fetched(t, us, TRUE)
      PROVE  SerpInv'
  BY <1>1, <1>3, ParsesUrls, FetchedStep DEF AtProvider
<1>4. ASSUME NEW raw \in Answers, NEW us \in Parses(raw), UNCHANGED heap,
             search' = [search EXCEPT ![t].at = next, ![t].google = us, ![t].usable = us # {}]
      PROVE  SerpInv'
  <2> DEFINE usable == us # {}
             m == [search[t] EXCEPT !.at = next, !.google = us, !.usable = usable]
  <2>1. us \subseteq UNION Answers /\ us \in {Nothing} \cup SUBSET Urls /\ usable \in BOOLEAN
    BY ParsesUrls
  <2>2. search' = [search EXCEPT ![t] = m]
    BY <1>4
  <2> HIDE DEF usable
  <2>3. m \in Threads /\ m.at \in {"bing", "serpapi"} /\ m.dict = search[t].dict
        /\ m.since = search[t].since /\ m.google = us /\ m.usable = usable
    BY <1>1, <2>1 DEF Threads, SerpAt
  <2> HIDE DEF m
  <2>4. m.usable <=> m.google # {}
    BY <2>3 DEF usable
  <2>5. QED
    BY <1>1, <1>4, <2>1, <2>2, <2>3, <2>4, AsksOn
<1>5. QED
  BY <1>2, <1>3, <1>4 DEF AskGoogle, next

LEMMA AskBingStep ==
  ASSUME SerpInv, NEW t \in Searchers, AskBing(t)
  PROVE  SerpInv'
<1> DEFINE google == search[t].google
<1>1. /\ search[t].at = "bing" /\ search[t] \in Threads /\ UNCHANGED <<serp, entry, saved>>
      /\ google # Nothing => /\ google \subseteq UNION Answers /\ google \subseteq Urls
                            /\ search[t].usable <=> google # {}
      /\ search[t].usable \in BOOLEAN
  BY SerpFacts DEF AskBing, SerpInv, AskedOk, Threads
<1>2. CASE SerpFails(t)
  BY <1>1, <1>2, SerpFailsStep
<1>3. CASE google # Nothing /\ Fetched(t, google, search[t].usable)
  BY <1>1, <1>3, FetchedStep DEF AtProvider
<1>4. ASSUME NEW raw \in Answers, NEW us \in Parses(raw), google # Nothing,
             Fetched(t, Merged(google, us), search[t].usable \/ us # {})
      PROVE  SerpInv'
  <2> DEFINE usable == search[t].usable \/ us # {}
             merged == Merged(google, us)
  <2>1. us \in SUBSET UNION Answers /\ google \in SUBSET UNION Answers
    BY <1>1, <1>4, ParsesUrls
  <2>2. /\ merged \subseteq UNION Answers /\ merged \subseteq Urls
        /\ merged = {} <=> google = {} /\ us = {}
    BY <2>1, MergedUrls
  <2>3. usable \in BOOLEAN /\ (usable <=> merged # {}) /\ Fetched(t, merged, usable)
    BY <1>1, <1>4, <2>2
  <2> HIDE DEF usable, merged
  <2>4. QED
    BY <1>1, <2>2, <2>3, FetchedStep DEF AtProvider
<1>5. ASSUME NEW raw \in Answers, NEW us \in Parses(raw), Fetched(t, us, us # {})
      PROVE  SerpInv'
  <2> DEFINE usable == us # {}
  <2>1. usable \in BOOLEAN /\ (usable <=> us # {}) /\ Fetched(t, us, usable)
    BY <1>5
  <2> HIDE DEF usable
  <2>2. QED
    BY <1>1, <1>5, <2>1, ParsesUrls, FetchedStep DEF AtProvider
<1>6. QED
  BY <1>2, <1>3, <1>4, <1>5 DEF AskBing

LEMMA AskSerpApiStep ==
  ASSUME SerpInv, NEW t \in Searchers, AskSerpApi(t)
  PROVE  SerpInv'
<1> DEFINE google == search[t].google
<1>1. /\ search[t].at = "serpapi" /\ search[t] \in Threads /\ UNCHANGED <<serp, entry, saved>>
      /\ google # Nothing => /\ google \subseteq UNION Answers /\ google \subseteq Urls
                            /\ search[t].usable <=> google # {}
      /\ search[t].usable \in BOOLEAN
  BY SerpFacts DEF AskSerpApi, SerpInv, AskedOk, Threads
<1>2. CASE SerpFails(t)
  BY <1>1, <1>2, SerpFailsStep
<1>3. CASE google # Nothing /\ Fetched(t, google, search[t].usable)
  BY <1>1, <1>3, FetchedStep DEF AtProvider
<1>4. ASSUME NEW raw \in Answers, NEW us \in Parses(raw), Fetched(t, us, us # {})
      PROVE  SerpInv'
  <2> DEFINE usable == us # {}
  <2>1. usable \in BOOLEAN /\ (usable <=> us # {}) /\ Fetched(t, us, usable)
    BY <1>4
  <2> HIDE DEF usable
  <2>2. QED
    BY <1>1, <1>4, <2>1, ParsesUrls, FetchedStep DEF AtProvider
<1>5. CASE /\ google = Nothing /\ search[t].attempt < SerpAttempts /\ UNCHANGED heap
           /\ search' = [search EXCEPT ![t].at = "google", ![t].attempt = @ + 1]
  <2> DEFINE m == [search[t] EXCEPT !.at = "google", !.attempt = @ + 1]
  <2>1. search[t].attempt + 1 \in 1..SerpAttempts
    BY <1>1, <1>5, SerpConstants DEF Threads
  <2>2. m \in Threads /\ m.at = "google" /\ m.dict = search[t].dict
        /\ m.since = search[t].since /\ m.google = Nothing
    BY <1>1, <1>5, <2>1 DEF Threads, SerpAt
  <2>3. search' = [search EXCEPT ![t] = m]
    BY <1>5
  <2> HIDE DEF m
  <2>4. QED
    BY <1>1, <1>5, <2>2, <2>3, AsksOn
<1>6. QED
  BY <1>2, <1>3, <1>4, <1>5 DEF AskSerpApi

LEMMA StoreStep ==
  ASSUME SerpInv, NEW t \in Searchers, Store(t)
  PROVE  SerpInv'
<1> DEFINE c == search[t].dict
           m == [search[t] EXCEPT !.at = "read", !.since = 0]
<1>1. /\ search[t].at = "store" /\ UNCHANGED <<serp, heap, saved>> /\ search' = [search EXCEPT ![t] = m]
      /\ serp.cache \in {"memory", "redis", "none"}
  BY SerpFacts, SerpConstants DEF Store
<1>2. \/ entry' \in {entry, Nothing}
      \/ ~Copies /\ entry' = [dict |-> c, copy |-> NoDict, since |-> search[t].since]
      \/ Copies /\ entry' = [dict |-> 0, copy |-> heap[c], since |-> search[t].since]
  <2>1. CASE serp.cache = "memory"
    BY <2>1 DEF Store, Copies
  <2>2. CASE serp.cache = "redis"
    BY <2>2 DEF Store, Copies
  <2>3. CASE serp.cache = "none"
    BY <2>3 DEF Store, Copies
  <2>4. QED
    BY <1>1, <2>1, <2>2, <2>3
<1>3. search[t] \in Threads /\ AskedOk(t) /\ DictOk(t) /\ UrlsOk(t)
  BY SerpFacts DEF SerpInv
<1>4. /\ c \in Cells /\ c # 0 /\ Current(search[t].since)
      /\ Copies => heap[c].urls \subseteq UNION Answers
      /\ \A s \in Searchers \ {t} : search[s].dict # c
  BY <1>1, <1>3 DEF Threads, DictOk, AskedOk, UrlsOk, AtProvider, HasDict, Unshared
<1>5. /\ m \in Threads /\ m.at = "read" /\ m.dict = c /\ m.google = search[t].google
      /\ m.usable = search[t].usable
  BY <1>3 DEF Threads, SerpAt
<1> HIDE DEF m, c
<1>6. search'[t] = m
  BY <1>1, SerpFacts
<1>7. NoDict \in Dicts /\ heap[c] \in Dicts /\ search[t].since \in Nat /\ entry \in {Nothing} \cup Entries
  BY <1>3, <1>4, SerpFacts DEF NoDict, Dict, Dicts, Threads, SerpInv, SerpShape
<1>8. entry' \in {Nothing} \cup Entries
  BY <1>2, <1>4, <1>7 DEF Entries
<1>9. EntryOk'
  <2>1. CASE entry' \in {entry, Nothing}
    BY <1>1, <2>1 DEF SerpInv, EntryOk, Current, Copies
  <2>2. CASE ~Copies /\ entry' = [dict |-> c, copy |-> NoDict, since |-> search[t].since]
    BY <1>1, <1>4, <2>2 DEF EntryOk, Current, Copies
  <2>3. CASE Copies /\ entry' = [dict |-> 0, copy |-> heap[c], since |-> search[t].since]
    BY <1>1, <1>4, <2>3 DEF EntryOk, Current, Copies
  <2>4. QED
    BY <1>2, <2>1, <2>2, <2>3
<1>10. AskedOk(t)' /\ UrlsOk(t)'
  BY <1>1, <1>3, <1>4, <1>5, <1>6 DEF AskedOk, UrlsOk, AtProvider, Copies, Covers
<1>11. ASSUME NEW s \in Searchers \ {t}
       PROVE  /\ search[s].dict # c
              /\ search[s].at = "store" => (entry' # Nothing => entry'.dict # search[s].dict)
  <2>1. DictOk(s) /\ search[s].dict # c
    BY <1>4 DEF SerpInv
  <2>2. search[s].at = "store" => search[s].dict # 0 /\ (entry # Nothing => entry.dict # search[s].dict)
    BY <2>1 DEF DictOk, HasDict
  <2>3. QED
    BY <1>2, <2>1, <2>2
<1>12. heap' \in [Cells -> Dicts] /\ saved' \in [Searchers -> {Nothing} \cup SUBSET Urls]
  BY <1>1 DEF SerpInv, SerpShape
<1>13. QED
  BY <1>1, <1>4, <1>5, <1>8, <1>9, <1>10, <1>11, <1>12, ThreadMoves DEF HasDict

LEMMA ReadUrlsStep ==
  ASSUME SerpInv, NEW t \in Searchers, ReadUrls(t)
  PROVE  SerpInv'
<1>1. /\ search[t].at = "read" /\ UNCHANGED <<serp, heap, entry, saved>>
      /\ search[t] \in Threads /\ AskedOk(t) /\ DictOk(t) /\ UrlsOk(t)
      /\ saved \in [Searchers -> {Nothing} \cup SUBSET Urls]
  BY SerpFacts DEF SerpInv, SerpShape, ReadUrls
<1>2. search[t].dict \in Cells /\ search[t].dict # 0 /\ heap[search[t].dict].urls \subseteq Urls
      /\ (Copies => heap[search[t].dict].urls \subseteq UNION Answers)
  BY <1>1, SerpFacts DEF DictOk, HasDict, Threads, UrlsOk, Dicts
<1>3. ASSUME NEW m \in Threads, search' = [search EXCEPT ![t] = m], m.at \in {"save", "write"},
             m.dict = search[t].dict, m.google = search[t].google, m.usable = search[t].usable,
             m.at = "save" => UserUrls[t] = {},
             m.at = "write" => m.seen = heap[search[t].dict].urls
      PROVE  SerpInv'
  <2>1. search'[t] = m
    BY <1>3, SerpFacts
  <2>2. AskedOk(t)'
    BY <1>1, <1>3, <2>1 DEF AskedOk, AtProvider
  <2>3. UrlsOk(t)'
    BY <1>1, <1>2, <1>3, <2>1 DEF UrlsOk, Copies, Covers, DomainsOf
  <2>4. QED
    BY <1>1, <1>2, <1>3, <2>2, <2>3, OnlyThread DEF HasDict
<1>4. CASE UserUrls[t] = {}
  <2> DEFINE m == [search[t] EXCEPT !.at = "save"]
  <2>1. /\ m \in Threads /\ m.at = "save" /\ m.dict = search[t].dict /\ m.google = search[t].google
        /\ m.usable = search[t].usable
    BY <1>1 DEF Threads, SerpAt
  <2>2. search' = [search EXCEPT ![t] = m]
    BY <1>4 DEF ReadUrls, Go
  <2> HIDE DEF m
  <2>3. QED
    BY <1>3, <1>4, <2>1, <2>2
<1>5. CASE UserUrls[t] # {}
  <2> DEFINE m == [search[t] EXCEPT !.at = "write", !.seen = heap[search[t].dict].urls]
  <2>1. /\ m \in Threads /\ m.at = "write" /\ m.dict = search[t].dict /\ m.google = search[t].google
        /\ m.usable = search[t].usable /\ m.seen = heap[search[t].dict].urls
    BY <1>1, <1>2 DEF Threads, SerpAt
  <2>2. search' = [search EXCEPT ![t] = m]
    BY <1>5 DEF ReadUrls
  <2> HIDE DEF m
  <2>3. QED
    BY <1>3, <1>5, <2>1, <2>2
<1>6. QED
  BY <1>4, <1>5

LEMMA WriteUrlsStep ==
  ASSUME SerpInv, NEW t \in Searchers, WriteUrls(t)
  PROVE  SerpInv'
<1> DEFINE c == search[t].dict
           m == [search[t] EXCEPT !.at = "save", !.seen = {}]
<1>1. /\ search[t].at = "write" /\ UNCHANGED <<serp, entry, saved>> /\ search' = [search EXCEPT ![t] = m]
  BY DEF WriteUrls
<1>2. PICK us \in MergesByDomain(search[t].seen, UserUrls[t]) : heap' = [heap EXCEPT ![c].urls = us]
  BY DEF WriteUrls
<1>3. search[t] \in Threads /\ AskedOk(t) /\ DictOk(t) /\ UrlsOk(t)
  BY SerpFacts DEF SerpInv
<1>4. c \in Cells /\ c # 0
  BY <1>1, <1>3 DEF Threads, DictOk, HasDict
<1>5. us \subseteq Urls /\ (Copies => Covers(t, us))
  <2>1. us \subseteq search[t].seen \cup UserUrls[t] /\ DomainsOf(UserUrls[t]) \subseteq DomainsOf(us)
    BY MergesUrls
  <2>2. search[t].seen \subseteq Urls /\ (Copies => search[t].seen \subseteq UNION Answers)
    BY <1>1, <1>3 DEF Threads, UrlsOk
  <2>3. UserUrls[t] \subseteq Urls
    BY SerpConstants
  <2>4. QED
    BY <2>1, <2>2, <2>3 DEF Covers
<1>6. /\ m \in Threads /\ m.at = "save" /\ m.dict = c /\ m.google = search[t].google
      /\ m.usable = search[t].usable
  BY <1>3 DEF Threads, SerpAt
<1> HIDE DEF m, c
<1>7. search'[t] = m
  BY <1>1, SerpFacts
<1>8. heap' \in [Cells -> Dicts] /\ heap'[c].urls = us /\ \A j \in Cells : j # c => heap'[j] = heap[j]
  BY <1>2, <1>4, <1>5, SerpFacts DEF Dicts
<1>9. AskedOk(t)' /\ UrlsOk(t)'
  BY <1>1, <1>3, <1>5, <1>6, <1>7, <1>8 DEF AskedOk, UrlsOk, AtProvider, Copies, Covers
<1>10. ASSUME NEW s \in Searchers \ {t}
       PROVE  /\ saved'[s] = saved[s]
              /\ Copies /\ m.dict # 0 => m.dict # search[s].dict
              /\ search[s].dict # 0 /\ (search[s].at = "store" \/ Copies) =>
                   heap'[search[s].dict] = heap[search[s].dict]
              /\ search[s].at = "store" =>
                   m.dict # search[s].dict /\ (entry' # Nothing => entry'.dict # search[s].dict)
  <2>1. DictOk(s) /\ search[s].dict \in {0} \cup Cells
    BY SerpFacts DEF SerpInv, Threads
  <2>2. (search[s].at = "store" => search[s].dict # c) /\ (Copies => search[s].dict # c)
    BY <1>3, <1>4, <2>1 DEF DictOk, Unshared, c
  <2>3. QED
    BY <1>1, <1>6, <1>8, <2>1, <2>2 DEF DictOk
<1>11. EntryOk' /\ entry' \in {Nothing} \cup Entries /\ saved' \in [Searchers -> {Nothing} \cup SUBSET Urls]
  BY <1>1 DEF SerpInv, SerpShape, EntryOk, Current, Copies
<1>12. m.dict # 0 /\ m.at \in HasDict /\ m.at # "store"
  BY <1>4, <1>6 DEF HasDict
<1>13. QED
  BY <1>1, <1>6, <1>8, <1>9, <1>10, <1>11, <1>12, ThreadMoves

LEMMA SaveRowStep ==
  ASSUME SerpInv, NEW t \in Searchers, SaveRow(t)
  PROVE  SerpInv'
<1> DEFINE c == search[t].dict
           m == [Asking EXCEPT !.at = "scrape"]
           used == {search'[s].dict : s \in Searchers} \cup {IF entry # Nothing THEN entry.dict ELSE 0}
<1>1. /\ search[t].at = "save" /\ UNCHANGED <<serp, entry>> /\ search' = [search EXCEPT ![t] = m]
      /\ saved' = [saved EXCEPT ![t] = heap[c].urls] /\ heap' = Swept(heap, used)
  BY DEF SaveRow
<1>2. search[t] \in Threads /\ AskedOk(t) /\ DictOk(t) /\ UrlsOk(t)
  BY SerpFacts DEF SerpInv
<1>3. c \in Cells /\ c # 0 /\ heap[c].urls \in SUBSET Urls /\ (Copies => Covers(t, heap[c].urls))
  BY <1>1, <1>2, SerpFacts DEF Threads, DictOk, HasDict, UrlsOk, Dicts
<1>4. m \in Threads /\ m.at = "scrape" /\ m.dict = 0 /\ m.google = Nothing
  BY AskingThread DEF Threads, SerpAt
<1> HIDE DEF m, c
<1>5. search'[t] = m /\ \A s \in Searchers : s # t => search'[s] = search[s]
  BY <1>1, SerpFacts
<1>6. heap' \in [Cells -> Dicts] /\ \A j \in Cells : j \in used => heap'[j] = heap[j]
  BY <1>1, SerpFacts DEF Swept, NoDict, Dict, Dicts
<1>7. \A s \in Searchers : search'[s].dict \in used
  OBVIOUS
<1> HIDE DEF used
<1>8. /\ saved' \in [Searchers -> {Nothing} \cup SUBSET Urls] /\ saved'[t] = heap[c].urls
      /\ \A s \in Searchers \ {t} : saved'[s] = saved[s]
  BY <1>1, <1>3 DEF SerpInv, SerpShape
<1>9. AskedOk(t)' /\ UrlsOk(t)'
  BY <1>1, <1>3, <1>4, <1>5, <1>8 DEF AskedOk, UrlsOk, AtProvider, Copies, Covers
<1>10. ASSUME NEW s \in Searchers \ {t}
       PROVE  /\ search[s].dict # 0 => heap'[search[s].dict] = heap[search[s].dict]
              /\ search[s].at = "store" =>
                   search[s].dict # 0 /\ (entry' # Nothing => entry'.dict # search[s].dict)
  <2>1. DictOk(s) /\ search[s].dict \in {0} \cup Cells
    BY SerpFacts DEF SerpInv, Threads
  <2>2. search[s].dict \in used
    BY <1>5, <1>7
  <2>3. QED
    BY <1>1, <1>6, <2>1, <2>2 DEF DictOk, HasDict
<1>11. EntryOk' /\ entry' \in {Nothing} \cup Entries
  BY <1>1 DEF SerpInv, SerpShape, EntryOk, Current, Copies
<1>12. QED
  BY <1>1, <1>4, <1>6, <1>8, <1>9, <1>10, <1>11, ThreadMoves DEF HasDict

LEMMA ScrapingStep ==
  ASSUME SerpInv, NEW t \in Searchers, NothingToScrape(t) \/ Scrape(t)
  PROVE  SerpInv'
<1>1. /\ search[t].at = "scrape" /\ UNCHANGED <<serp, heap, entry, saved>> /\ search[t] \in Threads
      /\ AskedOk(t) /\ UrlsOk(t) /\ search[t].dict = 0
      /\ saved \in [Searchers -> {Nothing} \cup SUBSET Urls]
  BY SerpFacts, Asks DEF NothingToScrape, Scrape, SerpInv, SerpShape, HasDict
<1>2. ASSUME NEW at \in {"scrape", "done", "failed"}, NEW tries \in 0..SerpRetries,
             search' = [search EXCEPT ![t] = [search[t] EXCEPT !.at = at, !.tries = tries]]
      PROVE  SerpInv'
  <2> DEFINE m == [search[t] EXCEPT !.at = at, !.tries = tries]
  <2>1. m \in Threads /\ m.at = at /\ m.dict = 0 /\ m.google = search[t].google /\ m.usable = search[t].usable
    BY <1>1 DEF Threads, SerpAt
  <2>2. search' = [search EXCEPT ![t] = m]
    BY <1>2
  <2> HIDE DEF m
  <2>3. search'[t] = m
    BY <2>2, SerpFacts
  <2>4. AskedOk(t)' /\ UrlsOk(t)'
    BY <1>1, <2>1, <2>3 DEF AskedOk, UrlsOk, AtProvider, Copies, Covers
  <2>5. QED
    BY <1>1, <2>1, <2>2, <2>4, OnlyThread DEF HasDict
<1>3. CASE NothingToScrape(t)
  <2> DEFINE at == IF search[t].tries < SerpRetries THEN "scrape" ELSE "failed"
             tries == Fewer(search[t].tries + 1, SerpRetries)
  <2>1. tries \in 0..SerpRetries /\ at \in {"scrape", "done", "failed"}
    BY <1>1, SerpConstants DEF Fewer, Threads
  <2>2. search' = [search EXCEPT ![t] = [search[t] EXCEPT !.at = at, !.tries = tries]]
    BY <1>1, <1>3 DEF NothingToScrape, Threads
  <2> HIDE DEF at, tries
  <2>3. QED
    BY <1>2, <2>1, <2>2
<1>4. CASE Scrape(t)
  <2>1. PICK got \in BOOLEAN :
          search' = [search EXCEPT ![t].at = IF got THEN "done" ELSE "failed", ![t].tries = 0]
    BY <1>4 DEF Scrape
  <2> DEFINE at == IF got THEN "done" ELSE "failed"
  <2>2. at \in {"scrape", "done", "failed"} /\ 0 \in 0..SerpRetries
    BY SerpConstants
  <2>3. search' = [search EXCEPT ![t] = [search[t] EXCEPT !.at = at, !.tries = 0]]
    BY <2>1
  <2> HIDE DEF at
  <2>4. QED
    BY <1>2, <2>2, <2>3
<1>5. QED
  BY <1>3, <1>4

\* An invalidation that not everybody hears says so.
LEMMA InvalidateStep ==
  ASSUME SerpInv, Invalidate, heap' = heap, NEW t,
         \/ UNCHANGED <<search, saved>>
         \/ /\ t \in Searchers /\ search[t].at \in {"done", "failed"}
            /\ search' = [search EXCEPT ![t] = Asking] /\ saved' = [saved EXCEPT ![t] = Nothing]
  PROVE  SerpInv'
<1>1. PICK answers \in BOOLEAN :
        /\ entry' = IF answers THEN Nothing ELSE entry
        /\ serp' = [serp EXCEPT !.clears = @ + 1, !.missed = ~answers \/ UnderWay]
  BY DEF Invalidate
<1>2. serp.clears < MaxClears
  BY DEF Invalidate
<1> DEFINE missed == ~answers \/ UnderWay
<1>3. /\ serp' \in [engine : Engines, cache : Caches, clears : 0..MaxClears, missed : BOOLEAN]
      /\ serp'.cache = serp.cache /\ serp'.missed = missed
  <2>1. missed \in BOOLEAN /\ serp' = [serp EXCEPT !.clears = @ + 1, !.missed = missed]
    BY <1>1
  <2> HIDE DEF missed
  <2>2. serp.clears + 1 \in 0..MaxClears
    BY <1>2, SerpFacts, SerpConstants
  <2>3. QED
    BY <2>1, <2>2, SerpFacts
<1>4. /\ search' \in [Searchers -> Threads] /\ saved' \in [Searchers -> {Nothing} \cup SUBSET Urls]
      /\ \A s \in Searchers : (search'[s] = search[s] /\ saved'[s] = saved[s])
                           \/ (search'[s] = Asking /\ saved'[s] = Nothing)
  <2>1. /\ search \in [Searchers -> Threads] /\ saved \in [Searchers -> {Nothing} \cup SUBSET Urls]
        /\ Asking \in Threads /\ Nothing \in {Nothing} \cup SUBSET Urls
    BY AskingThread DEF SerpInv, SerpShape
  <2>2. CASE UNCHANGED <<search, saved>>
    BY <2>1, <2>2
  <2>3. CASE /\ t \in Searchers /\ search' = [search EXCEPT ![t] = Asking]
             /\ saved' = [saved EXCEPT ![t] = Nothing]
    <3>1. search' \in [Searchers -> Threads] /\ saved' \in [Searchers -> {Nothing} \cup SUBSET Urls]
      BY <2>1, <2>3
    <3>2. ASSUME NEW s \in Searchers
          PROVE  \/ search'[s] = search[s] /\ saved'[s] = saved[s]
                 \/ search'[s] = Asking /\ saved'[s] = Nothing
      BY <2>1, <2>3
    <3>3. QED
      BY <3>1, <3>2
  <2>4. QED
    BY <2>2, <2>3
<1>5. SerpShape' /\ Copies' = Copies
  BY <1>1, <1>3, <1>4 DEF SerpInv, SerpShape, Copies
<1>6. EntryOk'
  BY <1>1, <1>3, <1>5 DEF SerpInv, EntryOk, Current, Copies
<1>7. ASSUME NEW s \in Searchers
      PROVE  AskedOk(s)' /\ DictOk(s)' /\ UrlsOk(s)'
  <2>1. CASE search'[s] = Asking /\ saved'[s] = Nothing
    BY <2>1, AskingThread DEF AskedOk, DictOk, UrlsOk, AtProvider, HasDict
  <2>2. CASE search'[s] = search[s] /\ saved'[s] = saved[s]
    <3>1. AskedOk(s)'
      BY <1>3, <2>2 DEF SerpInv, AskedOk, AtProvider, UnderWay, Current
    <3>2. \A r \in Searchers : search'[r].dict \in {0, search[r].dict}
      BY <1>4, AskingThread
    <3>3. search[s].dict # 0 /\ Unshared(s) => Unshared(s)'
      BY <2>2, <3>2 DEF Unshared
    <3>4. DictOk(s) /\ UrlsOk(s) /\ (search[s].at = "store" => search[s].dict # 0)
      BY DEF SerpInv, DictOk, HasDict
    <3>5. DictOk(s)'
      BY <1>1, <1>5, <2>2, <3>3, <3>4 DEF DictOk
    <3>6. UrlsOk(s)'
      BY <1>5, <2>2, <3>4 DEF UrlsOk, Covers
    <3>7. QED
      BY <3>1, <3>5, <3>6
  <2>3. QED
    BY <1>4, <2>1, <2>2
<1>8. QED
  BY <1>5, <1>6, <1>7 DEF SerpInv

LEMMA SerpStep == SerpInv /\ [SerpNext]_serpVars => SerpInv'
<1>1. SUFFICES ASSUME SerpInv, [SerpNext]_serpVars
               PROVE  SerpInv'
  OBVIOUS
<1>2. ASSUME NEW t \in Searchers, SerpThread(t)
      PROVE  SerpInv'
  BY <1>1, <1>2, LookUpStep, TakeUserUrlsStep, AskGoogleStep, AskBingStep, AskSerpApiStep, StoreStep,
    ReadUrlsStep, WriteUrlsStep, SaveRowStep, ScrapingStep DEF SerpThread
<1>3. ASSUME NEW t \in Searchers, RerunSerp(t)
      PROVE  SerpInv'
  BY <1>1, <1>3, InvalidateStep DEF RerunSerp
<1>4. CASE ClearCache
  BY <1>1, <1>4, InvalidateStep DEF ClearCache
<1>5. CASE Expire
  BY <1>1, <1>5 DEF Expire, SerpInv, SerpShape, EntryOk, AskedOk, DictOk, UrlsOk, Current, Copies, Covers,
    Unshared
<1>6. CASE UNCHANGED serpVars
  BY <1>1, <1>6 DEF serpVars, SerpInv, SerpShape, EntryOk, AskedOk, DictOk, UrlsOk, Current, Copies,
    Covers, Unshared
<1>7. QED
  BY <1>1, <1>2, <1>3, <1>4, <1>5, <1>6 DEF SerpNext

\* What the invariant says of the searches, the cache and the rows.
LEMMA SerpInvTyped == SerpInv => SerpTypeOK
BY DEF SerpInv, SerpShape, SerpTypeOK, Threads, Dicts, SerpAt

LEMMA SerpInvCleared == SerpInv => ClearedIsGone
BY DEF SerpInv, EntryOk, Current, ClearedIsGone

LEMMA SerpInvNothingLost == SerpInv => NothingLost
<1> SUFFICES ASSUME SerpInv
             PROVE  NothingLost
  OBVIOUS
<1>1. SUFFICES ASSUME NEW t \in Searchers, search[t].at = "store"
               PROVE  heap[search[t].dict].usable = (heap[search[t].dict].urls # {})
  BY DEF NothingLost
<1>2. DictOk(t) /\ search[t].dict \in {0} \cup Cells
  BY SerpFacts DEF SerpInv, Threads
<1>3. search[t].dict \in Cells
  BY <1>1, <1>2 DEF DictOk, HasDict
<1>4. heap[search[t].dict].usable \in BOOLEAN
  BY <1>3, SerpFacts DEF Dicts
<1>5. QED
  BY <1>1, <1>2, <1>4 DEF DictOk

LEMMA SerpInvOwnUrls == SerpInv => OwnUrls
BY DEF SerpInv, UrlsOk, Copies, Covers, OwnUrls

LEMMA SerpInvariant == SerpSpec => []SerpInv
BY SerpBegin, SerpStep, PTL DEF SerpSpec

-----------------------------------------------------------------------------
\* Every state of the searches, the dicts, the cache and the rows is well typed
\* (serp_cache.py:67-107, serp_step.py:24-214).
THEOREM SerpTyped == SerpSpec => []SerpTypeOK
BY SerpInvTyped, SerpInvariant, PTL

\* After an invalidation the cache serves nothing that was asked of a provider before it,
\* unless it was not answered or a fetch was under way (serp_cache.py:50-64, 94-106).
THEOREM NoOldEntry == SerpSpec => []ClearedIsGone
BY SerpInvCleared, SerpInvariant, PTL

\* The result of a fetch has a URL if and only if a provider it was made of named one, for
\* any answers and engines (serp.py:714-790).
THEOREM FallbacksLoseNothing == SerpSpec => []NothingLost
BY SerpInvNothingLost, SerpInvariant, PTL

\* Where the cache keeps copies, a task saves URLs of the providers and its own, one for
\* every domain of its own, whatever the other tasks with its keyword do
\* (serp_cache.py:101, serp_step.py:134-152).
THEOREM RowsOwnUrls == SerpSpec => []OwnUrls
BY SerpInvOwnUrls, SerpInvariant, PTL
=============================================================================
