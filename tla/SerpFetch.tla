------------------------------ MODULE SerpFetch ------------------------------
(* The search results of tasks that ask for the same keyword: the cache of    *)
(* fetch_serp_data (Redis on a server, the memory of the process on the       *)
(* desktop), the providers behind it with their fallbacks, the SERP step that *)
(* merges the user's own URLs, and the scraping of what it saved.  The tasks  *)
(* run in threads of their own, so what is read before a provider answers is  *)
(* old when it is used.                                                       *)
EXTENDS Integers, FiniteSets

CONSTANTS
  Searchers,       \* tasks with one keyword, country, language and engine
  Engines,         \* subset of {"google", "bing", "google+bing", "off"}
  Caches,          \* subset of {"redis", "memory", "none"}: none is SERP_CACHE_ENABLED off
  Urls,            \* records [domain, host, path]: www.a and a are hosts of one domain
  Excluded,        \* EXCLUDED_DOMAINS
  UserUrls,        \* [Searchers -> SUBSET Urls], the competitor URLs of page or project
  Answers,         \* what a provider's organic items may be
  PerDomain,       \* max_per_domain, 3 in the code
  SerpAttempts,    \* MAX_SERP_RETRIES
  SerpRetries,     \* max_retries of SerpStep and ScrapingStep
  MaxClears,       \* bound: invalidations by operators
  Nothing          \* None in the code

ASSUME SerpConstants ==
  /\ Engines \subseteq {"google", "bing", "google+bing", "off"}
  /\ Caches \subseteq {"redis", "memory", "none"}
  /\ UserUrls \in [Searchers -> SUBSET Urls] /\ Answers \subseteq SUBSET Urls
  /\ PerDomain \in Nat \ {0} /\ SerpAttempts \in Nat \ {0} /\ SerpRetries \in Nat
  /\ MaxClears \in Nat
  /\ IsFiniteSet(Searchers)

VARIABLES
  serp,     \* the installation: its engine and its cache; and the bounds used up
  search,   \* per task: where its thread is, what the providers said, the dict it holds
  heap,     \* the dicts in the memory of the process
  entry,    \* what the cache holds under the key
  saved     \* per task: task.serp_data as committed

serpVars == <<serp, search, heap, entry, saved>>

DomainsOf(us) == {u.domain : u \in us}
AtDomain(us, d) == {u \in us : u.domain = d}
Fewer(m, n) == IF m < n THEN m ELSE n

\* A dict with its URLs; usable: one of the providers it was made of named a URL.
Dict(us, usable) == [urls |-> us, usable |-> usable]
NoDict == Dict({}, FALSE)

\* A dict is created in a cell that nothing refers to any more.
Cells == 1..(Cardinality(Searchers) + 1)
Held == {search[t].dict : t \in Searchers} \ {0}
Free(used) == CHOOSE i \in Cells : i \notin used
Swept(h, used) == [i \in Cells |-> IF i \in used THEN h[i] ELSE NoDict]

Asking == [at |-> "lookup", tries |-> 0, attempt |-> 1, google |-> Nothing,
           seen |-> {}, usable |-> FALSE, dict |-> 0, since |-> 0]

SerpInit ==
  /\ \E engine \in Engines, cache \in Caches :
       serp = [engine |-> engine, cache |-> cache, clears |-> 0, missed |-> FALSE]
  /\ search = [t \in Searchers |-> Asking]
  /\ heap = [i \in Cells |-> NoDict]
  /\ entry = Nothing
  /\ saved = [t \in Searchers |-> Nothing]

-----------------------------------------------------------------------------
(* What becomes of an answer.                                              *)

\* Excluded domains are dropped as the items are read, and of every domain the first
\* few URLs stay.
Usable(us) == {u \in us : u.domain \notin Excluded}
Parses(us) ==
  {s \in SUBSET Usable(us) :
     \A d \in DomainsOf(Usable(us)) :
        Cardinality(AtDomain(s, d)) = Fewer(PerDomain, Cardinality(AtDomain(Usable(us), d)))}

\* Mutant of Merged: Bing only adds to what Google has.
MergedIntoGoogle(google, bing) ==
  IF google = {} THEN {}
  ELSE google \cup {u \in bing : \A v \in google : v.host # u.host}

\* Bing adds the URLs of hosts that Google has not: www.a is another host than a.
Merged(google, bing) ==
  google \cup {u \in bing : \A v \in google : v.host # u.host}

\* One URL of every domain of the first list, then one of every other of the second.
MergesByDomain(primary, extra) ==
  {s \in SUBSET (primary \cup extra) :
     \A d \in DomainsOf(primary \cup extra) :
        /\ Cardinality(AtDomain(s, d)) = 1
        /\ d \in DomainsOf(primary) => AtDomain(s, d) \subseteq primary}

-----------------------------------------------------------------------------
(* get_cached_serp.                                                        *)

Go(t, at) == search' = [search EXCEPT ![t].at = at]

\* The memory of the process gives out the dict itself, Redis what it parses.
LookUp(t) ==
  /\ search[t].at = "lookup" /\ serp.engine # "off"
  /\ \/ /\ serp.cache = "memory" /\ entry # Nothing
        /\ search' = [search EXCEPT ![t].at = "read", ![t].dict = entry.dict]
        /\ UNCHANGED heap
     \/ /\ serp.cache = "redis" /\ entry # Nothing
        /\ LET i == Free(Held)
           IN /\ heap' = [heap EXCEPT ![i] = entry.copy]
              /\ search' = [search EXCEPT ![t].at = "read", ![t].dict = i]
     \* nothing there, it has expired, or Redis does not answer
     \/ /\ serp.cache = "memory" => entry = Nothing
        /\ search' = [search EXCEPT ![t].at = IF serp.engine = "bing" THEN "bing" ELSE "google",
                                    ![t].since = serp.clears]
        /\ UNCHANGED heap
  /\ UNCHANGED <<serp, entry, saved>>

\* Search engine "off": the user's URLs are saved without the cache.
TakeUserUrls(t) ==
  /\ search[t].at = "lookup" /\ serp.engine = "off"
  /\ saved' = [saved EXCEPT ![t] = UserUrls[t]]
  /\ Go(t, "scrape")
  /\ UNCHANGED <<serp, heap, entry>>

\* The dict a fetch returns.
Fetched(t, us, usable) ==
  LET used == Held \cup (IF entry # Nothing THEN {entry.dict} ELSE {})
      i == Free(used)
  IN /\ heap' = [Swept(heap, used) EXCEPT ![i] = Dict(us, usable)]
     /\ search' = [search EXCEPT ![t].at = "store", ![t].dict = i, ![t].google = Nothing,
                                 ![t].attempt = 1, ![t].usable = FALSE]

\* Mutant of SerpFails: a retry that is not counted.
SerpFailsAgain(t) ==
  /\ search' = [search EXCEPT ![t] =
       [Asking EXCEPT !.at = IF search[t].tries < SerpRetries THEN "lookup" ELSE "failed"]]
  /\ UNCHANGED heap

\* SerpError: SerpStep is tried once more.
SerpFails(t) ==
  /\ search' = [search EXCEPT ![t] =
       [Asking EXCEPT !.at = IF search[t].tries < SerpRetries THEN "lookup" ELSE "failed",
                      !.tries = Fewer(search[t].tries + 1, SerpRetries)]]
  /\ UNCHANGED heap

\* call_dataforseo for Google.  An error, or a result without items, is None.
AskGoogle(t) ==
  /\ search[t].at = "google"
  /\ \/ /\ search' = [search EXCEPT ![t].at = IF serp.engine = "google" THEN "serpapi" ELSE "bing"]
        /\ UNCHANGED heap
     \/ \E raw \in Answers : \E us \in Parses(raw) :
          IF serp.engine = "google" /\ us # {}
          THEN Fetched(t, us, TRUE)
          ELSE /\ search' = [search EXCEPT
                    ![t].at = IF serp.engine = "google" THEN "serpapi" ELSE "bing",
                    ![t].google = us, ![t].usable = us # {}]
               /\ UNCHANGED heap
  /\ UNCHANGED <<serp, entry, saved>>

\* call_dataforseo_bing: the only engine, or the second of two.
AskBing(t) ==
  /\ search[t].at = "bing"
  /\ LET google == search[t].google
     IN \/ IF google # Nothing THEN Fetched(t, google, search[t].usable) ELSE SerpFails(t)
        \/ \E raw \in Answers : \E us \in Parses(raw) :
             IF google # Nothing
             THEN Fetched(t, Merged(google, us), search[t].usable \/ us # {})
             ELSE IF us # {} \/ serp.engine # "bing"
             THEN Fetched(t, us, us # {})
             ELSE SerpFails(t)
  /\ UNCHANGED <<serp, entry, saved>>

\* Any organic result of SerpAPI is taken, else what DataForSEO had, else both are asked
\* again after a pause.
AskSerpApi(t) ==
  /\ search[t].at = "serpapi"
  /\ \/ \E raw \in Answers \ {{}} : \E us \in Parses(raw) : Fetched(t, us, us # {})
     \/ IF search[t].google # Nothing
        THEN Fetched(t, search[t].google, search[t].usable)
        ELSE IF search[t].attempt < SerpAttempts
        THEN /\ search' = [search EXCEPT ![t].at = "google", ![t].attempt = @ + 1]
             /\ UNCHANGED heap
        ELSE SerpFails(t)
  /\ UNCHANGED <<serp, entry, saved>>

\* Mutant of Store: the step stores what it has merged.
StoreMerged(t) ==
  /\ search[t].at = "store"
  /\ \E us \in MergesByDomain(heap[search[t].dict].urls, UserUrls[t]) :
       entry' = IF serp.cache = "none" THEN Nothing
                ELSE [dict |-> IF serp.cache = "memory" THEN search[t].dict ELSE 0,
                      copy |-> Dict(us, TRUE), since |-> search[t].since]
  /\ search' = [search EXCEPT ![t].at = "read", ![t].since = 0]
  /\ UNCHANGED <<serp, heap, saved>>

\* The memory keeps the dict that goes to the caller; Redis a copy, or nothing.
Store(t) ==
  /\ search[t].at = "store"
  /\ LET d == heap[search[t].dict]
     IN entry' \in CASE serp.cache = "memory" -> {[dict |-> search[t].dict, copy |-> NoDict,
                                                   since |-> search[t].since]}
                     [] serp.cache = "redis" -> {entry, [dict |-> 0, copy |-> d,
                                                         since |-> search[t].since]}
                     [] serp.cache = "none" -> {Nothing}
  /\ search' = [search EXCEPT ![t].at = "read", ![t].since = 0]
  /\ UNCHANGED <<serp, heap, saved>>

-----------------------------------------------------------------------------
(* SerpStep: the user's URLs are merged into the dict in place.            *)

ReadUrls(t) ==
  /\ search[t].at = "read"
  /\ IF UserUrls[t] = {} THEN Go(t, "save")
     ELSE search' = [search EXCEPT ![t].at = "write", ![t].seen = heap[search[t].dict].urls]
  /\ UNCHANGED <<serp, heap, entry, saved>>

WriteUrls(t) ==
  /\ search[t].at = "write"
  /\ \E us \in MergesByDomain(search[t].seen, UserUrls[t]) :
       heap' = [heap EXCEPT ![search[t].dict].urls = us]
  /\ search' = [search EXCEPT ![t].at = "save", ![t].seen = {}]
  /\ UNCHANGED <<serp, entry, saved>>

\* strip_nul copies the dict, the copy is committed.
SaveRow(t) ==
  /\ search[t].at = "save"
  /\ saved' = [saved EXCEPT ![t] = heap[search[t].dict].urls]
  /\ search' = [search EXCEPT ![t] = [Asking EXCEPT !.at = "scrape"]]
  /\ LET used == {search'[s].dict : s \in Searchers} \cup {IF entry # Nothing THEN entry.dict ELSE 0}
     IN heap' = Swept(heap, used)
  /\ UNCHANGED <<serp, entry>>

-----------------------------------------------------------------------------
(* ScrapingStep.                                                           *)

\* No URLs: the step is tried once more, with the same URLs.
NothingToScrape(t) ==
  /\ search[t].at = "scrape" /\ saved[t] = {}
  /\ search' = [search EXCEPT ![t].tries = Fewer(@ + 1, SerpRetries),
                              ![t].at = IF search[t].tries < SerpRetries THEN "scrape" ELSE "failed"]
  /\ UNCHANGED <<serp, heap, entry, saved>>

\* Every page comes from the scrape cache, from Serper or directly, or fails, and an
\* excluded one is left out.  That nothing was got is an error no policy retries.
Scrape(t) ==
  /\ search[t].at = "scrape" /\ saved[t] # {}
  /\ \E got \in BOOLEAN :
       /\ got => Usable(saved[t]) # {}
       /\ search' = [search EXCEPT ![t].at = IF got THEN "done" ELSE "failed", ![t].tries = 0]
  /\ UNCHANGED <<serp, heap, entry, saved>>

-----------------------------------------------------------------------------
(* Operators and time.                                                     *)

\* A fetch that is under way will store what it fetched.
UnderWay == \E t \in Searchers : search[t].at \in {"google", "bing", "serpapi", "store"}

\* Mutant of Invalidate: only Redis is cleared.
InvalidateRedis ==
  /\ serp.clears < MaxClears
  /\ \E answers \in BOOLEAN :
       /\ serp.cache # "redis" => answers
       /\ entry' = IF answers /\ serp.cache = "redis" THEN Nothing ELSE entry
       /\ serp' = [serp EXCEPT !.clears = @ + 1, !.missed = ~answers \/ UnderWay]

\* The entry is deleted, unless Redis does not answer: then the error is swallowed.
Invalidate ==
  /\ serp.clears < MaxClears
  /\ \E answers \in BOOLEAN :
       /\ serp.cache # "redis" => answers
       /\ entry' = IF answers THEN Nothing ELSE entry
       /\ serp' = [serp EXCEPT !.clears = @ + 1, !.missed = ~answers \/ UnderWay]

ClearCache ==
  /\ Invalidate
  /\ UNCHANGED <<search, heap, saved>>

\* rerun-step of serp_research: also the task's own data go.
RerunSerp(t) ==
  /\ search[t].at \in {"done", "failed"}
  /\ Invalidate
  /\ search' = [search EXCEPT ![t] = Asking]
  /\ saved' = [saved EXCEPT ![t] = Nothing]
  /\ UNCHANGED <<heap>>

Expire ==
  /\ entry # Nothing
  /\ entry' = Nothing
  /\ UNCHANGED <<serp, search, heap, saved>>

SerpThread(t) ==
  \/ LookUp(t) \/ TakeUserUrls(t) \/ AskGoogle(t) \/ AskBing(t) \/ AskSerpApi(t) \/ Store(t)
  \/ ReadUrls(t) \/ WriteUrls(t) \/ SaveRow(t) \/ NothingToScrape(t) \/ Scrape(t)

SerpNext ==
  \/ \E t \in Searchers : SerpThread(t) \/ RerunSerp(t)
  \/ ClearCache \/ Expire

\* Every thread runs, and every call of a provider returns within its 30 seconds.
SerpFairness == \A t \in Searchers : WF_serpVars(SerpThread(t))

SerpSpec == SerpInit /\ [][SerpNext]_serpVars /\ SerpFairness

-----------------------------------------------------------------------------
SerpTypeOK ==
  /\ serp \in [engine : Engines, cache : Caches, clears : 0..MaxClears, missed : BOOLEAN]
  /\ \A t \in Searchers :
       /\ search[t].at \in {"lookup", "google", "bing", "serpapi", "store", "read", "write",
                            "save", "scrape", "done", "failed"}
       /\ search[t].tries \in 0..SerpRetries /\ search[t].attempt \in 1..SerpAttempts
       /\ search[t].google = Nothing \/ search[t].google \subseteq Urls
       /\ search[t].seen \subseteq Urls /\ search[t].dict \in {0} \cup Cells
       /\ saved[t] = Nothing \/ saved[t] \subseteq Urls
  /\ heap \in [Cells -> [urls : SUBSET Urls, usable : BOOLEAN]]

\* Where the cache keeps copies, a task saves URLs of the providers and its own, and it
\* has one for every domain of its own: another task's URLs never reach it through the
\* cache (serp_cache.py:101, serp_step.py:137).  The memory of the desktop hands out the
\* dict itself, and there it does not hold.
OwnUrls ==
  serp.cache # "memory" =>
    \A t \in Searchers : saved[t] # Nothing =>
      /\ saved[t] \subseteq UserUrls[t] \cup UNION Answers
      /\ DomainsOf(UserUrls[t]) \subseteq DomainsOf(saved[t])

\* The fallbacks lose nothing: if a provider asked in the last attempt named a URL that
\* may be used, the result has one (serp.py:739-790).
NothingLost ==
  \A t \in Searchers : search[t].at = "store" =>
    heap[search[t].dict].usable = (heap[search[t].dict].urls # {})

\* After an invalidation the cache serves nothing that was asked of a provider before it, by
\* whichever task; unless the invalidation was not answered, or a fetch was under way then and
\* stored its result later (serp_cache.py:50-64, 94-106, tasks.py:869).
ClearedIsGone ==
  entry # Nothing => serp.missed \/ entry.since = serp.clears

\* However the providers fail, a search ends.
SearchEnds == <>[](\A t \in Searchers : search[t].at \in {"done", "failed"})
=============================================================================
