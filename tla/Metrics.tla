------------------------------ MODULE Metrics ------------------------------
(***************************************************************************)
(* The Metrics singleton (src/src/observability/metrics.cpp) as the crawl  *)
(* thread and the API worker threads of crow (src/src/api/api_server.cpp)  *)
(* use it concurrently.                                                    *)
(*                                                                         *)
(* counters_ is a std::unordered_map<std::string, std::atomic<int64_t>>    *)
(* with no lock.  increment_counter does counters_[name] += value:         *)
(* operator[] finds the node, or builds one and links it into the bucket   *)
(* array, and the += is an atomic fetch_add on the node.  Finding an       *)
(* existing node and the fetch_add are one step here.  An insertion is two *)
(* steps: the bucket array is read, then the new node is linked into it.   *)
(* Two insertions that overlap are a data race (undefined behaviour); the  *)
(* outcomes the model allows are the one where the later link was built on *)
(* the array as it was before the earlier link (that node is lost) and the *)
(* one where both links land.                                              *)
(*                                                                         *)
(* histograms_ is guarded by histograms_mutex_, so record_histogram is one *)
(* step.  GET /metrics runs to_prometheus, which walks counters_ without a *)
(* lock: the walk begins, and ends with the counters it listed.  An        *)
(* insertion that links a node meanwhile may rehash the table under the    *)
(* walk (undefined behaviour); the model lets such a walk miss any node.   *)
(* Gauges (set by main only) and the text of the output are left out.      *)
(* Latencies are drawn from a small set.                                   *)
(***************************************************************************)
EXTENDS Naturals, Sequences, FiniteSets

CONSTANTS
    CrawlThread,   \* main's thread, the crawl loop
    ApiThreads,    \* crow's worker threads
    SearchKey,     \* "api_search_requests"
    RecommendKey,  \* "api_recommend_requests"
    CrawlKey,      \* "crawl_attempts", one of main's counters
    Latencies,     \* the latencies a /search may take, in ms
    HistogramCap,  \* the 1000 of record_histogram
    MaxCalls       \* bound on the calls each thread makes

Threads == {CrawlThread} \cup ApiThreads
Keys == {SearchKey, RecommendKey, CrawlKey}

VARIABLES
    counters,  \* counters_: the nodes linked in, key -> value
    pcT,       \* where each thread is: "idle", "link" or "record"
    key,       \* the key each thread's increment_counter is for
    view,      \* the keys of the bucket array a thread read before linking
    after,     \* what the thread does once its increment is over
    calls,     \* how many calls each thread has begun
    hist,      \* histograms_["api_search_latency_ms"]
    done,      \* history: the increments of each key that have returned
    recorded,  \* history: every latency ever recorded, in order
    scrapes    \* history: keys at begin and end, and listed, of each scrape

vars == <<counters, pcT, key, view, after, calls, hist, done, recorded, scrapes>>

TypeOK ==
    /\ DOMAIN counters \subseteq Keys
    /\ \A k \in DOMAIN counters : counters[k] \in Nat
    /\ pcT \in [Threads -> {"idle", "link", "record", "scrape"}]
    /\ key \in [Threads -> Keys]
    /\ view \in [Threads -> SUBSET Keys]
    /\ after \in [Threads -> {"idle", "record"}]
    /\ calls \in [Threads -> 0..MaxCalls]
    /\ hist \in Seq(Latencies) /\ Len(hist) <= HistogramCap
    /\ done \in [Keys -> Nat]
    /\ recorded \in Seq(Latencies)
    /\ scrapes \subseteq [began : SUBSET Keys, ended : SUBSET Keys, listed : SUBSET Keys]

Init ==
    /\ counters = <<>>
    /\ pcT = [t \in Threads |-> "idle"]
    /\ key = [t \in Threads |-> CrawlKey]
    /\ view = [t \in Threads |-> {}]
    /\ after = [t \in Threads |-> "idle"]
    /\ calls = [t \in Threads |-> 0]
    /\ hist = <<>>
    /\ done = [k \in Keys |-> 0]
    /\ recorded = <<>>
    /\ scrapes = {}

(***************************************************************************)
(* increment_counter(k), first step: an existing node gets the fetch_add   *)
(* and the call returns; a missing one makes the thread read the bucket    *)
(* array and go on to link a node.  nxt is what the caller does next.      *)
(***************************************************************************)
IncrementCounter(t, k, nxt) ==
    /\ calls' = [calls EXCEPT ![t] = @ + 1]
    /\ key' = [key EXCEPT ![t] = k]
    /\ after' = [after EXCEPT ![t] = nxt]
    /\ IF k \in DOMAIN counters
       THEN /\ counters' = [counters EXCEPT ![k] = @ + 1]
            /\ done' = [done EXCEPT ![k] = @ + 1]
            /\ pcT' = [pcT EXCEPT ![t] = nxt]
            /\ UNCHANGED view
       ELSE /\ view' = [view EXCEPT ![t] = DOMAIN counters]
            /\ pcT' = [pcT EXCEPT ![t] = "link"]
            /\ UNCHANGED <<counters, done>>
    /\ UNCHANGED <<hist, recorded, scrapes>>

\* The keys and values of the map the link leaves: ks, with the new node.
Linked(ks, k) == [j \in ks \cup {k} |-> IF j = k THEN 1 ELSE counters[j]]

(***************************************************************************)
(* Second step of an insertion: the new node, holding 1, is linked in.     *)
(* Without an overlapping insertion the other nodes stay.  With one (a     *)
(* node linked since the array was read), the link may be built on the     *)
(* array as read, losing that node, or land beside it.                     *)
(***************************************************************************)
LinkNode(t) ==
    LET k == key[t]
        racing == DOMAIN counters # view[t]
    IN
    /\ pcT[t] = "link"
    /\ \/ counters' = Linked(DOMAIN counters, k)
       \/ racing /\ counters' = Linked(view[t] \cap DOMAIN counters, k)
    /\ done' = [done EXCEPT ![k] = @ + 1]
    /\ pcT' = [pcT EXCEPT ![t] = after[t]]
    /\ UNCHANGED <<key, view, after, calls, hist, recorded, scrapes>>

\* Fault model: the oldest value dropped once the size reaches the cap.
RecordHistogramGe(t, v) ==
    /\ pcT[t] = "record"
    /\ LET h == Append(hist, v)
       IN  hist' = IF Len(h) >= HistogramCap THEN Tail(h) ELSE h
    /\ recorded' = Append(recorded, v)
    /\ pcT' = [pcT EXCEPT ![t] = "idle"]
    /\ UNCHANGED <<counters, key, view, after, calls, done, scrapes>>

(***************************************************************************)
(* record_histogram(name, v) under histograms_mutex_: append, then erase   *)
(* the oldest value when there are more than 1000.                         *)
(***************************************************************************)
RecordHistogram(t, v) ==
    /\ pcT[t] = "record"
    /\ LET h == Append(hist, v)
       IN  hist' = IF Len(h) > HistogramCap THEN Tail(h) ELSE h
    /\ recorded' = Append(recorded, v)
    /\ pcT' = [pcT EXCEPT ![t] = "idle"]
    /\ UNCHANGED <<counters, key, view, after, calls, done, scrapes>>

\* A thread is free to begin another call.
Free(t) == pcT[t] = "idle" /\ calls[t] < MaxCalls

(***************************************************************************)
(* GET /search with a non-empty q: increment_counter, then (the search     *)
(* itself is a TODO that returns no results) record_histogram of the       *)
(* latency.  A missing q is answered 400 before any metric is touched.    *)
(***************************************************************************)
Search(t) == Free(t) /\ IncrementCounter(t, SearchKey, "record")

\* GET /recommend with a non-empty sku: increment_counter only.
Recommend(t) == Free(t) /\ IncrementCounter(t, RecommendKey, "idle")

\* main's loop: increment_counter("crawl_attempts") on each task.
CrawlAttempt == Free(CrawlThread) /\ IncrementCounter(CrawlThread, CrawlKey, "idle")

(***************************************************************************)
(* GET /metrics: to_prometheus starts its walk of counters_ at the nodes   *)
(* linked now, and ends it, listing every node it met.  With no node       *)
(* linked meanwhile it lists all of them (and no lost node comes back);    *)
(* with one, the table may have been rehashed under it, and it lists any   *)
(* of the nodes.  The histogram part runs under histograms_mutex_ and     *)
(* reads only.                                                             *)
(***************************************************************************)
ScrapeBegin(t) ==
    /\ Free(t)
    /\ calls' = [calls EXCEPT ![t] = @ + 1]
    /\ view' = [view EXCEPT ![t] = DOMAIN counters]
    /\ pcT' = [pcT EXCEPT ![t] = "scrape"]
    /\ UNCHANGED <<counters, key, after, hist, done, recorded, scrapes>>

ScrapeEnd(t) ==
    /\ pcT[t] = "scrape"
    /\ \E listed \in SUBSET DOMAIN counters :
          /\ DOMAIN counters = view[t] => listed = DOMAIN counters
          /\ scrapes' = scrapes \cup {[began |-> view[t], ended |-> DOMAIN counters,
                                        listed |-> listed]}
    /\ pcT' = [pcT EXCEPT ![t] = "idle"]
    /\ UNCHANGED <<counters, key, view, after, calls, hist, done, recorded>>

Next ==
    \/ \E t \in ApiThreads : Search(t) \/ Recommend(t)
    \/ CrawlAttempt
    \/ \E t \in Threads : LinkNode(t)
    \/ \E t \in ApiThreads, v \in Latencies : RecordHistogram(t, v)
    \/ \E t \in ApiThreads : ScrapeBegin(t) \/ ScrapeEnd(t)

Spec == Init /\ [][Next]_vars

(***************************************************************************)
(* Spec 5: counters are lock-free atomics that any thread may write, so    *)
(* get_counter(k) (0 for a missing node) is the number of increments of k  *)
(* that have returned.  Two threads inserting a key for the first time,    *)
(* the same key or two different ones, race on the map itself.            *)
(***************************************************************************)
CounterValue(k) == IF k \in DOMAIN counters THEN counters[k] ELSE 0

CountersCountEveryIncrement == \A k \in Keys : CounterValue(k) = done[k]

(***************************************************************************)
(* The latency histogram holds the most recent values recorded, in order:  *)
(* all of them up to the cap, then exactly the last HistogramCap.  Several *)
(* API threads record at once; the mutex orders them.                     *)
(***************************************************************************)
HistogramKeepsLatest ==
    LET n == Len(recorded)
        m == IF n < HistogramCap THEN n ELSE HistogramCap
    IN  hist = SubSeq(recorded, n - m + 1, n)

(***************************************************************************)
(* Spec 5 (GET /metrics in Prometheus format): a scrape lists every        *)
(* counter that existed when it began and still exists when it ends.  The *)
(* walk of counters_ in to_prometheus takes no lock while API threads and  *)
(* the crawl thread may insert their first counter.                        *)
(***************************************************************************)
ScrapeListsEveryCounter ==
    \A s \in scrapes : s.began \cap s.ended \subseteq s.listed


=============================================================================
