------------------------------ MODULE Pipeline ------------------------------
(***************************************************************************)
(* The crawl loop of main() (src/src/main.cpp), composing the frontier      *)
(* (Frontier), the deduplicator (Dedup), the fetcher, the parser, the      *)
(* indexer (Indexer) and document storage.  The loop is one thread; the   *)
(* only other actors are the clock and the Redis server, which may stop    *)
(* answering between any two calls.                                        *)
(*                                                                         *)
(* pc is the point of the loop body main's thread is at:                   *)
(*   "next"        scheduler.get_next_task(task)                           *)
(*   "dedup"       dedup.is_url_seen(task.url)                             *)
(*   "fetch"       fetcher.fetch(task.url)                                 *)
(*   "content"     dedup.is_content_seen(fetch_result.content_hash)        *)
(*   "index"       parser.parse, indexer.index_document,                   *)
(*                 storage.save_document                                   *)
(*   "markUrl"     dedup.mark_url_seen(task.url)                           *)
(*   "markContent" dedup.mark_content_seen(content_hash, doc id)           *)
(*   "links"       scheduler.add_url for each link, mark_completed         *)
(*   "exit"        the while loop has ended                                *)
(* A step takes one Redis command at most, so a Redis failure can fall     *)
(* between any two of them.                                                *)
(***************************************************************************)
EXTENDS Integers, FiniteSets, Sequences, SequencesExt, TLC

CONSTANTS
    Urls, Hosts, HostOf, Priorities, RetryBackoff, PolitenessDelay, MaxTime,
    UrlDigest, Terms, MaxDocsPerSegment,
    None,          \* an absent value, and the result of resolving a link
                   \* into something that is not a URL
    Seeds,         \* the seed_urls vector of main
    MaxRetries,    \* scheduler.max_retries in the configuration
    Contents,      \* page bodies
    PageContent,   \* [Urls -> Contents], the body a successful fetch returns
    FetchMayFail,  \* URLs whose fetch may fail (non-2xx, transport error)
    ContentHash,   \* [Contents -> Nat], HashUtils::hash_content of a body
    PageTerms,     \* [Contents -> [Terms -> Nat]], term frequencies of a body
    PageLinks,     \* [Contents -> Seq(Link)], the <a href> of a body in
                   \* document order
    RedisMayCrash, \* whether the Redis server may stop answering
    SaveMayFail,   \* whether save_document may fail to open its file
    MaxRestarts    \* bound on the restarts of the crawler process

(***************************************************************************)
(* An href as the page writes it: "full" for one UrlUtils::resolve keeps   *)
(* with its scheme (absolute, or joined to the base URL's directory), and *)
(* "root_relative" for one that starts with '/'.  target is the URL the    *)
(* author meant.                                                           *)
(***************************************************************************)
Link == [form: {"full", "root_relative"}, target: Urls]

ASSUME Seeds \in Seq(Urls) /\ MaxRetries \in Nat
ASSUME PageContent \in [Urls -> Contents] /\ FetchMayFail \subseteq Urls
ASSUME ContentHash \in [Contents -> Nat]
ASSUME PageTerms \in [Contents -> [Terms -> Nat]]
ASSUME \A c \in Contents : PageLinks[c] \in Seq(Link)
ASSUME MaxRestarts \in Nat

VARIABLES
    queue, backoff, now,                                  \* Frontier
    localUrl, localContent, useLocalFallback, redisAvailable,
    redisUrl, redisContent, redisUp,                      \* Dedup
    nextDocId, totalDocuments, forward, postings, docLengths,
    currentSegmentSize, segmentCount,                     \* Indexer
    docs,      \* Storage: the doc id of each docs/<id>.doc -> URL line
    pc,        \* where main's thread is in the loop body
    task,      \* the CrawlTask local of main
    body,      \* fetch_result.content
    restarts,  \* how often the crawler process has been restarted
    \* history, read only by the properties
    failures,     \* how many fetches of each URL have failed
    admissions,   \* how often add_url has queued each URL
    lastSuccess,  \* when a fetch from each host last succeeded
    skipped,      \* bodies is_content_seen has reported as duplicates
    indexedUrls   \* URLs any run of the process has indexed

ContentKeys == {ContentHash[c] % 256 : c \in Contents}

F == INSTANCE Frontier
D == INSTANCE Dedup
I == INSTANCE Indexer

frontierVars == <<queue, backoff, now>>
dedupVars == <<localUrl, localContent, useLocalFallback, redisAvailable,
               redisUrl, redisContent, redisUp>>
indexerVars == <<nextDocId, totalDocuments, forward, postings, docLengths,
                 currentSegmentSize, segmentCount>>
historyVars == <<failures, admissions, lastSuccess, skipped, indexedUrls>>
vars == <<frontierVars, dedupVars, indexerVars, docs, pc, task, body,
          restarts, historyVars>>

(***************************************************************************)
(* The content key.  Fetcher::fetch assigns the uint64_t hash_content to   *)
(* the std::string content_hash, which takes the value as one char: the    *)
(* low byte.  is_content_seen and mark_content_seen then key both tiers on *)
(* that one-character string (stoull of it, or hash_content of it, both    *)
(* one-to-one on the byte), so the key is the hash modulo 2^8.             *)
(***************************************************************************)
ContentKey(c) == ContentHash[c] % 256

(***************************************************************************)
(* UrlUtils::resolve(base, href): an absolute href is kept, a path-        *)
(* relative one is joined to the base's directory with its scheme; one     *)
(* starting with '/' becomes extract_domain(base) + href, with no scheme,  *)
(* which add_url's is_valid then refuses.                                  *)
(***************************************************************************)
Resolve(l) == IF l.form = "root_relative" THEN None ELSE l.target

NoTask == [url |-> None, priority |-> 0, retry |-> 0, ready |-> 0]

\* How often u occurs in the sequence s.
Occurrences(s, u) == Cardinality({i \in DOMAIN s : s[i] = u})

\* The queue add_seed_urls leaves: add_url(url) for each seed in order.
\* (It would stop at the first seed is_valid refuses; the seeds are valid.)
SeedQueue == FoldLeft(LAMBDA v, u : F!AddUrlTo(v, u, 0), <<>>, Seeds)

(***************************************************************************)
(* main() up to the loop: init_redis (and the local fallback when it       *)
(* fails), scheduler.start() (running_ is set from here until after the    *)
(* loop, so the model leaves it out), and add_seed_urls.                   *)
(***************************************************************************)
Init ==
    /\ now = 0
    /\ backoff = [h \in Hosts |-> 0]
    /\ queue = SeedQueue
    /\ D!InitRedis
    /\ I!Init
    /\ docs = <<>>
    /\ pc = "next"
    /\ task = NoTask
    /\ body = None
    /\ restarts = 0
    /\ failures = [u \in Urls |-> 0]
    /\ admissions = [u \in Urls |-> Occurrences(Seeds, u)]
    /\ lastSuccess = [h \in Hosts |-> -PolitenessDelay]
    /\ skipped = {}
    /\ indexedUrls = {}

\* while (scheduler.get_next_task(task)): a task is returned.
NextTask ==
    /\ pc = "next"
    /\ F!GetNextTask
    /\ task' = F!Top
    /\ pc' = "dedup"
    /\ UNCHANGED <<dedupVars, indexerVars, docs, body,
                   restarts, historyVars>>

\* get_next_task returns false, and the while loop ends.
LoopExit ==
    /\ pc = "next"
    /\ F!NoTaskReady
    /\ pc' = "exit"
    /\ UNCHANGED <<dedupVars, indexerVars, docs, task, body,
                   restarts, historyVars>>

\* if (dedup.is_url_seen(task.url)) { mark_completed; continue; }
CheckUrl ==
    /\ pc = "dedup"
    /\ \E seen \in BOOLEAN :
          /\ D!IsUrlSeen(task.url, seen)
          /\ pc' = IF seen THEN "next" ELSE "fetch"
    /\ UNCHANGED <<frontierVars, indexerVars, docs, task, body,
                   restarts, historyVars>>

\* fetcher.fetch(task.url) succeeds with the page body.
FetchOk ==
    /\ pc = "fetch"
    /\ body' = PageContent[task.url]
    /\ lastSuccess' = [lastSuccess EXCEPT ![HostOf[task.url]] = now]
    /\ pc' = "content"
    /\ UNCHANGED <<frontierVars, dedupVars, indexerVars, docs, task, restarts,
                   failures, admissions, skipped, indexedUrls>>

\* The fetch fails: mark_failed(task.url, task.retry_count < max_retries).
FetchFailed ==
    /\ pc = "fetch"
    /\ task.url \in FetchMayFail
    /\ F!MarkFailed(task.url, task.retry < MaxRetries)
    /\ failures' = [failures EXCEPT ![task.url] = @ + 1]
    /\ pc' = "next"
    /\ UNCHANGED <<dedupVars, indexerVars, docs, task, body, restarts,
                   admissions, lastSuccess, skipped, indexedUrls>>

\* if (dedup.is_content_seen(fetch_result.content_hash)) { ...; continue; }
CheckContent ==
    /\ pc = "content"
    /\ \E seen \in BOOLEAN :
          /\ D!IsContentSeen(ContentKey(body), seen)
          /\ pc' = IF seen THEN "next" ELSE "index"
          /\ skipped' = IF seen THEN skipped \cup {body} ELSE skipped
    /\ UNCHANGED <<frontierVars, indexerVars, docs, task, body, restarts,
                   failures, admissions, lastSuccess, indexedUrls>>

\* Fault model: the file named after next_doc_id_ read after the call.
IndexFileNextId ==
    /\ pc = "index"
    /\ I!IndexDocument(task.url, PageTerms[body])
    /\ \/ docs' = [d \in DOMAIN docs \cup {nextDocId'} |->
                      IF d = nextDocId' THEN task.url ELSE docs[d]]
       \/ SaveMayFail /\ UNCHANGED docs
    /\ indexedUrls' = indexedUrls \cup {task.url}
    /\ pc' = "markUrl"
    /\ UNCHANGED <<frontierVars, dedupVars, task, body, restarts,
                   failures, admissions, lastSuccess, skipped>>

(***************************************************************************)
(* parser.parse, indexer.index_document, then                              *)
(* storage.save_document(indexer.total_documents(), task.url, ...), which  *)
(* writes docs/<id>.doc, replacing a file of that name, or returns false   *)
(* when the file cannot be opened; main ignores the result and goes on.    *)
(***************************************************************************)
Index ==
    /\ pc = "index"
    /\ I!IndexDocument(task.url, PageTerms[body])
    /\ \/ docs' = [d \in DOMAIN docs \cup {totalDocuments'} |->
                      IF d = totalDocuments' THEN task.url ELSE docs[d]]
       \/ SaveMayFail /\ UNCHANGED docs
    /\ indexedUrls' = indexedUrls \cup {task.url}
    /\ pc' = "markUrl"
    /\ UNCHANGED <<frontierVars, dedupVars, task, body, restarts,
                   failures, admissions, lastSuccess, skipped>>

\* dedup.mark_url_seen(task.url)
MarkUrl ==
    /\ pc = "markUrl"
    /\ D!MarkUrlSeen(task.url)
    /\ pc' = "markContent"
    /\ UNCHANGED <<frontierVars, indexerVars, docs, task, body,
                   restarts, historyVars>>

\* dedup.mark_content_seen(fetch_result.content_hash, ...)
MarkContent ==
    /\ pc = "markContent"
    /\ D!MarkContentSeen(ContentKey(body))
    /\ pc' = "links"
    /\ UNCHANGED <<frontierVars, indexerVars, docs, task, body,
                   restarts, historyVars>>

\* for each link: scheduler.add_url(link, 0); then mark_completed.
AddLinks ==
    LET targets == [i \in DOMAIN PageLinks[body] |-> Resolve(PageLinks[body][i])]
    IN
    /\ pc = "links"
    /\ queue' = FoldLeft(LAMBDA v, u : F!AddUrlTo(v, u, 0), queue, targets)
    /\ admissions' = [u \in Urls |-> admissions[u] + Occurrences(targets, u)]
    /\ UNCHANGED <<backoff, now>>
    /\ pc' = "next"
    /\ UNCHANGED <<dedupVars, indexerVars, docs, task, body, restarts,
                   failures, lastSuccess, skipped, indexedUrls>>

\* The Redis server stops answering.
RedisCrash ==
    /\ RedisMayCrash
    /\ D!RedisCrash
    /\ UNCHANGED <<frontierVars, indexerVars, docs, pc, task, body,
                   restarts, historyVars>>

\* Time passes.
Tick ==
    /\ F!Tick
    /\ UNCHANGED <<dedupVars, indexerVars, docs, pc, task, body,
                   restarts, historyVars>>

(***************************************************************************)
(* The crawler process dies between any two steps and is started again.   *)
(* Everything in memory is gone: the new process runs main() from the top  *)
(* (Scheduler, Deduplicator and Indexer built afresh, init_redis, the      *)
(* seeds).  What outlives it: the files under ./data/docs, the Redis       *)
(* server and its keys, and the steady clock.                              *)
(***************************************************************************)
Restart ==
    /\ restarts < MaxRestarts
    /\ restarts' = restarts + 1
    /\ queue' = SeedQueue
    /\ backoff' = [h \in Hosts |-> 0]
    /\ D!ReinitRedis
    /\ nextDocId' = 1 /\ totalDocuments' = 0
    /\ forward' = <<>> /\ docLengths' = <<>>
    /\ postings' = [t \in Terms |-> <<>>]
    /\ currentSegmentSize' = 0 /\ segmentCount' = 0
    /\ pc' = "next"
    /\ task' = NoTask
    /\ body' = None
    /\ admissions' = [u \in Urls |-> admissions[u] + Occurrences(Seeds, u)]
    /\ UNCHANGED <<now, docs, failures, lastSuccess, skipped, indexedUrls>>

\* The steps of main's thread.
Crawl ==
    \/ NextTask \/ LoopExit \/ CheckUrl \/ FetchOk \/ FetchFailed
    \/ CheckContent \/ Index \/ MarkUrl \/ MarkContent \/ AddLinks

Next == Crawl \/ RedisCrash \/ Restart \/ Tick

Spec == Init /\ [][Next]_vars

(***************************************************************************)
(* The crawl thread runs whenever it has a step to take: every call it     *)
(* makes returns (curl has connect and read timeouts, Redis commands have  *)
(* a 1.5 s connect timeout and fail otherwise), and it is the only thread  *)
(* of the crawl.  The steady clock keeps advancing.  The Redis server and  *)
(* the process restarts are environment: nothing obliges them to act.     *)
(***************************************************************************)
FairSpec == Spec /\ WF_vars(Crawl) /\ WF_vars(Tick)

TypeOK ==
    /\ F!TypeOK /\ D!TypeOK /\ I!TypeOK
    /\ DOMAIN docs \subseteq Nat /\ \A d \in DOMAIN docs : docs[d] \in Urls
    /\ pc \in {"next", "dedup", "fetch", "content", "index", "markUrl",
               "markContent", "links", "exit"}
    /\ task \in F!Task \cup {NoTask}
    /\ body \in Contents \cup {None}
    /\ failures \in [Urls -> Nat]
    /\ admissions \in [Urls -> Nat]
    /\ lastSuccess \in [Hosts -> (-PolitenessDelay)..MaxTime]
    /\ skipped \subseteq Contents
    /\ restarts \in 0..MaxRestarts
    /\ indexedUrls \subseteq Urls

(***************************************************************************)
(* The index invariant of Indexer (sorted posting lists naming admitted    *)
(* documents, lengths equal to the positions held), in the crawl loop      *)
(* where index_document is called once per admitted body.                 *)
(***************************************************************************)
IndexConsistent == I!IndexConsistent

(***************************************************************************)
(* Spec 1 and 4.6 (storage is a write-through archive keyed by doc id):    *)
(* every document in the index is archived, and docs/<id>.doc holds the   *)
(* URL the indexer filed under <id>.  main names the file after            *)
(* indexer.total_documents(), not after the id index_document allocated;   *)
(* the two agree only because next_doc_id_ starts at 1 and both advance   *)
(* together on every admission.  save_document's result is ignored.       *)
(***************************************************************************)
StorageMatchesIndex ==
    \A d \in I!DocIds : d \in DOMAIN docs /\ docs[d] = forward[d]

(***************************************************************************)
(* What survives failed saves and restarts of the same contract: a file    *)
(* save_document writes is named after the id index_document just gave    *)
(* that URL.  main names it indexer.total_documents() read after the call, *)
(* so this rests on the id counter and the document count starting and    *)
(* advancing together, in every process.                                   *)
(***************************************************************************)
FileWrittenUnderDocId ==
    [][\A d \in DOMAIN docs' :
          (d \notin DOMAIN docs \/ docs'[d] # docs[d])
             => d \in I!DocIds' /\ forward'[d] = docs'[d]]_vars

(***************************************************************************)
(* Spec 4.1 and 8, invariant 4: an indexed URL is fetched again only      *)
(* when its mark went to the Redis tier alone and that tier has since been *)
(* lost.  With a working Redis, and with the local fallback from the       *)
(* start, is_url_seen stops the re-crawl although the link cycle queues    *)
(* the URL again.  (A URL whose body was a content duplicate is never      *)
(* marked, by main and by spec 4.6 alike, and is fetched each time it is   *)
(* queued.)                                                                *)
(***************************************************************************)
IndexedUrlNotRefetched ==
    [][FetchOk =>
         \/ task.url \notin {forward[d] : d \in I!DocIds}
         \/ UrlDigest[task.url] \in redisUrl /\ ~redisUp]_vars

(***************************************************************************)
(* Spec 4.3: a task that keeps failing is dropped after max_retries        *)
(* retries, so each admission of a URL costs at most MaxRetries + 1        *)
(* failed fetches.  main decides the retry on task.retry_count, which      *)
(* mark_failed sets to 1 on every re-queue.                                *)
(***************************************************************************)
RetryBudget ==
    \A u \in Urls : failures[u] <= admissions[u] * (MaxRetries + 1)

(***************************************************************************)
(* Spec 4.3: the frontier reports the end of the crawl only when it is     *)
(* drained; a consumer told "no task ready" sleeps and asks again.  main   *)
(* ends its while loop on any false from get_next_task, and get_next_task  *)
(* returns false also for a queued task that is not due yet or whose host *)
(* is in its politeness window.                                            *)
(***************************************************************************)
LoopExitsOnlyWhenDrained ==
    pc = "exit" => queue = <<>>

(***************************************************************************)
(* Spec 4.3 and 8, invariant 6: after a successful fetch from host h,     *)
(* get_next_task returns no task for h within PolitenessDelay.  The        *)
(* scheduler opens the window only in mark_failed; a success never        *)
(* reaches update_domain_backoff.                                          *)
(***************************************************************************)
PolitenessAfterSuccess ==
    [][NextTask => now >= lastSuccess[HostOf[task'.url]] + PolitenessDelay]_vars

(***************************************************************************)
(* Spec 4.1 and 8 (scenario 2): a body is skipped as a duplicate only when *)
(* the same body has been indexed before.  The content key keeps one byte  *)
(* of the 64-bit hash, so two bodies whose hashes share the low byte are   *)
(* taken for each other.                                                   *)
(***************************************************************************)
NoFalseContentDuplicate ==
    skipped \subseteq {PageContent[u] : u \in indexedUrls}

(***************************************************************************)
(* Spec 4.1 and 8, invariant 4: is_url_seen reports a URL seen only when  *)
(* it was marked, which main does after indexing it, so the loop skips a  *)
(* URL as a duplicate only when that URL was indexed before (in this or   *)
(* an earlier process).  The digest is hash_url's 64-bit djb2, and two    *)
(* URLs with the same digest are taken for each other.                    *)
(***************************************************************************)
NoFalseUrlDuplicate ==
    [][CheckUrl /\ pc' = "next" => task.url \in indexedUrls]_vars

(***************************************************************************)
(* Spec 4.4 and 8 (scenario 3): every link of an indexed page is handed to *)
(* the frontier, which queues it.  A root-relative href resolves to a      *)
(* string without a scheme, which add_url refuses.                         *)
(***************************************************************************)
DiscoveredLinksAdmitted ==
    [][AddLinks =>
         \A l \in Range(PageLinks[body]) : admissions'[l.target] > admissions[l.target]]_vars

(***************************************************************************)
(* Spec 1 and 8, invariant 1: doc ids are unique, so an archived document  *)
(* is never replaced by another.  A restarted process starts next_doc_id_  *)
(* at 1 again (nothing is read back from ./data), and save_document opens *)
(* docs/<id>.doc for writing, truncating the earlier run's file.           *)
(***************************************************************************)
ArchiveNeverOverwritten ==
    [][\A d \in DOMAIN docs : docs'[d] = docs[d]]_vars

(***************************************************************************)
(* Spec 5 (shutdown): the crawl loop ends, so main reaches its cleanup.    *)
(* get_next_task sleeps while the queue is empty and running_ is set,      *)
(* holding queue_mutex_; running_ is cleared only by scheduler.stop(),     *)
(* which main calls after the loop, and main is the only thread that adds *)
(* to the queue.                                                           *)
(***************************************************************************)
CrawlEnds == <>(pc = "exit")

=============================================================================
