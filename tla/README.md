# TLA+ models of the web crawler

This directory holds TLA+ models of the crawl pipeline in `src/src` and the TLC
configurations that check them. The natural-language specification is `spec.md`,
and the models are written from the C++ source.

## The system

`main()` (src/src/main.cpp) runs a single crawl thread. It drives five components:

| part | code | state it owns |
|---|---|---|
| Frontier | `Scheduler` (scheduler/) | `task_queue_` (a `std::priority_queue<CrawlTask>` ordered by priority alone) and `domain_backoff_` (host → earliest next contact) |
| Deduplicator | `Deduplicator` (dedup/) | `local_url_set_` and `local_content_set_`, the flags `redis_available_` and `use_local_fallback_`, and the Redis keys `dedup:url:*` and `dedup:content:*` |
| Fetcher | `Fetcher` (fetcher/) | none; it returns a `FetchResult` whose `content_hash` is a `std::string` |
| Parser | `Parser` (parser/) | none; it returns the terms with their positions, and the hrefs resolved with `UrlUtils::resolve` |
| Indexer | `Indexer` (indexer/) | `next_doc_id_`, `inverted_index_`, `forward_index_`, `doc_lengths_`, `avg_doc_length_`, `total_documents_`, and the segment counters; `search` reads them under the same mutex |
| Storage | `Storage` (storage/) | the files `docs/<id>.doc` and `checkpoints/latest.ckpt` |
| Configuration | `Config` (utils/) | the option members, defaulted in config.h and assigned by `load` from a YAML file; main exits when `load` returns false, and the constructors copy their parameters out of it |
| Metrics | `Metrics` (observability/) | `counters_` (an unlocked `unordered_map` of atomics) and `histograms_` (under `histograms_mutex_`); `/metrics` reads both through `to_prometheus` |
| Logger | `Logger` (observability/) | `min_level_`, `json_format_` and `file_output_`; it writes one line per call to the file or stdout |

Each loop iteration runs these steps in order:
1. `get_next_task`
2. `is_url_seen`
3. `fetch` (on failure, `mark_failed(url, retry_count < max_retries)`)
4. `is_content_seen`
5. `parse`, `index_document`, and `save_document(total_documents(), …)`
6. `mark_url_seen` and `mark_content_seen`
7. `add_url` for every link, then `mark_completed`

The loop ends the first time `get_next_task` returns false.

The Redis server is the only actor besides this thread that changes crawl state: it may stop answering between any two commands. A command that gets no reply clears `redis_available_` for the rest of the process. The steady clock decides:
- whether a re-queued task is due;
- whether a host's politeness window is over.

The API threads (crow) share only the `Metrics` singleton with the crawl. Their `/search` route is a TODO that never calls the indexer. `Scheduler::worker_thread` is an empty placeholder. So the crawl has one thread, and its concurrency lies in its interleaving with Redis failures and with time. The real thread concurrency is in `Metrics`: the crawl thread and crow's workers all call `increment_counter`, and the workers call `record_histogram` and, for `/metrics`, walk `counters_` with no lock in `to_prometheus`.

The process may also restart. Everything in memory is then lost: the index, the frontier and the local dedup sets. The Redis keys and the files under `data/` survive.

## Modules

- **Frontier.tla** — the scheduler.
  - `queue` is the vector under `task_queue_`, a sequence of task records (`url`, `priority`, `retry` = `retry_count`, `ready` = `next_retry_time`). `backoff` is `domain_backoff_`, with 0 for "no entry". `now` is the clock in ticks.
  - `CrawlTask::operator<` compares priorities only, so among equal priorities the top depends on the heap layout. The model therefore runs libstdc++'s heap algorithms on the vector: `SiftUp` is `__push_heap`, `SiftDown` is the loop of `__adjust_heap`, and `Push`, `Pop` and `Top` are `push`, `pop` and `top`. They were compared with a compiled `std::priority_queue` on a 15-step sequence of pushes and pops with mixed priorities, and gave the same vector after every step.
  - The actions are:
    - `AddUrl` (add_url: invalid URLs are refused; `AddUrlTo` is the same call on a given vector, used to fold over seeds and links)
    - `GetNextTask` (both gates pass: the top task is popped)
    - `NoTaskReady` (either gate fails: the task is popped and pushed back, which may move it in the heap)
    - `MarkCompleted`
    - `MarkFailed` (two disjuncts, with and without retry)
    - `Tick`
  - `MarkFailed` with a retry is one action: the push with `retry_count = 1`, then `update_domain_backoff` (`UpdateDomainBackoff`).
- **Dedup.tla** — the deduplicator.
  - `AvailableAfterCall` is `redis_available_` once a Redis helper has sent its command. `LocalConsulted` is the condition `use_local_fallback_ || !redis_available_`, which the callers re-read after that command.
  - `UrlSeen` and `ContentSeen` are what `is_url_seen` and `is_content_seen` return.
  - Every action is one public call with all the helper calls it makes: `IsUrlSeen`, `MarkUrlSeen`, `IsContentSeen`, `MarkContentSeen`. The environment action `RedisCrash` stops the server.
  - `InitRedis` is `init_redis` together with main's `enable_local_fallback(true)` when it fails.
- **MCDedup.tla** — Dedup with history variables:
  - `markedUrl` and `markedContent`: everything marked;
  - `degradedUrl` and `degradedContent`: what was marked by a call after which Redis was unavailable.
  - `TierHoldsEveryMark` is true while Redis still answers, or when the local sets were in use from start-up.
- **Indexer.tla** — document admission.
  - A document is its URL and its term frequencies. The frequencies are all that admission reads of `term_positions`.
  - `IndexDocument` is the whole of `index_document`: id allocation, appending postings, length, forward entry, counters, and the flush when the segment is full. `FlushSegment` is `flush_segment` / `merge_segments`.
- **IndexSearch.tla** — `search` and `calculate_bm25` over Indexer's state. search writes nothing under its lock, so it is a set of operators: `SearchResults(q, k)` is every list the call can return in the current state.
  - A query word is a term spelt in lower case, upper case, or with a trailing punctuation mark. `Token` is `::tolower`; `Found` is the `inverted_index_` lookup, which only a lower-case word without punctuation passes.
  - `Candidates` are the documents that get a `doc_scores` entry: every posting of a found term, including a term with idf 0.
  - `Bm25` is calculate_bm25 in exact rationals, with `AvgDocLength` the mean that the incremental update keeps. `IdfPositive` says whether `log(N / df)` is above 0.
  - `SortedByScore` is `std::sort` by descending score over `unordered_map` order. Any order of equal scores is allowed. `Limit` is `min(static_cast<size_t>(topk), n)`: a negative topk returns every match.
- **MCSearch.tla** — the indexer admitting up to three documents, with a ghost `admitted` (doc id → term frequencies). In every state, the properties range over every query of up to two words with at most one distinct known term, and over topk ∈ {-1, 0, 1, 2}.
- **Pipeline.tla** — main's loop, composing `F == INSTANCE Frontier`, `D == INSTANCE Dedup` and `I == INSTANCE Indexer` over shared variables.
  - `pc` names the step main's thread is at. Each action is one step between two Redis commands, so a `RedisCrash` can fall between any two of them.
  - A page is a body (`PageContent`). A body has term frequencies (`PageTerms`) and hrefs (`PageLinks`). An href is full or root-relative, and `Resolve` models `UrlUtils::resolve`: a root-relative href becomes a string without a scheme, which `add_url` refuses.
  - `ContentKey` models the conversion in `Fetcher::fetch`: the `uint64_t` hash is assigned to a `std::string`, which keeps one char. The dedup key is therefore the hash mod 256.
  - `docs` is the storage directory: file id → URL.
  - `Index` is the whole of steps 5 and 6 of the loop: `index_document`, then `save_document`. With `SaveMayFail`, the save may fail to open its file and write nothing. main ignores the `false` it returns.
  - `Restart` is a new process (bounded by `MaxRestarts`). The frontier gets the seeds again. `D!ReinitRedis` reconnects: the local sets start empty and the Redis keys are kept. The indexer starts from `next_doc_id_ = 1`. `docs` and the clock are kept.
  - `Crawl` is the disjunction of the crawl thread's steps. `Next` adds `RedisCrash`, `Restart` and `Tick`.
  - History variables used only by properties: `failures`, `admissions`, `lastSuccess`, `skipped`, and `indexedUrls` (every URL ever indexed, in any process).
- **MCPipeline.tla** — concrete constants for Pipeline. The URLs are spelt as bytes (`http://p/ab`, `http://p/ba`, `http://q/ab`), and so are the bodies (`ab`, `ba`). Their digests and content hashes are computed with HashUtils.
- **HashUtils.tla** — `HashUtils::xxhash` as it builds. hash_utils.h never defines `XXHASH_H`, so the function is the djb2 fallback loop, written as a `FoldLeft` over the chars. `hash_url` and `hash_content` call it. The model computes the hash modulo 2^24, which is exactly the low 24 bits of the 64-bit value, since 2^24 divides 2^64.
- **IndexLog.tla** — the abstract specification of the indexer: an append-only log of documents, each a URL with term frequencies. Document `i` is the `i`-th admitted. It has two actions. `Admit` appends a document. `Forget` empties the log, because the index lives only in memory and a new process starts without it. MCPipeline maps the index onto it; `FlushSegment` and the steps that do not index map to stuttering steps.
- **Storage.tla** — the file formats of `Storage`. A file is a sequence of characters.
  - `SaveDocument` writes the URL line, a `key:value` line per metadata entry, `---`, then the body.
  - `GetLines` is `std::getline` (RECURSIVE). `LoadDocument` is load_document's loop, written as a `FoldLeft` over the lines.
  - `SaveCheckpoint` writes a `key=value` line per entry, in the map's iteration order. `LoadCheckpoint` splits each line at its first `=`, and a later line wins.
  - The variables are the inputs of a save, chosen in `Init`; `Next` leaves them unchanged.
- **MCStorage.tla** — a four-character alphabet: a plain character, `-`, `=` and newline.
- **Metrics.tla** — the `Metrics` singleton under the crawl thread and two API threads.
  - `increment_counter` for a key already in `counters_` is one atomic step. For a new key it takes two steps: `IncrementCounter` reads the bucket array (`view`), then `LinkNode` links the node.
  - Two insertions that overlap are a data race. `LinkNode` allows both outcomes: the link lands beside the other node, or it is built on the stale view and loses that node.
  - `RecordHistogram` is one step under the mutex: append, then erase the front past the cap.
  - `Search`, `Recommend` and `CrawlAttempt` are the metric calls of the `/search` and `/recommend` routes and of main's loop.
  - `ScrapeBegin` and `ScrapeEnd` are `/metrics`: `to_prometheus` walks `counters_` with no lock. With no node linked during the walk it lists every counter. With one linked, the table may have been rehashed under the walk (undefined behaviour), and the walk may list any of the nodes.
  - History variables: `done` (the increments that have returned), `recorded` (every latency), and `scrapes` (the keys at each scrape's begin and end, and those it listed).
- **Config.tla** — `Config::load` and the start of main. The YAML file is abstracted to what load tells apart.
  - A section is absent, a map or a scalar. An option is absent, `good` (a value `.as<T>()` converts) or `bad` (null or another type). A good value is the label `Given(o)`, and a default is its text in config.h.
  - `per_domain` is absent, a scalar, a sequence, or a map given as its items in document order.
  - `LoadOption` is one `if (sec["key"]) member = ....as<T>()`. `Load` folds it over `LoadOrder`, the order of the code. The first throw (an unreadable file, indexing a scalar section, a value that does not convert, a sequence's item with no `.first`) makes the fold return false with the members before it assigned, as the catch does.
  - `ExitOnConfigError` is main's `return 1`. `ConstructComponents` is the Scheduler and Fetcher constructors copying their members. `InitServices` is `init_redis` and `api_server.init` with the host, port and threads.
  - `LoadPerDomain` is the range-for over `per_domain`: a scalar and an empty sequence iterate zero times, a non-empty sequence throws on its first item, and a map's items are assigned in order.
  - `DocValid` is the reference, from spec 6 and 7.
- **MCConfig.tla** — the files main is started with: an unreadable file; one with a scalar section; every file giving at most two options, each good or bad; and per_domain as a scalar, an empty or one-item sequence, or a map of up to two hosts, beside at most one other option.
- **MCFrontier.tla** — the frontier alone. Callers add URLs at priority 0 and take tasks. A URL is added only while it is not queued, and at most `MaxQueue` tasks are queued. The history variable `admitted` records the order in which `add_url` queued the URLs.
- **UrlUtils.tla** — `canonicalize`, `extract_domain`, `is_valid` and `resolve` as operators on strings of character classes: `h` is the text `http:`, `/`, `?`, `#` and space are themselves, and `a` is any other character. The regexes tell characters apart only by these classes. Pipeline keeps its own `Resolve` over URL model values.
- **MCUrlUtils.tla** — a task URL and an href, chosen initially. `Origin`, `Host`, `Path` and `Directory` follow RFC 3986, section 3, and `SpecResolve` follows spec 4.4.
- **Logger.tla** — the `Logger` singleton. main is its only caller, so each call is one step. `InitLogger` is `init`: the level, the format, and a file output that may fail to open. `Log` is `log` with its level filter, its sink choice and `format_message`. A line is a sequence of character classes: `q` is a quote, `b` a backslash, one letter per member name and level name, and `a` any other character. JSON tells characters apart only by these classes.
- **MCLogger.tla** — main's `init("info", "json", "stdout")`, messages with and without a quote or backslash, and a JSON reader written from RFC 8259 (strings with escapes, objects of string members). `LogLineIsJson` decodes each JSON line and compares it with the record logged.
- **Fetcher.tla** — `fetch` and the redirect recursion of `fetch_impl`.
  - `web` is the response of every URL: a 2xx, a 3xx with a resolved Location, a 3xx without one, another status, or a transport error. It is chosen once and never changes.
  - `FetchImpl(u, n)` is `fetch_impl(url, redirect_count)` as a RECURSIVE operator: the depth check on entry, then one CASE per outcome. The Location is put in front of the nested call's `redirects`.
  - `Hop`, `ChainLength` and `SpecOutcome` are reference definitions taken from spec 4.2 and the boundary cases of spec 8.
- **Parser.tla** — `parse` over the DOM tree that gumbo builds. A node is a record: text, element (tag, href, children) or other.
  - `ExtractTextRec` and `ExtractLinksRec` are the two recursive traversals.
  - `Scan` / `Tokenize` is `\b\w+\b` as a scan for maximal runs of word characters. `NormalizeToken` lowercases and keeps what `isalnum` accepts.
  - `TermPositions` is parse's position loop. `Title` is its title loop.
  - The reference definitions (`SpecTokens`, `SpecTermPositions`, `SpecText`, `SpecTitle`) are written from spec 4.4 with sets and sorting rather than scans.
- **MCParser.tla** — a five-character alphabet with one character for each class the code tells apart (lower, upper, `_`, `-`, space), and five page trees.

## Runs

These are the twelve runs of PROJECT.json.

| run | cfg | result | what it shows |
|---|---|---|---|
| dedup | MCDedup.cfg | pass, 4 288 states | Redis may be up or down at start-up and may fail at any point. While the tier that answers has held every mark, `is_*_seen` reports exactly what was marked (`SeenIffMarkedWhileTierHolds`). A mark made from the failing call onward is never forgotten (`DegradedMarksRemembered`). This rests on mark_* re-reading `redis_available_` after the failed SETEX. |
| pipeline | MCPipeline.cfg | pass, 305 808 states | See the six properties below. |
| fetcher | MCFetcher.cfg | pass, 4 096 states | On every web over four URLs, `fetch` succeeds or fails as the redirect chain and `max_redirects` say (`FetchMatchesSpec`). Chains of exactly `max_redirects` hops succeed, and chains of one more fail. |
| parser | MCParser.cfg | pass, 3 905 states | The position loop numbers terms in the raw token stream, as spec 4.4 says, on every text of up to 4 characters (`TermPositionsMatchSpec`). A page's tokens are those of its text nodes, with script and style skipped (`PageTokensMatchSpec`). |
| search | MCSearch.cfg | pass, 3 178 states | Every list search can return has no repeats. It holds only documents that contain the query term, and min(topk, matches) of them; this is spec 8's "iff" plus the empty-query and topk = 0 cases (`SearchFindsMatchingDocs`). When the term is missing from some document, a document with at least the term's frequency and at most the length (one of them strictly) is ranked first (`SearchPrefersDenserDocs`). |
| metrics_histogram | MCMetrics.cfg | pass, 734 260 states | With two API threads recording, the histogram holds exactly the last `HistogramCap` values, in order (`HistogramKeepsLatest`). |
| loop_exit | MCPipeline_exit.cfg | violation | After one failed fetch, the loop ends with URLs still queued. |
| politeness | MCPipeline_polite.cfg | violation | The next task for a host is handed out at once after a successful fetch from it. |
| retry_budget | MCPipeline_retry.cfg | violation | With `max_retries = 3` (the default) and 5 ticks, a URL that always fails is fetched more than 4 times for one admission (`RetryBudget`). `mark_failed` re-queues it with `retry_count = 1` every time. |
| archive_overwrite | MCPipeline_restart.cfg | violation | Redis stays up. u1 is indexed as doc 1 and marked, then the process restarts. The new process pops u1 first, since two equal-priority seeds pop in push order, and skips it on its Redis mark. It then files u2 under doc id 1, rewriting `docs/1.doc` (`ArchiveNeverOverwritten`). |
| crawl_hang | MCPipeline_hang.cfg | violation | Under `FairSpec`, once the queue drains, main stays in `get_next_task` for ever and never reaches its cleanup (`CrawlEnds`). |
| metrics_race | MCMetrics_race.cfg | violation | Two first increments that race lose one (`CountersCountEveryIncrement`): two `/search` calls leave `api_search_requests` at 1. |

The pipeline run checks six properties:
- `TypeOK`.
- `IndexConsistent`: spec 8, invariants 1-3. Posting lists are sorted and name admitted documents, and a document's length equals the positions its postings hold.
- `IndexRefinesLog`: the index implements the abstract document log `IndexLog`. Ids start at 1, each `index_document` appends exactly one document, no entry changes afterwards, and a restart empties the log. The mapping `IndexedLog` (in MCPipeline) reads entry `i` as `forward[i]`'s URL, with `i`'s frequency in each posting list. `Abstract == INSTANCE IndexLog WITH log <- IndexedLog`, and the property is `Abstract!Spec`.
- `FileWrittenUnderDocId`: every file that a save writes is named after the id `index_document` just gave its URL. main names it `total_documents()`, so this holds only while the two counters start and advance together. It holds with failed saves and across restarts.
- `NoFalseUrlDuplicate`: the loop skips a URL as seen only if that URL was indexed before, in this process or an earlier one. It holds with the three distinct URL spellings.
- `IndexedUrlNotRefetched`: a URL in the current process's index is fetched again only after its Redis-only mark has been lost. A restart empties the index, so the property says nothing about URLs indexed by an earlier process. archive_overwrite shows what the Redis marks do to those.

Because of restarts, `NoFalseContentDuplicate` compares against every URL indexed in any process.

### Further configurations

The project is limited to twelve runs. Fourteen more configurations reproduce findings of PROJECT.json whose "run" is empty, and each violates one property. MCStorage.cfg is a passing check kept beside them: a checkpoint loads back as saved, in any iteration order, including values that contain `=` (`CheckpointRoundTrip`, 27 346 states). Nothing in the program calls the checkpoint functions.

| cfg | property | what TLC finds |
|---|---|---|
| MCPipeline_collide.cfg | `NoFalseContentDuplicate` | A body never indexed (`iZ`) is skipped as a duplicate. Its djb2 hash differs from that of `ab`, but the two share the low byte, which is all the `std::string` keeps. |
| MCConfig.cfg | `ConfigErrorIsFatal` | A file with `rate_limit.per_domain: []` loads with true. A scalar `per_domain` does the same. yaml-cpp iterates both zero times, so main runs, though spec 6 gives per_domain as a map and spec 7 makes a ConfigError fatal. |
| MCFrontier_fifo.cfg | `EarliestAdmittedFirst` | u1 to u4 are queued at priority 0, and u1 is taken. The next task is u3, though u2 was queued earlier. Spec 4.3 breaks ties by earliest admission, and pop_heap moves the right child up on a tie. A compiled `std::priority_queue` pops the four in the order 1 3 2 4. |
| MCDedup_forgets.cfg | `SeenIffMarked` | A URL marked only in Redis is reported unseen once Redis fails (spec 8, invariant 4). |
| MCPipeline_links.cfg | `DiscoveredLinksAdmitted` | A root-relative link on an indexed page is never queued. |
| MCPipeline_urlhash.cfg | `NoFalseUrlDuplicate` | With u2 spelt `http://p/bA`, djb2 gives it the same 64-bit hash as u1 (`http://p/ab`), since 97·33+98 = 98·33+65. Once u1 is indexed, u2 is skipped as seen without ever being fetched. |
| MCPipeline_savefail.cfg | `StorageMatchesIndex` | A save that cannot open its file leaves an indexed document with no file. |
| MCParser_title.cfg | `TitleMatchesSpec` | `parse` finds no title when `<title>` is inside `<head>`, which is where gumbo always puts it. |
| MCLogger.cfg | `LogLineIsJson` | main's `warn("Failed to fetch: " + url)` with a URL holding a backslash (which `is_valid` accepts): the backslash escapes the closing quote, and the line is not the JSON object of the message. A quote breaks it the same way. |
| MCMetrics_scrape.cfg | `ScrapeListsEveryCounter` | w2's first `/recommend` links its counter. w2 then starts a `/metrics` scrape, and w1's first `/search` links a node during the walk. The scrape lists no counter, though `api_recommend_requests` existed before and after it. |
| MCSearch_ties.cfg | `SearchTieBreakByDocId` | Two documents that each hold t2 once, then a query for t2: both score 0, and the list may put doc 2 before doc 1. Spec 4.5 requires ties to be broken by ascending doc id. |
| MCUrlUtils_resolve.cfg | `ResolveJoinsDirectory` | The page `http://a` with the href `a` gives `http://a`, because the last `/` of a URL with no path is the one in `http://`. Spec 4.4 joins the href to the base's directory, which gives `http://a/a`. Every relative link on a seed given as `http://host` goes to another host. |
| MCUrlUtils_domain.cfg | `ExtractDomainIsHost` | The task URL `http://a?` gets the domain `a?`, since `[^/]+` runs past the `?`. Its host is `a`. |
| MCStorage_body.cfg | `DocumentRoundTrip` | The body `-` loads back as `-` followed by a newline: a final newline is added. Body lines reading `---` are dropped. |

Each property of a passing run has a mutant in PROJECT.json. A mutant is a plausible bug in the code, and TLC finds the property violated once the mutant replaces the original definition. The mutants are:
- content marks written under the URL prefix;
- reading only the local set;
- deciding the local insert from the flag as it was before the SETEX;
- `next_doc_id_` starting at 0;
- a document length that counts terms instead of positions;
- the redirect depth check written with `>=`;
- `normalize_token` that lowercases without erasing;
- positions counted among kept terms only;
- `<script>` and `<style>` not skipped;
- the query word not lower-cased;
- BM25 with the length normalised as avg / len;
- the histogram trimmed once it reaches the cap (`>=`);
- the file named after `next_doc_id_` read after the call;
- a Redis command with no reply taken as a hit by `is_url_seen`.

## Bounds and why they are enough

- **MCPipeline**:
  - three URLs on two hosts, with u1 and u2 on h1;
  - two bodies, with u3 serving u1's body, so there is an aliased duplicate;
  - the seed vector `<<u1>>`, and links in page order u1 → u2, u3 and u2 → u1, a cycle that queues crawled URLs again;
  - u2 may fail to fetch, so both branches of `mark_failed` happen;
  - `MaxRetries` 1, and `RetryBackoff` = `PolitenessDelay` = 1 tick;
  - the clock runs to 2 ticks; `MaxDocsPerSegment` 2, so flushes happen;
  - a term frequency of 2, so length ≠ term count;
  - Redis may fail at any step, and may be down from the start;
  - one process restart, at any step, and every save may fail.

  Every action of Pipeline, and every disjunct, fires. The re-crawl after Redis loss, the retry, both reasons for "no task ready", the alias skip, the segment flush, a failed save, and a restart with documents indexed and Redis marks surviving all occur. The violation configurations use the same constants with the clock at 3 ticks, no restart and no failing saves, unless the property needs them.
- **The retry and restart configurations**: the retry run uses the default `max_retries = 3` and 5 ticks, which leaves time for five failures of one admission. The restart run uses the seed vector `<<u1, u2>>`.
- **MCFrontier**: four URLs, one host, priority 0, at most four queued. Four tasks is the smallest heap in which a pop reorders equal priorities. With three, libstdc++ still pops in push order.
- **MCFetcher**: four URLs and `MaxRedirects` 2. The webs include chains of 0, 1, 2 and 3 redirects ending in every kind of answer, and redirect cycles. So both sides of the depth boundary are reached.
- **MCParser**: every text of up to 4 characters over the five-character alphabet (781 texts). That covers adjacent tokens, tokens that normalise to nothing between kept ones, and repeated terms. The five trees are:
  - a gumbo-shaped page with `<head><title>`;
  - a title directly under the root;
  - script and style;
  - nested elements with anchors, with and without href;
  - a title whose first child is a comment.
- **MCStorage**: every body of up to 4 characters over `a`, `-` and newline, so `---` lines, bodies with and without a final newline, and the empty body all occur. Checkpoints: every map over the keys "" and "a" with values of up to 2 characters over `a` and `=`, in every iteration order.
- **MCSearch**: one URL, terms t1 and t2, frequencies 0 to 2, up to three documents, and `MaxDocsPerSegment` 2. This reaches:
  - a term in every document (idf 0) and one missing from some;
  - equal and unequal frequencies and lengths;
  - documents with no terms.
  Queries include the empty query, repeated words, a word with punctuation, and the upper-case form. Within these bounds, two documents with different (tf, length) never have mathematically equal BM25 scores. So an exact tie in the model is a bitwise tie in the code.
- **MCMetrics**: the crawl thread and two API threads, 2 calls each (a scrape is a call), latencies {0, 1} and a cap of 2. Two records reach the cap. Both link outcomes of racing first insertions, and scrapes with and without a link during the walk, all occur. MCMetrics_race.cfg and MCMetrics_scrape.cfg use the same constants.
- **MCUrlUtils**: every task URL of up to three characters after `http://`, over `h` (`http:`), `/`, `?`, `#` and a plain character, whose host is plain characters; and every href of up to two characters. This covers a URL with no path, a path with one or two slashes, a query directly after the host, a `/` inside the query, and a fragment that `canonicalize` strips. On URLs with a path and no query, both references agree with the code.
- **MCConfig**: every file of MCDocs. Two options cover a bad value after a good one, in the same section or in two, so the partial assignment before a throw happens. Two per_domain hosts give a bad item after a good one. per_domain also appears as a scalar, as an empty sequence and as a one-item sequence, the three forms the range-for treats differently.
- **MCLogger**: two lines, enough for init followed by a log. Three messages (plain, with a quote, with a backslash), and a request id that is absent or present.
- **Hash values** are computed from the URL and body bytes. The three URL digests are distinct, and the low bytes of `ab` and `ba` differ (40 and 72). So the passing run has no collision, and each collision configuration changes one spelling.

## Fairness

`Pipeline.FairSpec` is `Spec /\ WF_vars(Crawl) /\ WF_vars(Tick)`.
- **The crawl thread**: it never blocks except in `get_next_task`, and the OS schedules it, so a step it can take is eventually taken.
- **The clock**: the steady clock advances without help.
- **Redis crashes and restarts**: no fairness. They are faults that may or may not happen.

Under this fairness, `CrawlEnds` (main eventually reaches its cleanup) fails. This is the liveness result: once the queue is empty, `get_next_task` sleeps with `running_` set, and nothing can clear it. Every other run checks safety under `Spec`.

A passing liveness run would say little here. Main leaves the loop the first time a task is not ready (loop_exit), and the clock is bounded, so in the model every behaviour ends at the bound. `CHECK_DEADLOCK FALSE` is used for Pipeline and Metrics for the same reason: main really stops, after the loop or inside `get_next_task`, and the calls of each thread are bounded.

## Not modelled (yet)

- Ranking for queries with two or more distinct known terms. Their scores are sums of logarithms with different arguments, which have no exact rational comparison. Membership for such queries follows the same code path as for one term.
- The rounding of `avg_doc_length_` and of the BM25 doubles. The model uses exact values, and the gaps between the scores it compares are far larger than double rounding.
- gumbo's HTML-to-tree parsing (a library), and curl setup failure.
- Whitespace in URLs (is_valid's `\s`), and `normalize`, which nothing calls. `canonicalize` only strips a fragment; the spec's lower-casing and query sorting are a TODO in the code.
- The meaning of the option values. The other modules take them as constants: `MaxRetries`, `RetryBackoff`, `MaxRedirects`. Several options are never read by the program: `queue_size`, `rate_limit.*` (nothing calls `rate_limit_per_domain`, and the politeness window is always 1 s), `connection_pool_size`, and `memory.*`. YAML parsing itself belongs to yaml-cpp.
- The logger's timestamp text, and a write to a file that fails after it opened. No decision reads the log.
- `set_gauge` and the gauge part of `to_prometheus`. Only main writes gauges (main.cpp:143-144, at the end of each iteration). Their first insertion races with a scrape in the same way as a counter's, which `ScrapeListsEveryCounter` already shows. Also left out: `to_json`, which nothing calls, and the histogram's avg/min/max text.
- Key TTLs (24 h), which are far longer than any run.
- `Storage::list_documents` (a directory scan that nothing calls) and `get_document_path`.
- The API routes apart from their metric calls. They are TODOs that return empty JSON.

Planned next:
- a passing frontier run with priorities other than 0 (the program passes only 0 today);
- checkpoints in Pipeline (nothing in main calls `save_checkpoint` yet).
