\* Two API worker threads and the crawl thread, two calls each (a /metrics scrape is one), with a
\* histogram cap of 2 so the cap is passed.
CONSTANTS
    CrawlThread = main
    ApiThreads = {w1, w2}
    SearchKey = SearchKey
    RecommendKey = RecommendKey
    CrawlKey = CrawlKey
    Latencies = {0, 1}
    HistogramCap = 2
    MaxCalls = 2
SPECIFICATION Spec
INVARIANT HistogramKeepsLatest
CHECK_DEADLOCK FALSE
