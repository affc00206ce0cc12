\* Two API worker threads and the crawl thread, two calls each; the workers also serve /metrics.
CONSTANTS
    CrawlThread = main
    ApiThreads = {w1, w2}
    SearchKey = SearchKey
    RecommendKey = RecommendKey
    CrawlKey = CrawlKey
    Latencies = {0, 1}
    HistogramCap = 2
    MaxCalls = 2
SPECIFICATION Spec
INVARIANT ScrapeListsEveryCounter
CHECK_DEADLOCK FALSE
