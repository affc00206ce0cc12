\* Two API worker threads and the crawl thread, three calls each.
CONSTANTS
    CrawlThread = main
    ApiThreads = {w1, w2}
    SearchKey = SearchKey
    RecommendKey = RecommendKey
    CrawlKey = CrawlKey
    Latencies = {0, 1}
    HistogramCap = 2
    MaxCalls = 3
SPECIFICATION Spec
INVARIANT CountersCountEveryIncrement
CHECK_DEADLOCK FALSE
