\* The crawl loop with two bodies whose hashes share their low byte.
CONSTANTS
    u1 = u1  u2 = u2  u3 = u3  h1 = h1  h2 = h2  c1 = c1  c2 = c2
    t1 = t1  t2 = t2  None = None
    Urls = {u1, u2, u3}
    Hosts = {h1, h2}
    HostOf <- MCHostOf
    UrlDigest <- DistinctUrlDigest
    Priorities = {0}
    Seeds <- OneSeed
    Contents = {c1, c2}
    PageContent <- MCPageContent
    PageTerms <- MCPageTerms
    ContentHash <- CollidingHash
    PageLinks <- FullLinks
    FetchMayFail = {u2}
    Terms = {t1, t2}
    MaxRetries = 1
    RetryBackoff = 1
    PolitenessDelay = 1
    MaxTime = 3
    MaxDocsPerSegment = 2
    RedisMayCrash = TRUE
    SaveMayFail = FALSE
    MaxRestarts = 0
SPECIFICATION Spec
INVARIANT NoFalseContentDuplicate
CHECK_DEADLOCK FALSE
