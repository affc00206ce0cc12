\* Three URLs and three content keys, every sequence of calls, and a Redis
\* server that is up or down at start-up and may stop answering at any point.
CONSTANTS
    u1 = u1
    u2 = u2
    u3 = u3
    Urls = {u1, u2, u3}
    UrlDigest <- MCUrlDigest
    ContentKeys = {17, 42, 99}
SPECIFICATION CrashSpec
INVARIANT TypeOK
INVARIANT SeenIffMarkedWhileTierHolds
INVARIANT DegradedMarksRemembered
