CONSTANTS
    u1 = u1
    u2 = u2
    u3 = u3
    Urls = {u1, u2, u3}
    UrlDigest <- MCUrlDigest
    ContentKeys = {17, 42, 99}
SPECIFICATION CrashSpec
INVARIANT SeenIffMarked
