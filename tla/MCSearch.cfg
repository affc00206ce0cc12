CONSTANTS
    Urls = {u1}
    Terms = {t1, t2}
    MaxDocsPerSegment = 2
    MaxDocs = 3
    MaxQueryWords = 2
    TopKs <- MCTopKs
INIT MCInit
NEXT MCNext
INVARIANT SearchFindsMatchingDocs
INVARIANT SearchPrefersDenserDocs
