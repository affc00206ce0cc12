\* Four URLs on one host, all at priority 0; up to four queued.
CONSTANTS
    Urls = {u1, u2, u3, u4}
    Hosts = {h1}
    HostOf <- MCHostOf
    Priorities = {0}
    RetryBackoff = 1
    PolitenessDelay = 1
    MaxTime = 0
    MaxQueue = 4
SPECIFICATION MCSpec
PROPERTY EarliestAdmittedFirst
CHECK_DEADLOCK FALSE
