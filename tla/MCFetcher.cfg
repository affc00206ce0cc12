\* Every web over four URLs, with max_redirects 2: chains of 0 to 3
\* redirects ending in each kind of answer, and redirect cycles.
CONSTANTS
    Urls = {u1, u2, u3, u4}
    MaxRedirects = 2
SPECIFICATION Spec
INVARIANT FetchMatchesSpec
CHECK_DEADLOCK FALSE
