------------------------------ MODULE Fetcher ------------------------------
(***************************************************************************)
(* Fetcher::fetch and its recursion fetch_impl (src/src/fetcher/           *)
(* fetcher.cpp): a GET with CURLOPT_FOLLOWLOCATION off, following each     *)
(* 3xx by calling itself on CURLINFO_REDIRECT_URL (which libcurl has       *)
(* already made absolute) with redirect_count + 1, and failing once        *)
(* redirect_count exceeds max_redirects_.                                  *)
(*                                                                         *)
(* The web is the variable web: the response each URL gives.  It is chosen *)
(* once and never changes, so the model checks fetch_impl, a pure function *)
(* of the web, on every web over the URLs.  Headers other than Location,   *)
(* timings, the body bytes and the content type are left out; a success    *)
(* names the page whose body it returns.  curl_easy_init failing (out of   *)
(* memory) is left out.                                                    *)
(***************************************************************************)
EXTENDS Naturals, Sequences

CONSTANTS
    Urls,          \* absolute URLs
    MaxRedirects   \* max_redirects_ (fetcher.max_redirects, default 5)

ASSUME MaxRedirects \in Nat

(***************************************************************************)
(* What a server answers: a 2xx ("ok"); a 3xx whose Location libcurl       *)
(* resolved ("redirect"); a 3xx without one ("bare_redirect"); any other   *)
(* status ("status"); or no HTTP answer at all (curl_easy_perform fails,   *)
(* "transport").                                                           *)
(***************************************************************************)
Response ==
    [kind : {"ok", "bare_redirect", "status", "transport"}]
    \cup [kind : {"redirect"}, location : Urls]

VARIABLE web   \* [Urls -> Response]

TypeOK == web \in [Urls -> Response]

\* A FetchResult without success; error_message is set only on the two
\* paths that set it.
Failure(err) == [success |-> FALSE, page |-> "none", redirects |-> <<>>,
                 error |-> err]

\* Fault model: the depth check written with >= instead of >.
RECURSIVE FetchImplGe(_, _)
FetchImplGe(u, n) ==
    IF n >= MaxRedirects THEN Failure("too_many_redirects")
    ELSE CASE web[u].kind = "ok" ->
                [success |-> TRUE, page |-> u, redirects |-> <<>>, error |-> "none"]
           [] web[u].kind = "redirect" ->
                LET r == FetchImplGe(web[u].location, n + 1)
                IN  [r EXCEPT !.redirects = <<web[u].location>> \o @]
           [] web[u].kind = "transport" -> Failure("transport")
           [] OTHER -> Failure("none")

(***************************************************************************)
(* fetch_impl(url, redirect_count).  On a redirect the location is pushed  *)
(* onto result.redirects and inserted before the redirects of the nested   *)
(* call's result, which is returned in place of this one.  A 3xx without   *)
(* a location and any non-2xx status return success = false with no       *)
(* error message.                                                          *)
(***************************************************************************)
RECURSIVE FetchImpl(_, _)
FetchImpl(u, n) ==
    IF n > MaxRedirects THEN Failure("too_many_redirects")
    ELSE CASE web[u].kind = "ok" ->
                [success |-> TRUE, page |-> u, redirects |-> <<>>, error |-> "none"]
           [] web[u].kind = "redirect" ->
                LET r == FetchImpl(web[u].location, n + 1)
                IN  [r EXCEPT !.redirects = <<web[u].location>> \o @]
           [] web[u].kind = "transport" -> Failure("transport")
           [] OTHER -> Failure("none")

\* fetch(url): fetch_impl from depth 0; the counters, the latency and the
\* content hash of a success (modelled in Pipeline) are added around it.
Fetch(u) == FetchImpl(u, 0)

Init == web \in [Urls -> Response]

\* The web does not change while a fetch runs.
Next == UNCHANGED web

Spec == Init /\ [][Next]_web

(***************************************************************************)
(* Reference, from spec 4.2 and the boundary cases of spec 8: follow the   *)
(* redirect chain from u.  Hop(u, k) is the URL reached after k redirects, *)
(* or the URL the chain stopped at if it stopped earlier.                  *)
(* The fetch succeeds exactly when a 2xx is reached after at most          *)
(* MaxRedirects redirects; a chain of MaxRedirects + 1 redirects is        *)
(* TooManyRedirects, whatever lies beyond it.                              *)
(***************************************************************************)
RECURSIVE Hop(_, _)
Hop(u, k) ==
    IF k = 0 THEN u
    ELSE LET p == Hop(u, k - 1)
         IN  IF web[p].kind = "redirect" THEN web[p].location ELSE p

\* The number of redirects before the chain stops, or MaxRedirects + 1 if
\* it has not stopped by then.
ChainLength(u) ==
    LET stops == {k \in 0..MaxRedirects : web[Hop(u, k)].kind # "redirect"}
    IN  IF stops = {} THEN MaxRedirects + 1
        ELSE CHOOSE k \in stops : \A j \in stops : k <= j

SpecOutcome(u) ==
    LET k == ChainLength(u)
    IN  IF k > MaxRedirects
        THEN [success |-> FALSE, error |-> "too_many_redirects", hops |-> k]
        ELSE [success |-> web[Hop(u, k)].kind = "ok",
              error |-> IF web[Hop(u, k)].kind = "transport" THEN "transport"
                                                              ELSE "none",
              hops |-> k]

(***************************************************************************)
(* Spec 4.2 and 8 (boundary behaviours): fetch(u) succeeds, fails with     *)
(* "Too many redirects" or with a transport error exactly as the chain     *)
(* from u says, with one entry in redirects per redirect followed, and a   *)
(* success returns the body of the page the chain ends at.  The code       *)
(* checks the depth on entry to fetch_impl, one call after the redirect    *)
(* it limits.                                                              *)
(***************************************************************************)
FetchMatchesSpec ==
    \A u \in Urls :
        LET r == Fetch(u)
            s == SpecOutcome(u)
        IN  /\ r.success = s.success
            /\ r.error = s.error
            /\ Len(r.redirects) = s.hops
            /\ r.success => r.page = Hop(u, s.hops)

=============================================================================
