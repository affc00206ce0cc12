------------------------------ MODULE MCDedup ------------------------------
(***************************************************************************)
(* The deduplicator on its own, driven by any sequence of calls, with two  *)
(* history variables recording what callers have marked: every mark, and  *)
(* the marks made by a call that found (or left) the Redis tier            *)
(* unavailable.                                                            *)
(***************************************************************************)
EXTENDS Dedup, TLC

CONSTANTS u1, u2, u3

\* HashUtils::hash_url of three distinct canonical URLs.
MCUrlDigest == (u1 :> 1001) @@ (u2 :> 1002) @@ (u3 :> 1003)

VARIABLES
    markedUrl,          \* digests of every URL passed to mark_url_seen
    markedContent,      \* every key passed to mark_content_seen
    degradedUrl,        \* digests marked by a call that ended degraded
    degradedContent     \* keys marked by a call that ended degraded

ghostVars == <<markedUrl, markedContent, degradedUrl, degradedContent>>
vars == <<dedupVars, ghostVars>>

MCInit ==
    /\ InitRedis
    /\ markedUrl = {} /\ markedContent = {}
    /\ degradedUrl = {} /\ degradedContent = {}

\* A mark, recorded in the history.
RecordUrl(u) ==
    /\ MarkUrlSeen(u)
    /\ markedUrl' = markedUrl \cup {UrlDigest[u]}
    /\ degradedUrl' = IF AvailableAfterCall THEN degradedUrl
                      ELSE degradedUrl \cup {UrlDigest[u]}
    /\ UNCHANGED <<markedContent, degradedContent>>

RecordContent(k) ==
    /\ MarkContentSeen(k)
    /\ markedContent' = markedContent \cup {k}
    /\ degradedContent' = IF AvailableAfterCall THEN degradedContent
                          ELSE degradedContent \cup {k}
    /\ UNCHANGED <<markedUrl, degradedUrl>>

\* Every call a caller can make; the Redis server never fails.
StableNext ==
    \/ \E u \in Urls, s \in BOOLEAN : IsUrlSeen(u, s) /\ UNCHANGED ghostVars
    \/ \E u \in Urls : RecordUrl(u)
    \/ \E k \in ContentKeys, s \in BOOLEAN :
          IsContentSeen(k, s) /\ UNCHANGED ghostVars
    \/ \E k \in ContentKeys : RecordContent(k)

\* The same calls, and the Redis server may stop answering at any point.
CrashNext ==
    \/ StableNext
    \/ RedisCrash /\ UNCHANGED ghostVars

CrashSpec == MCInit /\ [][CrashNext]_vars

(***************************************************************************)
(* Spec 8, invariant 4: is_url_seen(u) is true exactly when the digest   *)
(* of u has been recorded by mark_url_seen (and likewise for content), on  *)
(* whichever tier mark_url_seen wrote it.  The code writes only the Redis  *)
(* tier while it is available and reads only the local set once it is     *)
(* not, so a Redis failure forgets every earlier mark.                     *)
(***************************************************************************)
SeenIffMarked ==
    /\ \A u \in Urls : UrlSeen(u) <=> UrlDigest[u] \in markedUrl
    /\ \A k \in ContentKeys : ContentSeen(k) <=> k \in markedContent

(***************************************************************************)
(* The part of spec 8, invariant 4 the code does keep: while the tier it   *)
(* answers from has held every mark, that is while Redis still answers    *)
(* (before any failure) or when the local sets were in use from start-up, *)
(* a URL or content key is reported seen exactly when it was marked.  A    *)
(* check or mark that reads the wrong tier, or writes one and reads the    *)
(* other, breaks it after a few calls.                                     *)
(***************************************************************************)
TierHoldsEveryMark == AvailableAfterCall \/ (useLocalFallback /\ ~redisAvailable)

SeenIffMarkedWhileTierHolds == TierHoldsEveryMark => SeenIffMarked

(***************************************************************************)
(* What degradation does keep (spec 9, "degraded dedup"): once a mark has  *)
(* been made by a call after which redis_available_ is clear, including    *)
(* the very call whose Redis command failed, is_url_seen and               *)
(* is_content_seen report it for the rest of the run.  This rests on       *)
(* mark_* re-reading redis_available_ after the failed SETEX.              *)
(***************************************************************************)
DegradedMarksRemembered ==
    /\ \A u \in Urls : UrlDigest[u] \in degradedUrl => UrlSeen(u)
    /\ \A k \in ContentKeys : k \in degradedContent => ContentSeen(k)

=============================================================================
