------------------------------- MODULE Dedup -------------------------------
(***************************************************************************)
(* The two-tier deduplicator, crawler::Deduplicator (src/src/dedup/dedup.h, *)
(* dedup.cpp): a Redis tier tried first while redis_available_ is set, and *)
(* the in-process sets local_url_set_ and local_content_set_, consulted    *)
(* only while use_local_fallback_ is set or redis_available_ is clear.     *)
(*                                                                         *)
(* A Redis command that gets no reply (reply == nullptr) clears            *)
(* redis_available_ for good: nothing in the program sets it again.  The   *)
(* Redis server itself is environment: redisUrl and redisContent are the   *)
(* keys "dedup:url:<digest>" and "dedup:content:<key>" it holds, redisUp   *)
(* whether it answers.  Keys are written with a 24 hour TTL (SETEX 86400), *)
(* longer than any behaviour the model explores, so they never expire.     *)
(* The hit and miss counters are statistics and are left out.              *)
(***************************************************************************)
EXTENDS Naturals

CONSTANTS
    Urls,         \* canonical URLs
    UrlDigest,    \* [Urls -> _], HashUtils::hash_url of the canonical URL
    ContentKeys   \* the keys is_content_seen derives from a content_hash

ASSUME DOMAIN UrlDigest = Urls

VARIABLES
    localUrl,          \* local_url_set_
    localContent,      \* local_content_set_
    useLocalFallback,  \* use_local_fallback_
    redisAvailable,    \* redis_available_
    redisUrl,          \* url keys held by the Redis server
    redisContent,      \* content keys held by the Redis server
    redisUp            \* the Redis server answers commands

dedupVars == <<localUrl, localContent, useLocalFallback, redisAvailable,
               redisUrl, redisContent, redisUp>>

Digests == {UrlDigest[u] : u \in Urls}

TypeOK ==
    /\ localUrl \subseteq Digests /\ redisUrl \subseteq Digests
    /\ localContent \subseteq ContentKeys /\ redisContent \subseteq ContentKeys
    /\ useLocalFallback \in BOOLEAN
    /\ redisAvailable \in BOOLEAN
    /\ redisUp \in BOOLEAN

(***************************************************************************)
(* Start-up, main.cpp: init_redis connects, and when it fails main calls   *)
(* enable_local_fallback(true).  The server starts empty.                  *)
(***************************************************************************)
InitRedis ==
    /\ redisUp \in BOOLEAN
    /\ redisAvailable = redisUp
    /\ useLocalFallback = ~redisUp
    /\ localUrl = {} /\ localContent = {}
    /\ redisUrl = {} /\ redisContent = {}

(***************************************************************************)
(* The same start-up in a new process after the crawler restarted: the     *)
(* in-process sets start empty and init_redis connects to the server as it *)
(* is now, whose keys outlived the old process.                            *)
(***************************************************************************)
ReinitRedis ==
    /\ redisAvailable' = redisUp
    /\ useLocalFallback' = ~redisUp
    /\ localUrl' = {} /\ localContent' = {}
    /\ UNCHANGED <<redisUrl, redisContent, redisUp>>

(***************************************************************************)
(* One Redis command from a check_redis_* or mark_redis_* helper.  It is   *)
(* sent only while redis_available_ is set; without a reply the flag is    *)
(* cleared.  AvailableAfterCall is redis_available_ once the command is    *)
(* over, and LocalConsulted the condition the caller then re-reads from    *)
(* the members, use_local_fallback_ || !redis_available_.                  *)
(***************************************************************************)
AvailableAfterCall == redisAvailable /\ redisUp

LocalConsulted == useLocalFallback \/ ~AvailableAfterCall

\* Fault model: the EXISTS reply misread, so only the local set is ever hit.
UrlSeenLocalOnly(u) == LocalConsulted /\ UrlDigest[u] \in localUrl

\* Fault model: a Redis command without a reply taken as a hit.
UrlSeenFailClosed(u) ==
    \/ redisAvailable /\ ~redisUp
    \/ AvailableAfterCall /\ UrlDigest[u] \in redisUrl
    \/ LocalConsulted /\ UrlDigest[u] \in localUrl

\* What is_url_seen(url) returns in the current state: an EXISTS hit on the
\* Redis tier, or else a hit in the local set when that is consulted.
UrlSeen(u) ==
    \/ AvailableAfterCall /\ UrlDigest[u] \in redisUrl
    \/ LocalConsulted /\ UrlDigest[u] \in localUrl

\* What is_content_seen(content_hash) returns for the derived key k.
ContentSeen(k) ==
    \/ AvailableAfterCall /\ k \in redisContent
    \/ LocalConsulted /\ k \in localContent

\* is_url_seen(url) returns seen.
IsUrlSeen(u, seen) ==
    /\ seen = UrlSeen(u)
    /\ redisAvailable' = AvailableAfterCall
    /\ UNCHANGED <<localUrl, localContent, useLocalFallback, redisUrl,
                   redisContent, redisUp>>

\* Fault model: mark_url_seen deciding on the local insert from the flags
\* as they were before its SETEX, so the call whose command fails writes
\* neither tier.
MarkUrlSeenStaleFlag(u) ==
    /\ redisUrl' = IF AvailableAfterCall THEN redisUrl \cup {UrlDigest[u]}
                                         ELSE redisUrl
    /\ redisAvailable' = AvailableAfterCall
    /\ localUrl' = IF useLocalFallback \/ ~redisAvailable
                   THEN localUrl \cup {UrlDigest[u]} ELSE localUrl
    /\ UNCHANGED <<localContent, useLocalFallback, redisContent, redisUp>>

\* mark_url_seen(url): SETEX on the Redis tier while it is available, then
\* an insert into the local set when that is consulted.
MarkUrlSeen(u) ==
    /\ redisUrl' = IF AvailableAfterCall THEN redisUrl \cup {UrlDigest[u]}
                                         ELSE redisUrl
    /\ redisAvailable' = AvailableAfterCall
    /\ localUrl' = IF LocalConsulted THEN localUrl \cup {UrlDigest[u]}
                                     ELSE localUrl
    /\ UNCHANGED <<localContent, useLocalFallback, redisContent, redisUp>>

\* is_content_seen(content_hash) returns seen, for the derived key k.
IsContentSeen(k, seen) ==
    /\ seen = ContentSeen(k)
    /\ redisAvailable' = AvailableAfterCall
    /\ UNCHANGED <<localUrl, localContent, useLocalFallback, redisUrl,
                   redisContent, redisUp>>

\* Fault model: mark_content_seen building its key with the "dedup:url:"
\* prefix, so the content key lands among the URL keys.
MarkContentSeenUrlPrefix(k) ==
    /\ redisUrl' = IF AvailableAfterCall THEN redisUrl \cup {k} ELSE redisUrl
    /\ redisAvailable' = AvailableAfterCall
    /\ localContent' = IF LocalConsulted THEN localContent \cup {k}
                                         ELSE localContent
    /\ UNCHANGED <<localUrl, useLocalFallback, redisContent, redisUp>>

\* mark_content_seen(content_hash, doc_id), for the derived key k.
MarkContentSeen(k) ==
    /\ redisContent' = IF AvailableAfterCall THEN redisContent \cup {k}
                                             ELSE redisContent
    /\ redisAvailable' = AvailableAfterCall
    /\ localContent' = IF LocalConsulted THEN localContent \cup {k}
                                         ELSE localContent
    /\ UNCHANGED <<localUrl, useLocalFallback, redisUrl, redisUp>>

\* Environment: the Redis server stops answering (it is never reconnected).
RedisCrash ==
    /\ redisUp
    /\ redisUp' = FALSE
    /\ UNCHANGED <<localUrl, localContent, useLocalFallback, redisAvailable,
                   redisUrl, redisContent>>

Next ==
    \/ \E u \in Urls, s \in BOOLEAN : IsUrlSeen(u, s)
    \/ \E u \in Urls : MarkUrlSeen(u)
    \/ \E k \in ContentKeys, s \in BOOLEAN : IsContentSeen(k, s)
    \/ \E k \in ContentKeys : MarkContentSeen(k)
    \/ RedisCrash

Spec == InitRedis /\ [][Next]_dedupVars

=============================================================================
