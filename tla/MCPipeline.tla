----------------------------- MODULE MCPipeline -----------------------------
(***************************************************************************)
(* Small instances of the crawl loop.  Three URLs on two hosts; u1 and u2  *)
(* share host h1.  Two bodies; u3 serves the same body as u1, so it is a   *)
(* content duplicate.  The bodies link the URLs into a cycle, so URLs are  *)
(* queued again after they have been crawled.                              *)
(***************************************************************************)
EXTENDS Pipeline, HashUtils

CONSTANTS u1, u2, u3, h1, h2, c1, c2, t1, t2

MCHostOf == (u1 :> h1) @@ (u2 :> h1) @@ (u3 :> h2)

\* The bits of the 64-bit hashes the model keeps; the low byte, which
\* the content key reads, is among them.
HashWidth == 24

\* "http://p/" and "http://q/", the sites of hosts h1 and h2.
SiteText == (h1 :> <<104, 116, 116, 112, 58, 47, 47, 112, 47>>)
            @@ (h2 :> <<104, 116, 116, 112, 58, 47, 47, 113, 47>>)

\* HashUtils::hash_url of the URLs .../ab and .../ba on h1 and .../ab on
\* h2, and of .../bA on h1, which djb2 maps to .../ab's full hash
\* (97 * 33 + 98 = 98 * 33 + 65).  Each is a constant of its own, so TLC
\* computes it once.
DigestAb1 == HashUrl(SiteText[h1] \o <<97, 98>>, HashWidth)
DigestBa1 == HashUrl(SiteText[h1] \o <<98, 97>>, HashWidth)
DigestBA1 == HashUrl(SiteText[h1] \o <<98, 65>>, HashWidth)
DigestAb2 == HashUrl(SiteText[h2] \o <<97, 98>>, HashWidth)

DistinctUrlDigest == (u1 :> DigestAb1) @@ (u2 :> DigestBa1) @@ (u3 :> DigestAb2)
CollidingUrlDigest == (u1 :> DigestAb1) @@ (u2 :> DigestBA1) @@ (u3 :> DigestAb2)

MCPageContent == (u1 :> c1) @@ (u2 :> c2) @@ (u3 :> c1)

\* Term frequencies; c1 repeats a term, so a document's length differs
\* from its number of distinct terms.
MCPageTerms == (c1 :> (t1 :> 2 @@ t2 :> 0)) @@ (c2 :> (t1 :> 1 @@ t2 :> 1))

\* HashUtils::hash_content of the bodies "ab", "ba" and "iZ".  "ab" and
\* "ba" differ in the low byte (40 and 72); "ab" and "iZ" differ in the
\* hash but share the low byte 40.
HashAb == HashContent(<<97, 98>>, HashWidth)
HashBa == HashContent(<<98, 97>>, HashWidth)
HashIZ == HashContent(<<105, 90>>, HashWidth)

DistinctHash == (c1 :> HashAb) @@ (c2 :> HashBa)
CollidingHash == (c1 :> HashAb) @@ (c2 :> HashIZ)

\* The seed_urls vector: u1 alone, or u1 then u2.
OneSeed == <<u1>>
TwoSeeds == <<u1, u2>>

\* c1 links to u2 and then u3, c2 back to u1: every href keeps its scheme.
FullLinks ==
    (c1 :> <<[form |-> "full", target |-> u2], [form |-> "full", target |-> u3]>>)
    @@ (c2 :> <<[form |-> "full", target |-> u1]>>)

\* The same, with the link to u2 written root-relative ("/page").
RootRelativeLinks ==
    (c1 :> <<[form |-> "root_relative", target |-> u2],
             [form |-> "full", target |-> u3]>>)
    @@ (c2 :> <<[form |-> "full", target |-> u1]>>)

(***************************************************************************)
(* The refinement mapping onto IndexLog: the log entry of the i-th         *)
(* admitted document is read back from the index, its URL from            *)
(* forward_index_ under id i and its frequency of each term from the       *)
(* posting of i in that term's list (0 when the list has none).            *)
(***************************************************************************)
TfOf(d, t) ==
    LET hits == {i \in DOMAIN postings[t] : postings[t][i].doc = d}
    IN  IF hits = {} THEN 0 ELSE postings[t][CHOOSE i \in hits : TRUE].tf

IndexedLog ==
    [i \in 1..totalDocuments |->
        [url |-> IF i \in I!DocIds THEN forward[i] ELSE "unfiled",
         tf  |-> [t \in Terms |-> TfOf(i, t)]]]

Abstract == INSTANCE IndexLog WITH log <- IndexedLog, MaxTf <- 2

(***************************************************************************)
(* Spec 4.5 and 8, invariant 1: within a process the index implements the  *)
(* ordered document log.  Every index_document of the Index step appends  *)
(* one entry under the next id, with the URL and the frequencies of the    *)
(* page, and changes no earlier entry; flush_segment and the other steps   *)
(* of the loop change none, and a restart empties it.  This holds only     *)
(* because next_doc_id_ starts at 1 and advances with total_documents_,    *)
(* and because a posting is appended for every term the page contains.    *)
(***************************************************************************)
IndexRefinesLog == Abstract!Spec

=============================================================================
