------------------------------ MODULE MCSearch ------------------------------
(***************************************************************************)
(* Admission and search of the in-memory index.  Documents are admitted    *)
(* and segments flushed as in module Indexer; in every reachable state    *)
(* the properties quantify over every query of at most MaxQueryWords      *)
(* words with at most one distinct known term and every topk of TopKs.   *)
(* The ghost variable admitted records what each admitted document        *)
(* contained, so the properties judge search against the documents, not  *)
(* against the posting lists it reads.                                    *)
(***************************************************************************)
EXTENDS IndexSearch

CONSTANTS
    MaxDocs,        \* bound on total_documents_
    MaxQueryWords,  \* bound on the words of a query
    TopKs           \* the topk arguments tried

VARIABLE admitted   \* doc id -> the term frequencies it was admitted with

vars == <<indexerVars, admitted>>

MCInit == Init /\ admitted = <<>>

MCNext ==
    \/ /\ totalDocuments < MaxDocs
       /\ \E u \in Urls, tf \in [Terms -> 0..2] :
             /\ IndexDocument(u, tf)
             /\ admitted' = (nextDocId :> tf) @@ admitted
    \/ FlushSegment /\ UNCHANGED admitted

MCSpec == MCInit /\ [][MCNext]_vars

\* The topk values tried: negative, zero, and below and at the match counts.
MCTopKs == {-1, 0, 1, 2}

\* The spec's query terms: split on whitespace and lower-cased, with no
\* punctuation stripped, so a word with punctuation names no term.
SpecQueryTerms(q) == {q[i].term : i \in {i \in DOMAIN q : q[i].form # "punct"}}

Queries ==
    {q \in BoundedSeq(Words, MaxQueryWords) : Cardinality(SpecQueryTerms(q)) <= 1}

\* The admitted documents that contain a term of q, and their length.
Matching(q) ==
    {d \in DOMAIN admitted : \E t \in SpecQueryTerms(q) : admitted[d][t] > 0}

AdmittedLength(d) == SumFunction(admitted[d])

(***************************************************************************)
(* Spec 8: after indexDocument(d), search(q) includes d's id iff d has a  *)
(* term of q; an empty query and topk = 0 give the empty list.  Every     *)
(* list search can return, in every state, has no document twice, only    *)
(* documents containing a query term, and min(topk, matches) of them (all *)
(* of them for a negative topk, which size_t makes huge).  It is about    *)
(* the query tokenizer, the posting lists, the doc_scores accumulation    *)
(* (documents of a term with idf 0 still get an entry) and the truncation.*)
(***************************************************************************)
SearchFindsMatchingDocs ==
    \A q \in Queries, k \in TopKs :
        /\ SearchResults(q, k) # {}
        /\ \A r \in SearchResults(q, k) :
              /\ IsInjective(r)
              /\ Range(r) \subseteq Matching(q)
              /\ Len(r) = Limit(k, Cardinality(Matching(q)))

\* d1 has the query term t at least as often as d2 and is no longer,
\* one of them strictly, and some document lacks t (idf > 0).
Denser(t, d1, d2) ==
    /\ \E d \in DOMAIN admitted : admitted[d][t] = 0
    /\ admitted[d1][t] >= admitted[d2][t]
    /\ AdmittedLength(d1) <= AdmittedLength(d2)
    /\ admitted[d1][t] > admitted[d2][t] \/ AdmittedLength(d1) < AdmittedLength(d2)

(***************************************************************************)
(* BM25 ranking: when the query term is missing from some document, a     *)
(* document that has the term at least as often and is no longer than    *)
(* another (one strictly) comes before it in every list, and is in every  *)
(* list the other is in.  It is about calculate_bm25's use of the length  *)
(* normalised by avg_doc_length_ and the descending sort.                 *)
(***************************************************************************)
SearchPrefersDenserDocs ==
    \A q \in Queries, k \in TopKs : \A r \in SearchResults(q, k) :
        \A t \in SpecQueryTerms(q), i \in DOMAIN r :
            \A d1 \in Matching(q) :
                Denser(t, d1, r[i]) => \E j \in 1..(i - 1) : r[j] = d1

(***************************************************************************)
(* Spec 4.5: documents of equal score are ordered by ascending doc id.    *)
(* Two documents with the same frequency of the query term and the same  *)
(* length, or any two when the term is in every document (idf 0), score *)
(* the same; the spec wants the lower id first in every list.            *)
(***************************************************************************)
SearchTieBreakByDocId ==
    \A q \in Queries, k \in TopKs : \A r \in SearchResults(q, k) :
        \A t \in SpecQueryTerms(q), i \in 1..(Len(r) - 1) :
            (\/ \A d \in DOMAIN admitted : admitted[d][t] > 0
             \/ /\ admitted[r[i]][t] = admitted[r[i + 1]][t]
                /\ AdmittedLength(r[i]) = AdmittedLength(r[i + 1]))
                => r[i] < r[i + 1]

=============================================================================
