------------------------------ MODULE Indexer ------------------------------
(***************************************************************************)
(* Document admission into the in-memory index, crawler::Indexer           *)
(* (src/src/indexer/indexer.h, indexer.cpp): doc ids from next_doc_id_,    *)
(* the forward index, per-term posting lists in append order, document     *)
(* lengths and the segment counters.                                       *)
(*                                                                         *)
(* A document is its URL and its term frequencies: term_positions of the   *)
(* ParsedDocument reduced to the number of positions per term, which is    *)
(* all admission reads of them (tf and doc_length).  Title, text,          *)
(* metadata and avg_doc_length (a double) are left out; search, which      *)
(* reads them, is not modelled here.  flush_segment opens an empty file    *)
(* (the serialisation is a TODO in the code): only its counters are kept.  *)
(***************************************************************************)
EXTENDS Integers, Sequences, FiniteSets, Functions, TLC

CONSTANTS
    Urls,               \* canonical URLs
    Terms,              \* normalised terms
    MaxDocsPerSegment   \* max_docs_per_segment_

ASSUME MaxDocsPerSegment \in Nat \ {0}

VARIABLES
    nextDocId,           \* next_doc_id_
    totalDocuments,      \* total_documents_
    forward,             \* forward_index_: doc id -> URL
    postings,            \* inverted_index_: term -> <<[doc, tf]>>
    docLengths,          \* doc_lengths_: doc id -> length
    currentSegmentSize,  \* current_segment_size_
    segmentCount         \* segment_count_

indexerVars == <<nextDocId, totalDocuments, forward, postings, docLengths,
                 currentSegmentSize, segmentCount>>

DocIds == DOMAIN forward

TypeOK ==
    /\ nextDocId \in Nat /\ totalDocuments \in Nat
    /\ forward \in [DocIds -> Urls]
    /\ postings \in [Terms -> Seq([doc: Nat, tf: Nat \ {0}])]
    /\ DOMAIN docLengths = DocIds /\ \A d \in DocIds : docLengths[d] \in Nat
    /\ currentSegmentSize \in 0..MaxDocsPerSegment
    /\ segmentCount \in Nat

\* Fault model: next_doc_id_ initialised to 0, not 1.
InitZeroBased ==
    /\ nextDocId = 0
    /\ totalDocuments = 0
    /\ forward = <<>> /\ docLengths = <<>>
    /\ postings = [t \in Terms |-> <<>>]
    /\ currentSegmentSize = 0 /\ segmentCount = 0

\* The constructor and the member initialisers of indexer.h.
Init ==
    /\ nextDocId = 1
    /\ totalDocuments = 0
    /\ forward = <<>> /\ docLengths = <<>>
    /\ postings = [t \in Terms |-> <<>>]
    /\ currentSegmentSize = 0 /\ segmentCount = 0

\* flush_segment: nothing when the segment is empty; otherwise a new
\* segment file and an empty current segment.  The in-memory index stays.
Flushed(size, count) ==
    IF size = 0 THEN <<size, count>> ELSE <<0, count + 1>>

FlushSegment ==
    /\ LET f == Flushed(currentSegmentSize, segmentCount)
       IN currentSegmentSize' = f[1] /\ segmentCount' = f[2]
    /\ UNCHANGED <<nextDocId, totalDocuments, forward, postings, docLengths>>

\* Fault model: doc_length counting the terms, not their positions.
DocLengthOfTermCount(tf) == Cardinality({t \in Terms : tf[t] > 0})

\* doc_length: the positions of every term, summed.
DocLength(tf) == SumFunctionOnSet(tf, {t \in Terms : tf[t] > 0})

(***************************************************************************)
(* index_document(parsed_doc, metadata) for the page at u with term        *)
(* frequencies tf (tf[t] = 0 for a term the page does not contain), all    *)
(* under index_mutex_: allocate the id, append one posting per term,       *)
(* record the length and the forward entry, count the document, and flush  *)
(* when the current segment is full.                                       *)
(***************************************************************************)
IndexDocument(u, tf) ==
    LET id   == nextDocId
        size == currentSegmentSize + 1
    IN
    /\ nextDocId' = id + 1
    /\ postings' = [t \in Terms |->
                      IF tf[t] > 0
                      THEN Append(postings[t], [doc |-> id, tf |-> tf[t]])
                      ELSE postings[t]]
    /\ docLengths' = (id :> DocLength(tf)) @@ docLengths
    /\ forward' = (id :> u) @@ forward
    /\ totalDocuments' = totalDocuments + 1
    /\ LET f == IF size >= MaxDocsPerSegment THEN Flushed(size, segmentCount)
                                             ELSE <<size, segmentCount>>
       IN currentSegmentSize' = f[1] /\ segmentCount' = f[2]

\* The positions the posting lists hold for document d.
PositionsIndexed(d) ==
    SumFunctionOnSet(
        [t \in Terms |->
            SumFunctionOnSet([i \in DOMAIN postings[t] |->
                                IF postings[t][i].doc = d THEN postings[t][i].tf
                                                          ELSE 0],
                             DOMAIN postings[t])],
        Terms)

\* Any admission of any page, and the public flush_segment / merge_segments.
Next ==
    \/ \E u \in Urls, tf \in [Terms -> 0..2] : IndexDocument(u, tf)
    \/ FlushSegment

Spec == Init /\ [][Next]_indexerVars

(***************************************************************************)
(* Spec 8, invariants 1-3: every posting list is in strictly increasing   *)
(* doc id order (so no document appears twice in it), every posting names  *)
(* an admitted document, and the recorded length of a document is the     *)
(* number of positions its postings hold.  Admission appends and counts   *)
(* under one lock, and the ids come from a counter no other code touches. *)
(***************************************************************************)
IndexConsistent ==
    /\ \A t \in Terms : \A i \in 1..(Len(postings[t]) - 1) :
          postings[t][i].doc < postings[t][i + 1].doc
    /\ \A t \in Terms : \A i \in DOMAIN postings[t] : postings[t][i].doc \in DocIds
    /\ \A d \in DocIds : docLengths[d] = PositionsIndexed(d)

=============================================================================
