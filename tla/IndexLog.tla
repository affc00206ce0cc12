------------------------------ MODULE IndexLog ------------------------------
(***************************************************************************)
(* What the indexer promises its callers (spec 4.5 and 5): document        *)
(* admission is totally ordered, and the index holds, under consecutive    *)
(* doc ids from 1, exactly the documents admitted, each with its URL and   *)
(* its term frequencies.  The state is that ordered log and nothing else:  *)
(* the document with id i is log[i].  Segment flushes do not change it.    *)
(* The index lives in memory only (flush_segment writes an empty file), so *)
(* a new process starts with an empty log.                                 *)
(***************************************************************************)
EXTENDS Naturals, Sequences

CONSTANTS
    Urls,    \* canonical URLs
    Terms,   \* normalised terms
    MaxTf    \* the largest term frequency a document may have

VARIABLE log   \* the admitted documents, in admission order

Doc == [url : Urls, tf : [Terms -> 0..MaxTf]]

TypeOK == log \in Seq(Doc)

Init == log = <<>>

\* index_document: one document is appended; no earlier entry changes.
Admit == log' \in {Append(log, d) : d \in Doc}

\* A new process: the in-memory index is gone.
Forget == log' = <<>>

Next == Admit \/ Forget

Spec == Init /\ [][Next]_log

=============================================================================
