---------------------------- MODULE IndexSearch ----------------------------
(***************************************************************************)
(* Indexer::search and calculate_bm25 (src/src/indexer/indexer.cpp) over   *)
(* the index state of module Indexer.  search holds index_mutex_ for the   *)
(* whole call and writes nothing, so it is a set of operators read in a    *)
(* state, not an action: SearchResults(q, k) is every list the call can    *)
(* return for query q and topk k.                                          *)
(*                                                                         *)
(* A query word is a term in one of three spellings: lower case, upper     *)
(* case, or with a trailing punctuation mark.  The scores are doubles in   *)
(* the code; here they are exact rationals.  Only their order matters, and *)
(* it is exact for the queries enumerated: one distinct known term, so     *)
(* every score is m * idf * bm25 with m and idf common to all documents.   *)
(* Queries with two distinct known terms compare sums of logarithms, which *)
(* have no exact rational form; they are not enumerated.                   *)
(***************************************************************************)
EXTENDS Indexer, SequencesExt

Forms == {"lower", "upper", "punct"}

Words == [term : Terms, form : Forms]

\* k1_ = 1.5 and b_ = 0.75 as <<numerator, denominator>>.
K1 == <<3, 2>>
B  == <<3, 4>>

\* Fault model: the query word used as it was typed, without ::tolower.
TokenKeepsCase(w) == w

\* iss >> term, then std::transform(..., ::tolower): an upper-case word
\* becomes the term, a word with punctuation keeps it.
Token(w) == IF w.form = "upper" THEN [w EXCEPT !.form = "lower"] ELSE w

\* inverted_index_.find(query_term) != end(): the index keys are parser
\* terms, lower case without punctuation, and a key exists only once a
\* posting was pushed for it.
Found(tok) == tok.form = "lower" /\ postings[tok.term] # <<>>

\* The terms of query q that score, and the documents that get an entry
\* in doc_scores: every posting of such a term, whatever its idf.
ScoringTerms(q) == {Token(q[i]).term : i \in {i \in DOMAIN q : Found(Token(q[i]))}}

Candidates(q) ==
    UNION {{p.doc : p \in Range(postings[t])} : t \in ScoringTerms(q)}

\* avg_doc_length_ = (avg * (N - 1) + len) / N after each admission: in
\* exact arithmetic the mean of the lengths, <<sum, N>>.
AvgDocLength == <<SumFunction(docLengths), totalDocuments>>

\* idf = log(total_documents_ / df) is positive iff the term is missing
\* from some document, and exactly 0.0 when it is in all of them.
IdfPositive(t) == Len(postings[t]) < totalDocuments

\* posting.positions.size() of d's posting for t.
TfOfPosting(t, d) ==
    LET i == CHOOSE i \in DOMAIN postings[t] : postings[t][i].doc = d
    IN postings[t][i].tf

\* Fault model: the length normalised the other way, avg / len.
Bm25InvertedLength(tf, len) ==
    LET S == AvgDocLength[1]
        N == AvgDocLength[2]
    IN << tf * (K1[1] + K1[2]) * B[2] * len * N,
          tf * K1[2] * B[2] * len * N + K1[1] * ((B[2] - B[1]) * len * N + B[1] * S) >>

(***************************************************************************)
(* calculate_bm25: tf * (k1 + 1) / (tf + k1 * (1 - b + b * len / avg)),    *)
(* with numerator and denominator multiplied by avg's denominator and by   *)
(* those of k1 and b.  The doc_lengths_ lookup never misses: every posted  *)
(* document has a length.                                                  *)
(***************************************************************************)
Bm25(tf, len) ==
    LET S == AvgDocLength[1]
        N == AvgDocLength[2]
    IN << tf * (K1[1] + K1[2]) * B[2] * S,
          tf * K1[2] * B[2] * S + K1[1] * ((B[2] - B[1]) * S + B[1] * len * N) >>

\* doc_scores[d1] >= doc_scores[d2] for a query whose one scoring term is t.
ScoreGeq(t, d1, d2) ==
    LET s1 == Bm25(TfOfPosting(t, d1), docLengths[d1])
        s2 == Bm25(TfOfPosting(t, d2), docLengths[d2])
    IN ~IdfPositive(t) \/ s1[1] * s2[2] >= s2[1] * s1[2]

\* std::sort with a.second > b.second over the entries in unordered_map
\* order: any arrangement in which the scores do not increase.
SortedByScore(q, s) ==
    \A i, j \in 1..Len(s) : i < j =>
        \A t \in ScoringTerms(q) : ScoreGeq(t, s[i], s[j])

\* std::min(static_cast<size_t>(topk), n): a negative topk converts to
\* 2^64 + topk, above every list length.
Limit(k, n) == IF k < 0 \/ k >= n THEN n ELSE k

\* The first Limit(topk, n) sorted entries whose forward_index_ lookup
\* succeeds, as doc ids (url, title, snippet and score are left out).
SearchResults(q, k) ==
    { SelectSeq(SubSeq(s, 1, Limit(k, Len(s))), LAMBDA d : d \in DocIds) :
        s \in {s \in SetToSeqs(Candidates(q)) : SortedByScore(q, s)} }

=============================================================================
