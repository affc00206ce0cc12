------------------------------ MODULE Storage ------------------------------
(***************************************************************************)
(* The on-disk formats of crawler::Storage (src/src/storage/storage.cpp):  *)
(* the document file docs/<id>.doc written by save_document and read back  *)
(* by load_document, and checkpoints/latest.ckpt written by save_checkpoint *)
(* and read back by load_checkpoint.                                       *)
(*                                                                         *)
(* A file is the sequence of characters written to it; a string is a       *)
(* sequence of characters of a small alphabet with one member of each     *)
(* class the readers tell apart: the newline std::getline splits on, '-'   *)
(* of the "---" delimiter, '=' of the checkpoint lines, and a plain        *)
(* character.  The variables are inputs, chosen once: the arguments of a   *)
(* save.  Opening a file that cannot be opened (both savers return false) *)
(* is modelled in Pipeline, where main calls save_document.                *)
(***************************************************************************)
EXTENDS Naturals, Sequences, SequencesExt

CONSTANTS
    NL,          \* '\n'
    BodyChars,   \* the characters a page body may contain
    UrlLines,    \* canonical URLs, as strings without a newline
    MetaInputs,  \* metadata maps, each as a sequence of [key, value] in
                 \* the map's iteration order
    CkStates     \* checkpoint maps: functions from keys to values

VARIABLES
    url, metadata, body,  \* the arguments of save_document
    ckState, ckOrder      \* the argument of save_checkpoint and the order
                          \* its unordered_map iterates in

vars == <<url, metadata, body, ckState, ckOrder>>

Delimiter == <<"-", "-", "-">>

\* out << s << "\n"
Line(s) == s \o <<NL>>

\* save_document: the URL line, a key:value line per metadata entry, the
\* delimiter line, then the body as it is.
SaveDocument(u, md, c) ==
    Line(u)
    \o FlattenSeq([i \in DOMAIN md |-> Line(md[i].key \o <<":">> \o md[i].value)])
    \o Line(Delimiter)
    \o c

(***************************************************************************)
(* The lines std::getline returns from a file: the text up to each         *)
(* newline, and a last unterminated line if there is one; a newline at the *)
(* very end yields no empty line after it.                                 *)
(***************************************************************************)
RECURSIVE GetLines(_)
GetLines(s) ==
    LET i == SelectInSeq(s, LAMBDA ch : ch = NL)
    IN  IF s = <<>> THEN <<>>
        ELSE IF i = 0 THEN <<s>>
        ELSE <<SubSeq(s, 1, i - 1)>> \o GetLines(SubSeq(s, i + 1, Len(s)))

(***************************************************************************)
(* load_document: every line equal to "---" sets in_content and is         *)
(* skipped; once in_content is set every other line is appended with a     *)
(* newline.                                                                *)
(***************************************************************************)
LoadDocument(file) ==
    LET step(acc, line) ==
            IF line = Delimiter THEN [acc EXCEPT !.inContent = TRUE]
            ELSE IF acc.inContent THEN [acc EXCEPT !.content = @ \o Line(line)]
            ELSE acc
    IN  FoldLeft(step, [inContent |-> FALSE, content |-> <<>>],
                 GetLines(file)).content

\* save_checkpoint: a key=value line per entry, in iteration order.
SaveCheckpoint(st, order) ==
    FlattenSeq([i \in DOMAIN order |->
                   Line(order[i] \o <<"=">> \o st[order[i]])])

\* Fault model: the line split at its last '=' (rfind) instead of its first.
LoadCheckpointRfind(file) ==
    LET step(acc, line) ==
            LET eqs == {i \in DOMAIN line : line[i] = "="}
                p == IF eqs = {} THEN 0 ELSE CHOOSE i \in eqs : \A j \in eqs : j <= i
            IN  IF p = 0 THEN acc
                ELSE (SubSeq(line, 1, p - 1) :> SubSeq(line, p + 1, Len(line))) @@ acc
    IN  FoldLeft(step, <<>>, GetLines(file))

(***************************************************************************)
(* load_checkpoint: each line with an '=' is split at the first one into   *)
(* key and value, and state[key] = value, a later line overriding an       *)
(* earlier one; a line without '=' is skipped.                             *)
(***************************************************************************)
LoadCheckpoint(file) ==
    LET step(acc, line) ==
            LET p == SelectInSeq(line, LAMBDA ch : ch = "=")
            IN  IF p = 0 THEN acc
                ELSE (SubSeq(line, 1, p - 1) :> SubSeq(line, p + 1, Len(line))) @@ acc
    IN  FoldLeft(step, <<>>, GetLines(file))

Init ==
    /\ url \in UrlLines
    /\ metadata \in MetaInputs
    /\ body \in BoundedSeq(BodyChars, 4)
    /\ ckState \in CkStates
    /\ ckOrder \in SetToSeqs(DOMAIN ckState)

Next == UNCHANGED vars

Spec == Init /\ [][Next]_vars

(***************************************************************************)
(* A checkpoint reads back as the map that was saved, whatever order the   *)
(* unordered_map iterated in, for keys without '=' and keys and values     *)
(* without a newline (the key=value line format has no escape for them).   *)
(* Values may contain '=', as URLs with a query string do: the reader      *)
(* splits at the first '=', and the key has none.                          *)
(***************************************************************************)
CheckpointRoundTrip ==
    LoadCheckpoint(SaveCheckpoint(ckState, ckOrder)) = ckState

(***************************************************************************)
(* Spec 6 (on-disk layout): after the URL line, the metadata lines and the *)
(* "---" line, the remainder of docs/<id>.doc is the raw body, so          *)
(* load_document returns the body save_document was given.  The reader    *)
(* rebuilds the body line by line, adding a newline after the last line    *)
(* and dropping any body line that reads "---".                            *)
(***************************************************************************)
DocumentRoundTrip ==
    LoadDocument(SaveDocument(url, metadata, body)) = body

=============================================================================
