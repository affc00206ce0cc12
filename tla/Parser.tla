------------------------------- MODULE Parser -------------------------------
(***************************************************************************)
(* crawler::Parser (src/src/parser/parser.cpp): the title, the text, the   *)
(* hrefs and the positional terms of a page, from the DOM gumbo builds.    *)
(*                                                                         *)
(* A DOM node is a record: type "text" (a GUMBO_NODE_TEXT, with its text), *)
(* "element" (with its tag, its href attribute or NoHref, and its          *)
(* children), or "other" (comments, whitespace-only text and the other     *)
(* node types, which every traversal of the parser passes over).  The      *)
(* root is output->root, the <html> element.  Text is a sequence of        *)
(* characters drawn from a small alphabet that has one member of each      *)
(* class the code tells apart: \w or not (std::regex), isalnum or not,     *)
(* upper or lower case.                                                    *)
(*                                                                         *)
(* The variables are the inputs: a text for the tokenizer and a DOM for    *)
(* parse.  They are chosen once and never change; the properties compare   *)
(* the code's operators with reference definitions from spec 4.4.          *)
(***************************************************************************)
EXTENDS Naturals, Sequences, SequencesExt

CONSTANTS
    Chars,       \* the alphabet
    WordChars,   \* the characters \w matches: [A-Za-z0-9_]
    AlnumChars,  \* the characters std::isalnum accepts
    Lower,       \* [Chars -> Chars], ::tolower
    NoHref,      \* an <a> without an href attribute
    Docs         \* the DOMs to parse

ASSUME WordChars \subseteq Chars /\ AlnumChars \subseteq WordChars
ASSUME Lower \in [Chars -> Chars]

VARIABLES
    text,   \* the argument of tokenize
    root    \* output->root for the page given to parse

vars == <<text, root>>

\* One word of the tokenizer: a token kept after normalisation.
Terms == Seq(AlnumChars) \ {<<>>}

(***************************************************************************)
(* extract_text_recursive: a text node contributes its text and a space;   *)
(* an element other than <script> and <style> contributes its children in  *)
(* order; anything else contributes nothing.                               *)
(***************************************************************************)
RECURSIVE ExtractTextRec(_)

\* Fault model: <script> and <style> not skipped.
RECURSIVE ExtractTextRecAll(_)
ExtractTextRecAll(n) ==
    CASE n.type = "text" -> n.text \o <<" ">>
      [] n.type = "element" ->
            FlattenSeq([i \in DOMAIN n.children |-> ExtractTextRecAll(n.children[i])])
      [] OTHER -> <<>>

ExtractTextRec(n) ==
    CASE n.type = "text" -> n.text \o <<" ">>
      [] n.type = "element" /\ n.tag \notin {"script", "style"} ->
            FlattenSeq([i \in DOMAIN n.children |-> ExtractTextRec(n.children[i])])
      [] OTHER -> <<>>

\* extract_text(html): the text of the whole tree.
ExtractText(r) == ExtractTextRec(r)

(***************************************************************************)
(* extract_links_recursive: an <a> with an href contributes it (resolved   *)
(* against the base URL by UrlUtils::resolve, modelled in Pipeline), then  *)
(* every element's children are visited in order.                          *)
(***************************************************************************)
RECURSIVE ExtractLinksRec(_)
ExtractLinksRec(n) ==
    IF n.type # "element" THEN <<>>
    ELSE (IF n.tag = "a" /\ n.href # NoHref THEN <<n.href>> ELSE <<>>)
         \o FlattenSeq([i \in DOMAIN n.children |-> ExtractLinksRec(n.children[i])])

(***************************************************************************)
(* tokenize: the matches of \b\w+\b in order.  On this alphabet a match    *)
(* of \w+ between word boundaries is a maximal run of word characters,     *)
(* which the scan collects: cur is the run being read, acc the tokens.     *)
(***************************************************************************)
RECURSIVE Scan(_, _, _)
Scan(s, cur, acc) ==
    LET flush == IF cur = <<>> THEN acc ELSE Append(acc, cur)
    IN  IF s = <<>> THEN flush
        ELSE IF Head(s) \in WordChars THEN Scan(Tail(s), Append(cur, Head(s)), acc)
        ELSE Scan(Tail(s), <<>>, flush)

Tokenize(s) == Scan(s, <<>>, <<>>)

\* Fault model: normalize_token lowering without erasing non-alphanumerics.
NormalizeTokenLowerOnly(t) == [i \in DOMAIN t |-> Lower[t[i]]]

\* normalize_token: lowercase, then erase what is not alphanumeric.
NormalizeToken(t) ==
    SelectSeq([i \in DOMAIN t |-> Lower[t[i]]], LAMBDA c : c \in AlnumChars)

\* Fault model: positions counted among the kept terms, not all tokens.
TermPositionsKeptOnly(tokens) ==
    LET kept == SelectSeq([i \in DOMAIN tokens |-> NormalizeToken(tokens[i])],
                          LAMBDA t : t # <<>>)
    IN  [t \in {kept[i] : i \in DOMAIN kept} |->
            LET at == SelectSeq([i \in DOMAIN kept |-> i], LAMBDA i : kept[i] = t)
            IN  [j \in DOMAIN at |-> at[j] - 1]]

(***************************************************************************)
(* The loop of parse over doc.tokens: term_positions[normalized] gets the  *)
(* 0-based index i of every token whose normalisation is not empty.        *)
(***************************************************************************)
TermPositions(tokens) ==
    [t \in {NormalizeToken(tokens[i]) : i \in DOMAIN tokens} \ {<<>>} |->
        LET at == SelectSeq([i \in DOMAIN tokens |-> i],
                            LAMBDA i : NormalizeToken(tokens[i]) = t)
        IN  [j \in DOMAIN at |-> at[j] - 1]]

(***************************************************************************)
(* The title loop of parse: among the children of the root, the first      *)
(* element with tag <title>; its first child's text if that is a text      *)
(* node, else nothing.  Only the root's own children are looked at.        *)
(***************************************************************************)
Title(r) ==
    LET titles == SelectSeq(r.children,
                            LAMBDA c : c.type = "element" /\ c.tag = "title")
    IN  IF titles = <<>> \/ titles[1].children = <<>> THEN <<>>
        ELSE IF titles[1].children[1].type = "text" THEN titles[1].children[1].text
        ELSE <<>>

\* parse(url, html): the ParsedDocument fields the crawl reads.
Parse(r) ==
    LET tokens == Tokenize(ExtractText(r))
    IN  [title |-> Title(r), links |-> ExtractLinksRec(r), tokens |-> tokens,
         termPositions |-> TermPositions(tokens)]

Init == text \in BoundedSeq(Chars, 4) /\ root \in Docs

Next == UNCHANGED vars

Spec == Init /\ [][Next]_vars

\* The terms a page yields are alphanumeric and not empty, and the text
\* is over the alphabet.
TypeOK ==
    /\ text \in Seq(Chars)
    /\ DOMAIN TermPositions(Tokenize(text)) \subseteq Terms
    /\ DOMAIN Parse(root).termPositions \subseteq Terms

(***************************************************************************)
(* Reference definitions from spec 4.4.                                    *)
(***************************************************************************)

\* The maximal runs of [A-Za-z0-9_] in s, in order.
SpecTokens(s) ==
    LET isRun(r) ==
            /\ r[1] <= r[2]
            /\ \A k \in r[1]..r[2] : s[k] \in WordChars
            /\ r[1] = 1 \/ s[r[1] - 1] \notin WordChars
            /\ r[2] = Len(s) \/ s[r[2] + 1] \notin WordChars
        runs == SetToSortSeq({r \in (1..Len(s)) \X (1..Len(s)) : isRun(r)},
                             LAMBDA a, b : a[1] < b[1])
    IN  [i \in DOMAIN runs |-> SubSeq(s, runs[i][1], runs[i][2])]

\* lowercase(strip non-alphanumeric).
SpecTerm(tok) ==
    LET kept == SelectSeq(tok, LAMBDA c : c \in AlnumChars)
    IN  [i \in DOMAIN kept |-> Lower[kept[i]]]

\* term -> the positions, in the raw token stream, of its tokens.
SpecTermPositions(toks) ==
    [t \in {SpecTerm(toks[i]) : i \in DOMAIN toks} \ {<<>>} |->
        SetToSortSeq({i - 1 : i \in {j \in DOMAIN toks : SpecTerm(toks[j]) = t}},
                     LAMBDA a, b : a < b)]

\* The text nodes of the tree in document order, <script> and <style>
\* subtrees skipped.
RECURSIVE SpecTextNodes(_)
SpecTextNodes(n) ==
    IF n.type = "text" THEN <<n.text>>
    ELSE IF n.type = "element" /\ n.tag \notin {"script", "style"}
         THEN FlattenSeq([i \in DOMAIN n.children |-> SpecTextNodes(n.children[i])])
         ELSE <<>>

\* The text nodes joined by single spaces.
SpecText(r) ==
    LET parts == SpecTextNodes(r)
    IN  FlattenSeq([i \in DOMAIN parts |->
                       IF i = 1 THEN parts[i] ELSE <<" ">> \o parts[i]])

\* The elements of the tree in document order.
RECURSIVE Preorder(_)
Preorder(n) ==
    IF n.type # "element" THEN <<>>
    ELSE <<n>> \o FlattenSeq([i \in DOMAIN n.children |-> Preorder(n.children[i])])

\* The text content of the first <title> element under the root.
SpecTitle(r) ==
    LET titles == SelectSeq(Preorder(r), LAMBDA e : e.tag = "title")
    IN  IF titles = <<>> THEN <<>> ELSE FlattenSeq(SpecTextNodes(titles[1]))

(***************************************************************************)
TokensMatchSpec == Tokenize(text) = SpecTokens(text)

(***************************************************************************)
(* Spec 4.4: a term's positions are the indices, in the raw token stream,  *)
(* of the tokens that normalise to it, so tokens that normalise to nothing *)
(* leave gaps and positions strictly increase.  The code numbers tokens    *)
(* before dropping the empty normalisations.                               *)
(***************************************************************************)
TermPositionsMatchSpec ==
    TermPositions(Tokenize(text)) = SpecTermPositions(SpecTokens(text))

(***************************************************************************)
(* Spec 4.4: the tokens of a page are those of its text nodes in document  *)
(* order, separated by spaces, with <script> and <style> skipped; so text  *)
(* nodes never run together into one token and script code never becomes  *)
(* a term.                                                                 *)
(***************************************************************************)
PageTokensMatchSpec ==
    Parse(root).tokens = SpecTokens(SpecText(root))

(***************************************************************************)
(* Spec 4.4: the title is the text content of the first <title> element    *)
(* under the document root.  The code looks only at the root's own         *)
(* children, where gumbo never puts <title> (it goes into <head>).         *)
(***************************************************************************)
TitleMatchesSpec == Parse(root).title = SpecTitle(root)

=============================================================================
