----------------------------- MODULE MCParser -----------------------------
(***************************************************************************)
(* Inputs for Parser: every text of up to four characters over a letter,   *)
(* its capital, '_', '-' and a space, and a handful of page trees shaped as  *)
(* gumbo builds them (<title> inside <head>) and as a fragment would be    *)
(* (<title> directly under the root).                                      *)
(***************************************************************************)
EXTENDS Parser

CONSTANTS h1, h2

MCChars == {"b", "B", "_", "-", " "}
MCWordChars == {"b", "B", "_"}
MCAlnumChars == {"b", "B"}
MCLower == [c \in MCChars |-> IF c = "B" THEN "b" ELSE c]

Txt(s) == [type |-> "text", tag |-> "none", href |-> NoHref, text |-> s,
           children |-> <<>>]
El(tag, kids) == [type |-> "element", tag |-> tag, href |-> NoHref,
                  text |-> <<>>, children |-> kids]
Anchor(h, kids) == [type |-> "element", tag |-> "a", href |-> h,
                    text |-> <<>>, children |-> kids]
Comment == [type |-> "other", tag |-> "none", href |-> NoHref, text |-> <<>>,
            children |-> <<>>]

W1 == <<"b", "B">>
W2 == <<"_", "b", "-", "B">>

\* A page as gumbo builds it, a fragment with the title at the root, one
\* with script and style, one with nested inline text and anchors, and one
\* whose title is not a plain text node.
MCDocs ==
    { El("html", <<El("head", <<El("title", <<Txt(W1)>>)>>),
                   El("body", <<El("p", <<Txt(W2)>>), Anchor(h1, <<Txt(W1)>>)>>)>>),
      El("html", <<El("title", <<Txt(W2)>>), Txt(W1), Comment>>),
      El("html", <<El("head", <<El("style", <<Txt(W1)>>)>>),
                   El("body", <<El("script", <<Txt(W2)>>), Txt(W1)>>)>>),
      El("html", <<El("body", <<El("b", <<Txt(W1)>>), Txt(W1),
                                Anchor(h2, <<El("b", <<Txt(W2)>>)>>),
                                Anchor(NoHref, <<Txt(W2)>>)>>)>>),
      El("html", <<El("title", <<Comment, Txt(W1)>>),
                   El("head", <<El("title", <<Txt(W2)>>)>>)>>) }

=============================================================================
