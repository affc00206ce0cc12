------------------------------ MODULE UrlUtils ------------------------------
(***************************************************************************)
(* UrlUtils (src/src/utils/url_utils.cpp): canonicalize, extract_domain,   *)
(* is_valid and resolve, as operators on strings.  A string is a sequence  *)
(* of character classes: "h" is the text "http:" (or "https:"), "/", "?", *)
(* "#" and " " are themselves, and "a" is any other character.  The       *)
(* regular expressions only tell characters apart by these classes.      *)
(* normalize is called by nothing and is left out.                        *)
(***************************************************************************)
EXTENDS Integers, SequencesExt

\* "http://", the prefix the regexes and resolve look for.
Scheme == <<"h", "/", "/">>

\* canonicalize: everything before the first '#' (the query is not sorted).
Canonicalize(u) ==
    LET i == SelectInSeq(u, LAMBDA c : c = "#")
    IN  IF i = 0 THEN u ELSE SubSeq(u, 1, i - 1)

(***************************************************************************)
(* extract_domain: regex_search for https?://([^/]+), the leftmost place  *)
(* where "http://" is followed by a character other than '/', and the     *)
(* longest run of such characters after it; "" when there is none.        *)
(***************************************************************************)
ExtractDomain(u) ==
    LET starts == {p \in 1..(Len(u) - 3) : SubSeq(u, p, p + 2) = Scheme /\ u[p + 3] # "/"}
        rest   == SubSeq(u, Min(starts) + 3, Len(u))
        j      == SelectInSeq(rest, LAMBDA c : c = "/")
    IN  IF starts = {} THEN <<>>
        ELSE IF j = 0 THEN rest ELSE SubSeq(rest, 1, j - 1)

\* is_valid: regex_match of https?://[^\s]+ against the whole string.
IsValid(u) ==
    /\ IsPrefix(Scheme, u)
    /\ Len(u) > Len(Scheme)
    /\ \A i \in (Len(Scheme) + 1)..Len(u) : u[i] # " "

(***************************************************************************)
(* resolve(base_url, relative_url): an empty href is the base; one that   *)
(* starts with "http://" is kept; one that starts with '/' is put after   *)
(* extract_domain(base), with no scheme; any other is put after the base  *)
(* up to its last '/', wherever that slash is, or after base + "/".      *)
(***************************************************************************)
Resolve(base, rel) ==
    LET k == SelectLastInSeq(base, LAMBDA c : c = "/")
    IN  CASE rel = <<>>             -> base
          [] IsPrefix(Scheme, rel)  -> rel
          [] rel[1] = "/"           -> ExtractDomain(base) \o rel
          [] k # 0                  -> SubSeq(base, 1, k) \o rel
          [] OTHER                  -> base \o <<"/">> \o rel

=============================================================================
