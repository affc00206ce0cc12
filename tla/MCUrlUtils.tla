----------------------------- MODULE MCUrlUtils -----------------------------
(***************************************************************************)
(* The URL helpers against spec 4.3 and 4.4.  url is a task URL: a string *)
(* of up to MaxLen characters that add_url accepts, canonicalized as it   *)
(* stores it.  href is an href of the page at url.  Both are chosen       *)
(* initially and never change; each state is one case.                    *)
(***************************************************************************)
EXTENDS UrlUtils, FiniteSets

CONSTANTS
    Alphabet,   \* the character classes of the strings tried
    MaxLen,     \* bound on the characters after "http://"
    Hrefs       \* the hrefs tried

VARIABLES url, href

\* All hrefs of up to two characters, and the relative paths among them.
MCHrefs == BoundedSeq(Alphabet, 2)

MCPathHrefs == {r \in MCHrefs : r # <<>> /\ r[1] = "a"}

(***************************************************************************)
(* References from RFC 3986, section 3: the origin is "http://" and the  *)
(* authority, which ends at the first '/', '?' or '#'; the path runs from *)
(* there to the first '?' or '#'; the directory is the path up to its     *)
(* last '/', and "/" for an empty path.                                   *)
(***************************************************************************)
Origin(u) ==
    LET rest == SubSeq(u, Len(Scheme) + 1, Len(u))
        j    == SelectInSeq(rest, LAMBDA c : c \in {"/", "?", "#"})
    IN  Scheme \o (IF j = 0 THEN rest ELSE SubSeq(rest, 1, j - 1))

Host(u) == SubSeq(Origin(u), Len(Scheme) + 1, Len(Origin(u)))

Path(u) ==
    LET rest == SubSeq(u, Len(Origin(u)) + 1, Len(u))
        j    == SelectInSeq(rest, LAMBDA c : c \in {"?", "#"})
    IN  IF j = 0 THEN rest ELSE SubSeq(rest, 1, j - 1)

Directory(u) ==
    Origin(u) \o (IF Path(u) = <<>> THEN <<"/">>
                  ELSE SubSeq(Path(u), 1, SelectLastInSeq(Path(u), LAMBDA c : c = "/")))

\* Spec 4.4: an absolute URL is kept, one starting with '/' is anchored to
\* the origin, any other is joined to the base URL's directory.
SpecResolve(base, rel) ==
    CASE rel = <<>>            -> base
      [] IsPrefix(Scheme, rel) -> rel
      [] rel[1] = "/"          -> Origin(base) \o rel
      [] OTHER                 -> Directory(base) \o rel

\* The task URLs tried: accepted by add_url, with a host of plain characters.
TaskUrls ==
    {u \in {Canonicalize(Scheme \o s) : s \in BoundedSeq(Alphabet, MaxLen)} :
        IsValid(u) /\ Host(u) # <<>> /\ \A i \in DOMAIN Host(u) : Host(u)[i] = "a"}

Init == url \in TaskUrls /\ href \in Hrefs

Next == UNCHANGED <<url, href>>

Spec == Init /\ [][Next]_<<url, href>>

(***************************************************************************)
(* Spec 4.4: parse resolves each href against the document URL as the     *)
(* spec says.  It is about resolve's use of the base's last '/', which    *)
(* for a URL with no path is the one in "http://".                        *)
(***************************************************************************)
ResolveJoinsDirectory == Resolve(url, href) = SpecResolve(url, href)

(***************************************************************************)
(* Spec 4.3: get_next_task and mark_failed key DomainBackoff by the host  *)
(* of the task URL.  It is about extract_domain's [^/]+, which runs on    *)
(* past a '?'.                                                            *)
(***************************************************************************)
ExtractDomainIsHost == ExtractDomain(url) = Host(url)

=============================================================================
