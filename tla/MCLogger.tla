------------------------------ MODULE MCLogger ------------------------------
(***************************************************************************)
(* The logger as main drives it: init("info", "json", "stdout"), then      *)
(* messages of every level, some of them carrying a URL.  UrlUtils::      *)
(* is_valid accepts any URL without white space, so a URL may contain a   *)
(* double quote or a backslash, and main logs "Failed to fetch: " + url.  *)
(* The properties read each JSON line back with a JSON reader written     *)
(* from RFC 8259, for an object whose members are all strings.            *)
(***************************************************************************)
EXTENDS Logger, TLC

CONSTANT MaxLines   \* bound on the lines written

\* main's one init call.
MCLogInits == {[level |-> "info", format |-> "json", output |-> "stdout"]}

\* main's messages: plain text, and "Failed to fetch: " + url for a URL
\* with no special character, one with a quote and one with a backslash.
MCMessages == {<<"a">>, <<"a", "q">>, <<"a", "b">>}

\* main passes no request id; the API's ids are plain.
MCRequestIds == {<<>>, <<"a">>}

MCInit == Init

MCNext == Len(out) < MaxLines /\ Next

MCSpec == MCInit /\ [][MCNext]_vars

\* The result of reading a string or an object: ok, the value, and the
\* index after it.
NoValue == [ok |-> FALSE, val |-> <<>>, next |-> 0]

\* The characters of a JSON string from s[i] to its closing quote; the
\* escapes \" and \\ stand for the character after the backslash.
RECURSIVE StringFrom(_, _, _)
StringFrom(s, i, acc) ==
    CASE i > Len(s)  -> NoValue
      [] s[i] = "q"  -> [ok |-> TRUE, val |-> acc, next |-> i + 1]
      [] s[i] = "b"  -> IF i < Len(s) /\ s[i + 1] \in {"q", "b"}
                        THEN StringFrom(s, i + 2, Append(acc, s[i + 1]))
                        ELSE NoValue
      [] OTHER       -> StringFrom(s, i + 1, Append(acc, s[i]))

StringAt(s, i) == IF i <= Len(s) /\ s[i] = "q" THEN StringFrom(s, i + 1, <<>>)
                                               ELSE NoValue

\* Members "name":"value" from s[i], separated by commas, up to the "}"
\* that ends the line; obj maps each name to its value.
RECURSIVE MembersFrom(_, _, _)
MembersFrom(s, i, obj) ==
    LET k == StringAt(s, i)
        v == StringAt(s, k.next + 1)
        o == (k.val :> v.val) @@ obj
    IN  CASE ~k.ok \/ k.next > Len(s) \/ s[k.next] # ":" -> NoValue
          [] ~v.ok \/ v.next > Len(s)                     -> NoValue
          [] s[v.next] = ","                              -> MembersFrom(s, v.next + 1, o)
          [] s[v.next] = "}" /\ v.next = Len(s)           -> [ok |-> TRUE, val |-> o, next |-> v.next + 1]
          [] OTHER                                        -> NoValue

JsonObject(s) == IF Len(s) > 0 /\ s[1] = "{" THEN MembersFrom(s, 2, <<>>) ELSE NoValue

\* The members a JSON line of the call e must have.
Expected(e) ==
    (<<"t">> :> <<"a">>) @@ (<<"l">> :> <<LevelName(e.level)>>) @@ (<<"m">> :> e.message)
    @@ (IF e.rid = <<>> THEN <<>> ELSE (<<"r">> :> e.rid))

(***************************************************************************)
(* Spec 1 (structured logging): a line written in JSON format is one JSON  *)
(* object whose members give back the timestamp, the level, the request   *)
(* id and the message of the call.  format_message copies the message and *)
(* the request id between quotes without escaping them.                   *)
(***************************************************************************)
LogLineIsJson ==
    \A i \in DOMAIN out :
        out[i].line[1] = "{" => JsonObject(out[i].line) = [ok |-> TRUE, val |-> Expected(out[i]), next |-> Len(out[i].line) + 1]

=============================================================================
