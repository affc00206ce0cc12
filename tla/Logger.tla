------------------------------- MODULE Logger -------------------------------
(***************************************************************************)
(* The Logger singleton (src/src/observability/logger.cpp).  main is the   *)
(* only caller (api_server.cpp takes the instance and never logs), so     *)
(* each call is one step.  A line is built character by character, since  *)
(* the property is about the JSON it forms.  A character is "q" (a double  *)
(* quote), "b" (a backslash), one of { } : , [ ] and space, or a letter:   *)
(* "t", "l", "r", "m" stand for the member names timestamp, level,         *)
(* request_id and message, "D", "I", "W", "E" for the level names, and     *)
(* "a" for any other character.  JSON tells characters apart only by      *)
(* these classes.  The timestamp is one "a".                               *)
(***************************************************************************)
EXTENDS Integers, Sequences

CONSTANTS
    Messages,     \* the messages logged, as character sequences
    RequestIds,   \* request ids, <<>> for none
    LogInits      \* the [level, format, output] arguments of init

\* LogLevel: DEBUG < INFO < WARN < ERROR, as the enum's values.
DEBUG == 0
INFO  == 1
WARN  == 2
ERROR == 3

VARIABLES
    minLevel,     \* min_level_
    jsonFormat,   \* json_format_
    fileOpen,     \* file_output_ && file_output_->is_open()
    out           \* the lines written: [sink, line, level, message, rid]

vars == <<minLevel, jsonFormat, fileOpen, out>>

\* The member initialisers of logger.h: INFO, text, no file.
Init ==
    /\ minLevel = INFO
    /\ jsonFormat = FALSE
    /\ fileOpen = FALSE
    /\ out = <<>>

(***************************************************************************)
(* init(level, format, output): a level name sets min_level_ (any other   *)
(* leaves it), the format is JSON iff it is "json", and an output other   *)
(* than "stdout" or "" opens that file for appending, which may fail.  An *)
(* output of "stdout" leaves an earlier file in place.                     *)
(***************************************************************************)
LevelOf == [debug |-> DEBUG, info |-> INFO, warn |-> WARN, error |-> ERROR]

InitLogger(level, format, output) ==
    /\ minLevel' = IF level \in DOMAIN LevelOf THEN LevelOf[level] ELSE minLevel
    /\ jsonFormat' = (format = "json")
    /\ IF output \notin {"stdout", ""} THEN fileOpen' \in BOOLEAN
                                       ELSE UNCHANGED fileOpen
    /\ UNCHANGED out

\* level_to_string.
LevelName(level) == <<"D", "I", "W", "E">>[level + 1]

\* "..." around a string, with nothing escaped.
Quoted(s) == <<"q">> \o s \o <<"q">>

\* A member "name":"value" followed by a comma.
Member(name, value) == Quoted(<<name>>) \o <<":">> \o Quoted(value) \o <<",">>

(***************************************************************************)
(* format_message: in JSON, {"timestamp":"...","level":"L",               *)
(* ["request_id":"R",]"message":"M"} with message and request id written  *)
(* as they are; in text, "ts [L] [req:R] M".                              *)
(***************************************************************************)
FormatMessage(level, message, rid) ==
    IF jsonFormat
    THEN <<"{">> \o Member("t", <<"a">>) \o Member("l", <<LevelName(level)>>)
         \o (IF rid = <<>> THEN <<>> ELSE Member("r", rid))
         \o Quoted(<<"m">>) \o <<":">> \o Quoted(message) \o <<"}">>
    ELSE <<"a", " ", "[", LevelName(level), "]">>
         \o (IF rid = <<>> THEN <<>> ELSE <<" ", "[", "r", ":">> \o rid \o <<"]">>)
         \o <<" ">> \o message

(***************************************************************************)
(* log(level, message, request_id): a level below min_level_ returns at   *)
(* once; otherwise, under log_mutex_, the formatted line goes to the file *)
(* when one is open and to stdout otherwise.  debug/info/warn/error call  *)
(* it with their level.                                                    *)
(***************************************************************************)
Log(level, message, rid) ==
    /\ level >= minLevel
    /\ out' = Append(out, [sink    |-> IF fileOpen THEN "file" ELSE "stdout",
                           line    |-> FormatMessage(level, message, rid),
                           level   |-> level, message |-> message, rid |-> rid])
    /\ UNCHANGED <<minLevel, jsonFormat, fileOpen>>

Next ==
    \/ \E i \in LogInits : InitLogger(i.level, i.format, i.output)
    \/ \E level \in {DEBUG, INFO, WARN, ERROR}, m \in Messages, r \in RequestIds :
          Log(level, m, r)

Spec == Init /\ [][Next]_vars

=============================================================================
