------------------------------- MODULE Config -------------------------------
(***************************************************************************)
(* Config::load (src/src/utils/config.cpp) and the start of main          *)
(* (src/src/main.cpp), which loads the file, exits when load returns      *)
(* false, and otherwise builds the components that copy their parameters  *)
(* out of the singleton.                                                   *)
(*                                                                         *)
(* The YAML file is abstracted to what load tells apart.  A section is     *)
(* absent, a map, or a scalar; an option in a map is absent, "good" (a    *)
(* value its .as<T>() converts) or "bad" (null, or of another type, which *)
(* .as<T>() throws on).  A good value of option o is the text Given(o);   *)
(* a default is its text in config.h.  per_domain is absent, a scalar, a  *)
(* sequence, or a map given as its items in document order.               *)
(***************************************************************************)
EXTENDS Integers, Sequences, SequencesExt

CONSTANTS
    Hosts,   \* the hosts a per_domain map may name
    Docs     \* the configuration files main may be started with

Opt(s, k) == [sec |-> s, key |-> k]

\* The keys load looks up in each section, in the order it looks them up.
SectionNames == {"scheduler", "fetcher", "rate_limit", "redis", "api", "memory"}
PerDomain == Opt("rate_limit", "per_domain")
LoadOrder ==
    << Opt("scheduler", "worker_threads"), Opt("scheduler", "queue_size"),
       Opt("scheduler", "max_retries"), Opt("scheduler", "retry_backoff_ms"),
       Opt("fetcher", "connect_timeout_ms"), Opt("fetcher", "read_timeout_ms"),
       Opt("fetcher", "max_redirects"), Opt("fetcher", "user_agent"),
       Opt("rate_limit", "enabled"), PerDomain, Opt("rate_limit", "default"),
       Opt("redis", "host"), Opt("redis", "port"),
       Opt("redis", "connection_pool_size"),
       Opt("api", "host"), Opt("api", "port"), Opt("api", "threads"),
       Opt("memory", "max_memory_mb"), Opt("memory", "flush_threshold_percent") >>

\* The scalar options: every key of LoadOrder but per_domain.
Options == Range(LoadOrder) \ {PerDomain}

\* The member initialisers of config.h, as text.
Defaults ==
    Opt("scheduler", "worker_threads") :> "8" @@ Opt("scheduler", "queue_size") :> "10000"
    @@ Opt("scheduler", "max_retries") :> "3" @@ Opt("scheduler", "retry_backoff_ms") :> "1000"
    @@ Opt("fetcher", "connect_timeout_ms") :> "5000" @@ Opt("fetcher", "read_timeout_ms") :> "10000"
    @@ Opt("fetcher", "max_redirects") :> "5" @@ Opt("fetcher", "user_agent") :> "WebCrawler/1.0"
    @@ Opt("rate_limit", "enabled") :> "true" @@ Opt("rate_limit", "default") :> "10"
    @@ Opt("redis", "host") :> "localhost" @@ Opt("redis", "port") :> "6379"
    @@ Opt("redis", "connection_pool_size") :> "10"
    @@ Opt("api", "host") :> "0.0.0.0" @@ Opt("api", "port") :> "8080" @@ Opt("api", "threads") :> "4"
    @@ Opt("memory", "max_memory_mb") :> "2048" @@ Opt("memory", "flush_threshold_percent") :> "80"

Given(o) == "yaml:" \o o.sec \o "." \o o.key

VARIABLES
    doc,        \* the file at config_path
    cfg,        \* the scalar members of the Config singleton
    perDomain,  \* rate_limit_per_domain_: host -> value
    loadOk,     \* what load returned
    phase,      \* where main is: "begin", "loaded", "exited", "constructed", "running"
    params      \* option -> the value the component that reads it copied

vars == <<doc, cfg, perDomain, loadOk, phase, params>>

Init ==
    /\ doc \in Docs
    /\ cfg = Defaults
    /\ perDomain = <<>>
    /\ loadOk = FALSE
    /\ phase = "begin"
    /\ params = <<>>

Fail(acc) == [acc EXCEPT !.ok = FALSE]

(***************************************************************************)
(* for (item : rl["per_domain"]) per_domain_[item.first] = item.second:   *)
(* a scalar iterates as empty and so does an empty sequence; the first    *)
(* item of a non-empty sequence has no .first, whose .as<>() throws; a    *)
(* map's items are assigned in order until a value does not convert.      *)
(***************************************************************************)
LoadPerDomain(acc) ==
    CASE doc.perDomain.kind \in {"absent", "scalar"} -> acc
      [] doc.perDomain.kind = "seq" ->
            IF doc.perDomain.items = <<>> THEN acc ELSE Fail(acc)
      [] OTHER -> FoldLeft(LAMBDA a, it :
                     IF ~a.ok THEN a
                     ELSE IF it.val = "bad" THEN Fail(a)
                     ELSE [a EXCEPT !.pd = (it.host :> Given(PerDomain)) @@ @],
                   acc, doc.perDomain.items)

\* One `if (sec["key"]) member = sec["key"].as<T>();` of load.  Indexing a
\* scalar section throws yaml-cpp's BadSubscript.
LoadOption(acc, o) ==
    CASE ~acc.ok \/ doc.sections[o.sec] = "absent" -> acc
      [] doc.sections[o.sec] = "scalar" -> Fail(acc)
      [] o = PerDomain -> LoadPerDomain(acc)
      [] doc.entries[o] = "absent" -> acc
      [] doc.entries[o] = "bad" -> Fail(acc)
      [] OTHER -> [acc EXCEPT !.cfg[o] = Given(o)]

(***************************************************************************)
(* load: YAML::LoadFile throws on a file it cannot read or parse; then    *)
(* the sections in order.  Every throw lands in the catch, which returns  *)
(* false with the members assigned so far left as they are.               *)
(***************************************************************************)
Load ==
    LET r == IF ~doc.readable THEN [cfg |-> cfg, pd |-> perDomain, ok |-> FALSE]
             ELSE FoldLeft(LoadOption, [cfg |-> cfg, pd |-> perDomain, ok |-> TRUE],
                           LoadOrder)
    IN /\ phase = "begin"
       /\ cfg' = r.cfg
       /\ perDomain' = r.pd
       /\ loadOk' = r.ok
       /\ phase' = "loaded"
       /\ UNCHANGED <<doc, params>>

\* main: a false load prints to std::cerr and returns 1.
ExitOnConfigError ==
    /\ phase = "loaded" /\ ~loadOk
    /\ phase' = "exited"
    /\ UNCHANGED <<doc, cfg, perDomain, loadOk, params>>

SchedulerReads == {Opt("scheduler", "max_retries"), Opt("scheduler", "retry_backoff_ms"),
                   Opt("scheduler", "worker_threads")}
FetcherReads == {Opt("fetcher", "connect_timeout_ms"), Opt("fetcher", "read_timeout_ms"),
                 Opt("fetcher", "max_redirects"), Opt("fetcher", "user_agent")}

(***************************************************************************)
(* main builds Scheduler, Fetcher, Parser, Deduplicator, Storage and      *)
(* Indexer.  The Scheduler constructor copies max_retries,                *)
(* retry_backoff_ms and worker_threads, the Fetcher constructor the two   *)
(* timeouts, max_redirects and the user agent; the others read nothing.   *)
(***************************************************************************)
ConstructComponents ==
    /\ phase = "loaded" /\ loadOk
    /\ params' = [o \in SchedulerReads \cup FetcherReads |-> cfg[o]]
    /\ phase' = "constructed"
    /\ UNCHANGED <<doc, cfg, perDomain, loadOk>>

\* init_redis(redis_host(), redis_port()), then api_server.init(api_host(),
\* api_port(), api_threads()).
InitServices ==
    /\ phase = "constructed"
    /\ params' = params @@ [o \in {Opt("redis", "host"), Opt("redis", "port"),
                                   Opt("api", "host"), Opt("api", "port"),
                                   Opt("api", "threads")} |-> cfg[o]]
    /\ phase' = "running"
    /\ UNCHANGED <<doc, cfg, perDomain, loadOk>>

\* rate_limit_per_domain(domain): the host's entry, else rate_limit_default_.
\* Nothing in the program calls it.
RateLimitPerDomain(h) ==
    IF h \in DOMAIN perDomain THEN perDomain[h] ELSE cfg[Opt("rate_limit", "default")]

Next == Load \/ ExitOnConfigError \/ ConstructComponents \/ InitServices

Spec == Init /\ [][Next]_vars

(***************************************************************************)
(* Reference, from spec 6 and 7: a file is valid when it can be read,     *)
(* every section is a map, every recognised option converts, and         *)
(* per_domain is a map of hosts to numbers.                                 *)
(***************************************************************************)
DocValid ==
    /\ doc.readable
    /\ \A s \in SectionNames : doc.sections[s] # "scalar"
    /\ \A o \in Options : doc.entries[o] # "bad"
    /\ doc.perDomain.kind \in {"absent", "map"}
    /\ \A i \in DOMAIN doc.perDomain.items : doc.perDomain.items[i].val = "good"

(***************************************************************************)
(* Spec 7, ConfigError is fatal at startup: main builds components only   *)
(* from a valid file.  It is about load's catch-all returning false on    *)
(* the first value that does not convert, after assigning the ones        *)
(* before it, and main's exit on false.                                   *)
(***************************************************************************)
ConfigErrorIsFatal == phase \in {"constructed", "running"} => DocValid

=============================================================================
