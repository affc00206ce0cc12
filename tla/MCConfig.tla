------------------------------ MODULE MCConfig ------------------------------
(***************************************************************************)
(* The configuration files main is started with: an unreadable one, one  *)
(* with a scalar section, every file giving at most two options (each    *)
(* good or bad, so a bad value after a good one occurs, in one section    *)
(* or two), and per_domain as a scalar, a sequence or a map of up to two *)
(* hosts, beside at most one other option.                                *)
(***************************************************************************)
EXTENDS Config, FiniteSetsExt

NoPerDomain == [kind |-> "absent", items |-> <<>>]

Item(h, v) == [host |-> h, val |-> v]

PerDomainItems ==
    {<<>>} \cup {<<Item(h, v)>> : h \in Hosts, v \in {"good", "bad"}}
    \cup {<<Item(hs[1], v1), Item(hs[2], v2)>> :
            hs \in {hs \in Hosts \X Hosts : hs[1] # hs[2]},
            v1 \in {"good", "bad"}, v2 \in {"good", "bad"}}

\* per_domain written as a scalar, as a sequence (empty, or of one item),
\* or as a map.
PerDomainForms ==
    {[kind |-> "scalar", items |-> <<>>], [kind |-> "seq", items |-> <<>>]}
    \cup {[kind |-> "seq", items |-> <<Item(h, "good")>>] : h \in Hosts}
    \cup {[kind |-> "map", items |-> i] : i \in PerDomainItems}

\* A file giving the options of S with the values f, and per_domain pd.
File(S, f, pd) ==
    [readable  |-> TRUE,
     sections  |-> [s \in SectionNames |->
                      IF (\E o \in S : o.sec = s) \/ (s = "rate_limit" /\ pd.kind # "absent")
                      THEN "map" ELSE "absent"],
     entries   |-> [o \in Options |-> IF o \in S THEN f[o] ELSE "absent"],
     perDomain |-> pd]

Files(n, pds) ==
    UNION {{File(S, f, pd) : f \in [S -> {"good", "bad"}], pd \in pds} :
              S \in UNION {kSubset(i, Options) : i \in 0..n}}

EmptyFile == File({}, <<>>, NoPerDomain)

MCDocs ==
    {[EmptyFile EXCEPT !.readable = FALSE]}
    \cup {[EmptyFile EXCEPT !.sections[s] = "scalar"] : s \in SectionNames}
    \cup Files(2, {NoPerDomain}) \cup Files(1, PerDomainForms)

=============================================================================
