----------------------------- MODULE MCStorage -----------------------------
(***************************************************************************)
(* Storage over the alphabet {"a", "-", "=", newline}: every body of up to *)
(* four characters (so "---" lines, bodies with and without a final        *)
(* newline, and the empty body), an empty and a one-entry metadata map,   *)
(* and every checkpoint map over two keys with values of up to two        *)
(* characters, some containing '='.                                        *)
(***************************************************************************)
EXTENDS Storage

MCNL == "\n"

MCBodyChars == {"a", "-", MCNL}

MCUrlLines == {<<"a">>}

MCMetaInputs == {<<>>, <<[key |-> <<"a">>, value |-> <<"a">>]>>}

\* Keys without '=' or a newline, values without a newline.
MCKeys == {<<>>, <<"a">>}
MCValues == BoundedSeq({"a", "="}, 2)
MCCkStates == UNION {[ks -> MCValues] : ks \in SUBSET MCKeys}

=============================================================================
