--------------------------- MODULE MCEdgeListener ---------------------------
(***************************************************************************)
(* Small instances of EdgeListener.  The sites overlap in every way the    *)
(* tree distinguishes: a host and a wildcard next to it, one wildcard      *)
(* below another, a bare wildcard, labels below a wildcard, a prefix of    *)
(* another site's path.                                                    *)
(***************************************************************************)
EXTENDS EdgeListener, FiniteSets

CONSTANT r1

MCLabel == {"a", "b", "c", "*"}

MCSites == {<<"c">>, <<"a", "c">>, <<"*", "c">>, <<"*", "*", "c">>, <<"*">>,
            <<"b", "a", "*">>}
MCSiteSets ==
  {s \in SUBSET MCSites : Cardinality(s) <= 3}
  \cup {{<<"c">>, <<"a", "c">>, <<"*", "c">>, <<"*", "*", "c">>},
        {<<"a", "c">>, <<"*", "c">>, <<"*">>, <<"b", "a", "*">>}}
MCHosts == {<<"c">>, <<"a", "c">>, <<"b", "c">>, <<"b", "a", "c">>,
            <<"b", "b", "c">>, <<"a">>, <<"b", "c", "a", "b">>}
=============================================================================
