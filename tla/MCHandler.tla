------------------------------ MODULE MCHandler -----------------------------
(***************************************************************************)
(* Four families of scenarios: every listener with at most two sites of    *)
(* at most three labels out of two names and the wildcard, and three       *)
(* larger ones, asked for every small host; two sites with every way to    *)
(* write the backend of one of them; every path for every selector; and    *)
(* every way to set and delete two headers in two spellings, with every    *)
(* kind of reply.                                                          *)
(***************************************************************************)
EXTENDS Handler

MCNotANumber == -1
MCNotConfigured == Text(<<>>, <<>>)
MCUndeclared == -1

Host(name) == Text(name, <<>>)
Unedited == [setHeaders |-> {}, delHeaders |-> {}]
Default == Select("", <<>>, FALSE)
Written(t, select) == [target |-> t, select |-> select] @@ Unedited
Scenario(hosts, w(_), r) == [sites |-> [h \in hosts |-> w(h)], request |-> r, names |-> {},
                               replies |-> {NoReply}]
Ask(host, path) == [host |-> host, path |-> path, listener |-> 8080]
Root == <<Empty, Empty>>

-----------------------------------------------------------------------------
(* Each site has its own target, named like it.                            *)

NamesUpTo(labels, n) == UNION {[1..k -> labels] : k \in 1..n}

SiteNames == NamesUpTo({"a", "c", "*"}, 3)
PairsOfSites == {{s, t} : s, t \in SiteNames}

\* The sites of README.md:36-57 with one rung more, and a listener on which
\* exact and wildcard labels compete at every level.
Ladder == {<<"c">>, <<"*", "c">>, <<"*", "*", "c">>, <<"*", "*", "*", "c">>}
Rivals == {<<"a", "c">>, <<"*", "c">>, <<"a", "*", "c">>, <<"*", "a", "c">>, <<"*", "*">>}
SiteSets == PairsOfSites \cup {{}, Ladder, Ladder \ {<<"*", "*", "*", "c">>}, Rivals}

MatchHosts == NamesUpTo({"a", "b", "c"}, 3)
           \cup {<<"b", "a", "b", "c">>, <<"a", "b", "b", "c">>, <<"b", "b", "b", "c">>,
                 <<"*", "c">>, <<"*">>}

OwnTarget(h) == Written(Text(h, <<443>>), Default)
Matches == {Scenario(hosts, OwnTarget, Ask(Host(h), Root)) : hosts \in SiteSets, h \in MatchHosts}

-----------------------------------------------------------------------------
(* One backend as it is written, and a site next to it.                    *)

NamedA == <<"a">>
Plain == {Host(NamedA), Host(<<"b", "c">>)}
WithPorts == {Text(NamedA, <<80>>), Text(NamedA, <<NotANumber>>), Text(<<"b", "c">>, <<70000>>),
              Text(NamedA, <<80, 443>>)}

WrittenTargets ==
  {NotConfigured, Host(<<"b">>), Text(<<"b">>, <<80, 443>>)}
  \cup {Text(n, <<p>>) : n \in {<<"b">>, NoName}, p \in {0, 443, MaxPort, MaxPort + 1, NotANumber}}
WrittenSelects ==
  {Select(n, i, o) : n \in {"", "path", "unknown"}, i \in {<<>>, <<1>>}, o \in BOOLEAN}

TwoSites(w) ==
  LET WrittenAt(h) == IF h = NamedA THEN w ELSE OwnTarget(h)
  IN  {Scenario({NamedA, <<"*">>}, WrittenAt, Ask(host, <<Empty, Host(NamedA), Empty>>)) :
         host \in Plain \cup WithPorts \cup {Empty}}
Backends == UNION {TwoSites(Written(t, s)) : t \in WrittenTargets, s \in WrittenSelects}

-----------------------------------------------------------------------------

Elements == Plain \cup WithPorts \cup {Empty, Dot, DotDot}
MCPaths == {<<Empty>>, <<Host(<<"*">>)>>}
           \cup {<<Empty>> \o rest : rest \in UNION {[1..n -> Elements] : n \in 1..3}}
PathBackends ==
  {Written(Text(<<"b">>, <<p>>), Select("path", i, FALSE)) :
     p \in {0, 443}, i \in {<<>>} \cup {<<i>> : i \in -1..3 \cup {MaxInt}}}
  \cup {Written(Text(<<"b">>, <<443>>), Default)}
Paths ==
  {[sites |-> <<"a">> :> w, request |-> Ask(Host(NamedA), p), names |-> {}, replies |-> {NoReply}] :
     w \in PathBackends, p \in MCPaths}

Reply(length, arrives, whole, gzip, unpacked) ==
  [length |-> length, arrives |-> arrives, whole |-> whole, gzip |-> gzip, unpacked |-> unpacked]

\* Plain and packed replies, whole and cut, with and without a length; one cut body
\* unpacks to just the length that was declared.
Replies ==
  {NoReply}
  \cup {Reply(Undeclared, 1, whole, FALSE, 0) : whole \in BOOLEAN}
  \cup {Reply(2, n, n = 2, FALSE, 0) : n \in 0..2} \cup {Reply(0, 0, TRUE, FALSE, 0)}
  \cup {Reply(Undeclared, 1, whole, TRUE, 3) : whole \in BOOLEAN}
  \cup {Reply(2, 2, TRUE, TRUE, 3), Reply(2, 1, FALSE, TRUE, 1), Reply(2, 1, FALSE, TRUE, 2)}

HeaderEdits ==
  {[sites |-> <<"a">> :> [Written(Text(<<"b">>, <<443>>), Default)
                            EXCEPT !.setHeaders = set, !.delHeaders = del],
    request |-> Ask(Host(NamedA), Root), names |-> names, replies |-> Replies] :
     set \in SUBSET Keys, del \in SUBSET Keys, names \in SUBSET HeaderNames}

MCFamilies == {Matches, Backends, Paths, HeaderEdits}
=============================================================================
