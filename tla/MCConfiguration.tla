-------------------------- MODULE MCConfiguration ---------------------------
(***************************************************************************)
(* Three families of scenarios: every user's configuration of two keys at  *)
(* each of two levels and of one at a third, for the embedded defaults and *)
(* three others; every list of certificates; and every chain of proxies.   *)
(***************************************************************************)
EXTENDS Configuration

CONSTANTS MaxCerts, MaxChain

MCPem == [text \in {"A", "AB", "garbage"} |->
            CASE text = "A" -> {"a"} [] text = "AB" -> {"a", "b"} [] text = "garbage" -> {}]

Scene(defaults, users, flags, contents, environs) ==
  [defaults : defaults, user : users, unused : flags, system : flags,
   files : contents, environ : environs]

NoEnviron == [allProxy |-> "", noProxy |-> {}]
NoFiles == [p \in Paths |-> Missing]

-----------------------------------------------------------------------------
(* The merge.                                                              *)

\* A value of each level that is a list there: of sites or chains, and of proxies.
Leaves(level) == {Null, IF level = 1 THEN <<>> ELSE <<"p">>}

\* All configurations of these keys, one set of them per level.
RECURSIVE Trees(_, _)
Trees(keys, level) ==
  IF keys = <<>> THEN {<<>>}
  ELSE LET Nested == {[value |-> Map, tree |-> t] : t \in Trees(Tail(keys), level + 1)}
           Values == Nested \cup {[value |-> leaf, tree |-> <<>>] : leaf \in Leaves(level)}
           Flat(m) == [p \in {<<k>> : k \in DOMAIN m}
                             \cup UNION {{<<k>> \o q : q \in DOMAIN m[k].tree} : k \in DOMAIN m}
                        |-> IF Len(p) = 1 THEN m[p[1]].value ELSE m[p[1]].tree[Tail(p)]]
       IN  UNION {{Flat(m) : m \in [S -> Values]} : S \in SUBSET Head(keys)}

Users == Trees(<<{"proxychains", "sites"}, {"default", "tor"}, {"x"}>>, 1)

Embedded == [p \in {<<"global">>, <<"proxychains">>, <<"proxychains", "default">>, <<"sites">>}
               |-> IF p \in {<<"global">>, <<"proxychains">>} THEN Map ELSE <<>>]
Deep(value) ==
  [p \in {<<"proxychains">>, <<"proxychains", "default">>, <<"proxychains", "default", "x">>,
          <<"proxychains", "default", "y">>, <<"proxychains", "tor">>, <<"sites">>}
     |-> IF p \in {<<"proxychains">>, <<"proxychains", "default">>} THEN Map ELSE value]
Scalars == [p \in {<<"proxychains">>, <<"sites">>} |-> Scalar]

Merging ==
  Scene({Embedded, Deep(<<>>), Deep(Scalar), Scalars}, Users, {FALSE}, {NoFiles}, {NoEnviron})

-----------------------------------------------------------------------------
(* Certificates and chains.                                                *)

Lists ==
  UNION {[1..n -> {"system", "f", "A", "garbage"}] : n \in 0..MaxCerts}
  \cup {<<"not a string">>, <<"A", "not a string">>, <<"f", "g">>, <<"g", "system", "f">>}

Certificates ==
  Scene({Embedded}, {[p \in {<<"sites">>} |-> <<list_>>] : list_ \in Lists}, BOOLEAN,
        [Paths -> Contents], {NoEnviron})

Texts == {"p", "q", "ftp", "%", ProxyDirect, ProxyEnvironment}
Chains == UNION {[1..n -> Texts] : n \in 0..MaxChain}
Environs == [allProxy : {"", "e", "p", "ftp"}, noProxy : SUBSET {"p", "t"}]

ChainOf(texts) ==
  [p \in {<<"proxychains">>, <<"proxychains", "tor">>} |-> IF Len(p) = 1 THEN Map ELSE texts]

Proxies == Scene({Embedded}, {ChainOf(texts) : texts \in Chains}, {FALSE}, {NoFiles}, Environs)

MCScenarios == Merging \cup Certificates \cup Proxies
=============================================================================
