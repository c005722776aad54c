--------------------------- MODULE Configuration ----------------------------
(***************************************************************************)
(* From the user's configuration to the proxychains: Load merges and       *)
(* decodes it (ConfigMerge, ConfigLoad), and the first loop of Server      *)
(* builds every chain that came out of it (Proxychain), in the random      *)
(* order of a Go map.  What Server does then is in ServerStartup.          *)
(***************************************************************************)
EXTENDS ConfigLoad, Proxychain

CONSTANT Scenarios  \* a configuration, and what the process finds around it

\* A configuration as yaml has decoded it: "sites" and the chains are lists, of what
\* such lists hold, or else of the wrong kind.
IsConfig(config) ==
  /\ IsConfigMap(config)
  /\ <<"sites">> \in DOMAIN config =>
       config[<<"sites">>] \in {Null, Map, Scalar} \cup Seq(Seq(Entries))
  /\ \A n \in KeysOf(config, <<"proxychains">>) :
       config[n] \in {Null, Map, Scalar} \cup Seq(ChainTexts)

ASSUME ScenariosAssumption == \A s \in Scenarios :
  /\ IsConfig(s.defaults) /\ IsConfig(s.user)
  /\ s.files \in [Paths -> Contents]

VARIABLES
  proxychains,  \* the dialers of the chains that were built
  name          \* the chain that the loop is at

vars == <<loadVars, environ, chainVars, proxychains, name>>

NoChain == <<>>

Init ==
  /\ \E s \in Scenarios :
       /\ MergeInit(s.defaults, s.user)
       /\ LoadInit(s.unused, s.system, s.files)
       /\ environ = s.environ
  /\ ChainInit
  /\ proxychains = <<>>
  /\ name = NoChain

-----------------------------------------------------------------------------

\* A chain's name is the path of its key.
Names == KeysOf(right, <<"proxychains">>)

StartChain(n) ==
  /\ pc = "loaded" /\ n \in Names \ DOMAIN proxychains
  /\ NewProxychain(List(n))
  /\ name' = n
  /\ UNCHANGED <<loadVars, environ, proxychains>>

Build == BuildChain /\ UNCHANGED <<loadVars, environ, proxychains, name>>

KeepChain ==
  /\ state = "built"
  /\ proxychains' = [n \in DOMAIN proxychains \cup {name} |->
                       IF n = name THEN proxyDialer ELSE proxychains[n]]
  /\ state' = "range"
  /\ UNCHANGED <<loadVars, environ, chain, element, proxyDialer, name>>

Ready ==
  /\ pc = "loaded" /\ state = "range" /\ Names = DOMAIN proxychains
  /\ state' = "ready"
  /\ UNCHANGED <<loadVars, environ, chain, element, proxyDialer, proxychains, name>>

\* Load or Server has returned an error, or Server goes on.
Returned == (pc = "error" \/ state \in {"error", "ready"}) /\ UNCHANGED vars

Next ==
  \/ Load /\ UNCHANGED <<environ, chainVars, proxychains, name>>
  \/ \E n \in Names : StartChain(n)
  \/ Build \/ KeepChain \/ Ready
  \/ Returned

Spec == Init /\ [][Next]_vars

-----------------------------------------------------------------------------
(* Properties.                                                             *)

\* The chains that the user wrote, and those that come from the defaults.
Written == {n \in DOMAIN user : Len(n) = 2 /\ n[1] = "proxychains"}
TextsOf(n) ==
  LET config == IF n \in Written THEN user ELSE left
  IN  IF config[n] = Null THEN <<>> ELSE config[n]

\* Server gets past the chains exactly if every chain that the user wrote, and
\* every default one that was not replaced, can be built; which one is tried
\* first makes no difference (proxychains.go:65-85, server.go:48-54).
OutcomeFollowsChains ==
  LET usable == \A n \in Names \cup Written : UsableChain(TextsOf(n))
  IN  (state = "ready" => usable) /\ (state = "error" => ~usable)

\* A connection passes every proxy of a chain that the user configured by its
\* URL, in the chain's order and whatever NO_PROXY says of the target; the
\* environment's proxy comes in between (proxychains.go:60-88).
ExplicitInOrder ==
  state = "ready" => \A n \in Names \cup Written : \A t \in Targets :
    Only(proxychains[n][t], Explicits) = Only(TextsOf(n), Explicits)

\* Where a chain asks the environment, there and nowhere else a connection passes the
\* environment's proxy, unless NO_PROXY names what is dialed next, the following
\* proxy or the target for the last one: the proxies it passes are, from the
\* first to the last, the chain's elements with the environment's in its place
\* (proxychains.go:60-88).
EnvironmentInPlace ==
  state = "ready" => \A n \in Names : \A t \in Targets :
    EnvironmentOnce(TextsOf(n)) =>
      proxychains[n][t] = Only(Passing(TextsOf(n), t), URLs)

-----------------------------------------------------------------------------
(* What a comment says, and the code does not do.                          *)

\* "ProxyURL is a custom type to validate roxy specifications"
\* (proxy_models.go:14): a chain with text that is neither is not loaded.
LoadValidates ==
  pc = "loaded" => \A n \in Names : \A i \in DOMAIN List(n) : List(n)[i] \notin NoURLs
=============================================================================
