----------------------------- MODULE Proxychain -----------------------------
(***************************************************************************)
(* NewProxychainFromConfig of pkg/server/proxychains.go, and the decoding  *)
(* of its elements in pkg/server/config/proxy_models.go.                   *)
(*                                                                         *)
(* A dialer is what it does: the function that gives for each address the  *)
(* proxies that a connection to it goes through, in order.  A proxy's URL  *)
(* also stands for the proxy's own address.                                *)
(***************************************************************************)
EXTENDS Naturals, SequencesExt

CONSTANTS
  URLs,       \* URLs of a scheme that a dialer is registered for
  OtherURLs,  \* URLs of another scheme, or of none
  NoURLs,     \* text that url.Parse rejects
  Targets     \* addresses that are no proxies

ProxyDirect == "direct"
ProxyEnvironment == "environment"
Blank == ""

ASSUME TextsAssumption ==
  /\ Blank \in OtherURLs
  /\ {ProxyDirect, ProxyEnvironment} \cap (URLs \cup OtherURLs \cup NoURLs) = {}
  /\ (URLs \cup OtherURLs) \cap NoURLs = {} /\ URLs \cap OtherURLs = {}

Addrs == URLs \cup Targets
ChainTexts == URLs \cup OtherURLs \cup NoURLs \cup {ProxyDirect, ProxyEnvironment}

VARIABLES
  environ,     \* ALL_PROXY and NO_PROXY
  state,       \* "range" between two calls, "build", "built", "error", or "ready" after the last
  chain,       \* cfg, the []config.Proxy of a call
  element,     \* the element of it that the loop is at
  proxyDialer  \* what was built so far

chainVars == <<state, chain, element, proxyDialer>>

Direct == [a \in Addrs |-> <<>>]

ChainInit ==
  /\ state = "range"
  /\ chain = <<>>
  /\ element = 1
  /\ proxyDialer = Direct

-----------------------------------------------------------------------------

\* ProxyURL.UnmarshalText: what is neither a URL nor a keyword leaves the value
\* as it was, empty, and is no error.
UnmarshalText(text) == IF text \in NoURLs THEN Blank ELSE text

\* The call, with what texts were decoded to.
NewProxychain(texts) ==
  /\ state = "range"
  /\ chain' = [i \in DOMAIN texts |-> UnmarshalText(texts[i])]
  /\ state' = "build" /\ element' = 1 /\ proxyDialer' = Direct

\* proxy.FromURL: a proxy that is itself dialed by what was built so far.
FromURL(url, forward) == [a \in Addrs |-> Append(forward[url], url)]

\* proxy.FromEnvironmentUsing: nothing for an ALL_PROXY that is unset or no use,
\* and nothing for the addresses in NO_PROXY.
FromEnvironmentUsing(forward) ==
  IF environ.allProxy \notin URLs THEN forward
  ELSE [a \in Addrs |-> IF a \in environ.noProxy THEN forward[a]
                        ELSE FromURL(environ.allProxy, forward)[a]]

Building == state = "build" /\ element <= Len(chain)

Wrap(dialer) ==
  /\ proxyDialer' = dialer
  /\ element' = element + 1
  /\ UNCHANGED <<chain, state>>

ReturnError == state' = "error" /\ UNCHANGED <<chain, element, proxyDialer>>

DirectFirst == Building /\ chain[element] = ProxyDirect /\ element = 1 /\ Wrap(proxyDialer)

\* A mutant: a direct connection later in the chain starts it anew.
DirectLaterRestarts ==
  Building /\ chain[element] = ProxyDirect /\ element # 1 /\ Wrap(Direct)

\* ErrDirectProxyAfterNonDirectProxy
DirectLater == Building /\ chain[element] = ProxyDirect /\ element # 1 /\ ReturnError

\* A mutant: the proxy of the environment is reached directly.
EnvironmentFromDirect ==
  Building /\ chain[element] = ProxyEnvironment /\ Wrap(FromEnvironmentUsing(Direct))

Environment ==
  Building /\ chain[element] = ProxyEnvironment /\ Wrap(FromEnvironmentUsing(proxyDialer))

\* A mutant: the new proxy comes before the others.
ExplicitInFront ==
  LET url == chain[element]
  IN  Building /\ url \in URLs /\ Wrap([a \in Addrs |-> <<url>> \o proxyDialer[url]])

Explicit == Building /\ chain[element] \in URLs /\ Wrap(FromURL(chain[element], proxyDialer))

UnknownScheme == Building /\ chain[element] \in OtherURLs /\ ReturnError

Built ==
  /\ state = "build" /\ element > Len(chain)
  /\ state' = "built"
  /\ UNCHANGED <<chain, element, proxyDialer>>

BuildChain ==
  DirectFirst \/ DirectLater \/ Environment \/ Explicit \/ UnknownScheme \/ Built

-----------------------------------------------------------------------------

\* The proxies that are configured by their URLs, but not what the environment names.
Explicits == URLs \ {environ.allProxy}

\* The elements of a sequence that are in a set, in their order.
Only(urls, set) ==
  LET kept[i \in 0..Len(urls)] ==
        IF i = 0 THEN <<>>
        ELSE IF urls[i] \in set THEN Append(kept[i - 1], urls[i]) ELSE kept[i - 1]
  IN  kept[Len(urls)]

\* What is dialed behind an element of a chain to reach an address.
Dialed(texts, i, address) ==
  IF i = Len(texts) THEN address
  ELSE IF texts[i + 1] = ProxyEnvironment THEN environ.allProxy
  ELSE texts[i + 1]

\* The elements that are passed on the way to an address.
Hops(texts, address) ==
  {i \in DOMAIN texts :
     \/ texts[i] \in URLs
     \/ /\ texts[i] = ProxyEnvironment
        /\ environ.allProxy \in URLs /\ Dialed(texts, i, address) \notin environ.noProxy}

\* What each element adds to the way to an address: its proxy, or that of the
\* environment, or nothing but a direct connection.
Passing(texts, address) ==
  [i \in DOMAIN texts |->
     IF i \notin Hops(texts, address) THEN ProxyDirect
     ELSE IF texts[i] = ProxyEnvironment THEN environ.allProxy ELSE texts[i]]

\* The environment is asked at most once.
EnvironmentOnce(texts) ==
  \A i, j \in DOMAIN texts :
    texts[i] = ProxyEnvironment /\ texts[j] = ProxyEnvironment => i = j

\* "direct" is nowhere but in front, and everything else is a proxy.
UsableChain(texts) ==
  \A i \in DOMAIN texts :
    \/ texts[i] \in URLs \cup {ProxyEnvironment}
    \/ texts[i] = ProxyDirect /\ i = 1
=============================================================================
