---------------------------- MODULE MCEntrypoint ----------------------------
(***************************************************************************)
(* Small configurations for Entrypoint: up to two listeners, at the        *)
(* same or at overlapping addresses or at hostnames, up to two sites, a    *)
(* proxychain that can be built or not, and every way for them to clash or *)
(* to miss each other.                                                     *)
(***************************************************************************)
EXTENDS Entrypoint

MCNames == {"default", "http", "alt"}

Chains == {"default" :> TRUE, "default" :> FALSE}

Edge(host, port) == [host |-> host, port |-> port, type |-> HTTPEdge]
Pool == {Edge("0.0.0.0", "80"), Edge("10.0.0.1", "80"), Edge("10.0.0.1", "81"),
         Edge("localhost", "80"), Edge("localhost", "81")}
Other == [Edge("10.0.0.1", "80") EXCEPT !.type = OtherType]
ListenerMaps == {"http" :> l : l \in Pool \cup {Other}}
                \cup {("http" :> l) @@ ("alt" :> m) : l \in Pool \cup {Other}, m \in Pool}

MCBusySets == {{}, {<<"10.0.0.1", "80">>}, {<<"10.0.0.1", "81">>}}

SiteOn(host, names) ==
  [host |-> host, listener |-> names, proxychain |-> "default", backendOK |-> TRUE,
   badIndex |-> FALSE]
GoodSites ==
  {SiteOn(h, names) : h \in Hosts,
                      names \in {<<"http">>, <<"alt", "http">>}}
BadSites ==
  {[SiteOn("x", <<"http">>) EXCEPT !.proxychain = "http"],
   [SiteOn("x", <<"http">>) EXCEPT !.backendOK = FALSE],
   [SiteOn("x", <<"http">>) EXCEPT !.badIndex = TRUE]}
SiteLists == {<<>>, <<SiteOn("x", <<"http", "http">>)>>}
                   \cup {<<s>> : s \in GoodSites \cup BadSites}
                   \cup {<<s, t>> : s \in GoodSites, t \in GoodSites \cup BadSites}

\* Every two listeners with two sites on both, every two sites on one or two
\* listeners, and a chain that can be built or not.
Both == {<<SiteOn("x", <<"http">>), SiteOn("y", <<"alt", "http">>)>>}
Apart == ("http" :> Edge("10.0.0.1", "80")) @@ ("alt" :> Edge("10.0.0.1", "81"))

MCConfigs ==
  [proxychains : {"default" :> TRUE}, listeners : ListenerMaps, sites : Both]
  \cup [proxychains : {"default" :> TRUE}, listeners : {Apart, "http" :> Edge("10.0.0.1", "80")},
        sites : SiteLists]
  \cup [proxychains : Chains, listeners : {"http" :> Edge("10.0.0.1", "80")},
        sites : {<<SiteOn("x", <<"http">>)>>}]
=============================================================================
