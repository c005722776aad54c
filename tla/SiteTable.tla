----------------------------- MODULE SiteTable -----------------------------
(***************************************************************************)
(* What an HTTPEdgeListener promises, without a tree: a table of sites     *)
(* that grows one site at a time until the configuration is complete, and  *)
(* requests that are answered from it.  EdgeListener implements it.        *)
(***************************************************************************)
EXTENDS HostTrie

CONSTANTS SiteSets, Hosts, Requests

VARIABLES
  sites,     \* the sites of the configuration
  attached,  \* the ones that answer requests already
  alive,     \* FALSE once the process is dead
  asked      \* the requests

vars == <<sites, attached, alive, asked>>

NotAsked == [st |-> "idle", host |-> <<>>, backend |-> NoBackend, settled |-> FALSE]

Init ==
  /\ sites \in SiteSets
  /\ attached = {}
  /\ alive = TRUE
  /\ asked = [r \in Requests |-> NotAsked]

Attach(site) ==
  /\ alive
  /\ attached' = attached \cup {site}
  /\ UNCHANGED <<sites, alive, asked>>

Ask(r, host) ==
  /\ alive
  /\ asked[r].st = "idle"
  /\ asked' = [asked EXCEPT ![r].st = "pending", ![r].host = host,
                            ![r].settled = (attached = sites)]
  /\ UNCHANGED <<sites, attached, alive>>

\* A site may stand for a host if it covers its last components.
MayServe(site, host) ==
  LET components == HostComponents(host)
  IN  \E k \in 0..Len(components) : Covers(HostComponents(site), components, k)

\* A request that arrives after the last site gets the one answer the
\* configuration determines.  An earlier one gets that of some attached site
\* that may serve it, or none.
Answer(r, backend) ==
  /\ alive
  /\ asked[r].st = "pending"
  /\ IF asked[r].settled
     THEN backend = Route(sites, asked[r].host)
     ELSE backend # NoBackend => MayServe(backend, asked[r].host)
  /\ asked' = [asked EXCEPT
       ![r].backend = backend,
       ![r].st = IF backend = NoBackend THEN "badGateway" ELSE "dispatched"]
  /\ UNCHANGED <<sites, attached, alive>>

\* Only a request that arrived before the last site can be dropped.
Abort(r) ==
  /\ alive
  /\ asked[r].st = "pending" /\ ~asked[r].settled
  /\ asked' = [asked EXCEPT ![r].st = "aborted"]
  /\ UNCHANGED <<sites, attached, alive>>

Release(r) ==
  /\ alive
  /\ asked[r].st \in {"dispatched", "badGateway", "aborted"}
  /\ asked' = [asked EXCEPT ![r] = NotAsked]
  /\ UNCHANGED <<sites, attached, alive>>

\* The process dies only while sites are missing and requests are pending.
Crash ==
  /\ alive /\ attached # sites
  /\ \E r \in Requests : asked[r].st = "pending" /\ ~asked[r].settled
  /\ alive' = FALSE
  /\ UNCHANGED <<sites, attached, asked>>

Next ==
  \/ \E site \in sites \ attached : Attach(site)
  \/ \E r \in Requests :
       \/ \E host \in Hosts : Ask(r, host)
       \/ \E backend \in attached \cup {NoBackend} : Answer(r, backend)
       \/ Abort(r)
       \/ Release(r)
  \/ Crash

Spec == Init /\ [][Next]_vars
=============================================================================
