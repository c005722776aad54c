---------------------------- MODULE EdgeListener ----------------------------
(***************************************************************************)
(* One HTTPEdgeListener (pkg/server/listeners.go) between the moment it    *)
(* starts accepting and the end of the program.                            *)
(*                                                                         *)
(* Server starts the listeners first and attaches the sites afterwards, so *)
(* AddSite, run by the main goroutine, writes the matcher tree while the   *)
(* request goroutines read it in matchSite, and no lock orders the two.    *)
(* Every map access of matchSite and AddSite is a step of its own, and a   *)
(* write is a begin and an end step: what a reader can observe between the *)
(* two is a choice of the reader's step.                                   *)
(***************************************************************************)
EXTENDS HostTrie

CONSTANTS
  Label,      \* the labels host names are made of, "*" included
  SiteSets,   \* the sets of hosts a configuration may attach to the listener
  Hosts,      \* the hostnames clients ask for
  Requests    \* request goroutines, each serving one request after the other

HostName == Seq(Label) \ {<<>>}

ASSUME LabelAssumption == Wildcard \in Label
ASSUME HostsAssumption == Hosts \subseteq HostName
ASSUME SitesAssumption == SiteSets \subseteq SUBSET HostName

VARIABLES
  sites,          \* the keys of httpSiteMapping for this listener
  todo,           \* the keys the attach loop has not ranged over yet
  pc,             \* where the main goroutine is in AddSite
  hostComponents, \* hostComponents of AddSite, <<>> outside of it
  depth,          \* AddSite's currentMatcher is SubSeq(hostComponents, 1, depth)
  trie,           \* l.backends
  alive,          \* FALSE once the runtime has stopped the process
  req             \* the request goroutines

mainVars == <<todo, pc, hostComponents, depth, trie>>
vars == <<sites, mainVars, alive, req>>

\* settled, attachedOwn and raced are history: whether all sites, and whether
\* the site with the very name that is asked for, were attached when the
\* request arrived, and whether a lookup of it has missed a key that was there.
IdleRequest ==
  [st |-> "idle", host |-> <<>>, i |-> 0, currentMatcher |-> <<>>,
   wasWildCard |-> FALSE, backend |-> NoBackend,
   settled |-> FALSE, attachedOwn |-> FALSE, raced |-> FALSE]

Init ==
  /\ sites \in SiteSets
  /\ todo = sites
  /\ pc = "range"
  /\ hostComponents = <<>>
  /\ depth = 0
  /\ trie = EmptyTrie
  /\ alive = TRUE
  /\ req = [r \in Requests |-> IdleRequest]

\* The sites whose AddSite has completed.
Attached == (sites \ todo) \ {Reverse(hostComponents)}

-----------------------------------------------------------------------------
(* The main goroutine: Server's attach loop and AddSite.                   *)

writer == SubSeq(hostComponents, 1, depth)   \* AddSite's currentMatcher
nextLabel == hostComponents[depth + 1]       \* its domain

\* Mutant: nothing keeps a host from being attached twice.
NextSiteAgain(host) ==
  /\ pc = "range" /\ host \in todo
  /\ hostComponents' = HostComponents(host)
  /\ depth' = 0
  /\ pc' = "walk"
  /\ UNCHANGED <<todo, trie>>

\* The map is ranged over in any order.
NextSite(host) ==
  /\ pc = "range" /\ host \in todo
  /\ todo' = todo \ {host}
  /\ hostComponents' = HostComponents(host)
  /\ depth' = 0
  /\ pc' = "walk"
  /\ UNCHANGED trie

\* Mutant: the walk finds the next matcher but does not go there.
DescendStays ==
  /\ pc = "walk" /\ depth < Len(hostComponents)
  /\ Found(trie, writer, nextLabel)
  /\ UNCHANGED mainVars

Descend ==
  /\ pc = "walk" /\ depth < Len(hostComponents)
  /\ Found(trie, writer, nextLabel)
  /\ depth' = depth + 1
  /\ UNCHANGED <<todo, pc, hostComponents, trie>>

BeginInsert ==
  /\ pc = "walk" /\ depth < Len(hostComponents)
  /\ ~Found(trie, writer, nextLabel)
  /\ pc' = "insert"
  /\ UNCHANGED <<todo, hostComponents, depth, trie>>

\* Mutant: a new matcher gets the backend at once, whatever its depth.
EndInsertSharesBackend ==
  /\ pc = "insert"
  /\ trie' = SetBackend(AddSubtree(trie, writer, nextLabel),
                       Append(writer, nextLabel), Reverse(hostComponents))
  /\ depth' = depth + 1
  /\ pc' = "walk"
  /\ UNCHANGED <<todo, hostComponents>>

EndInsert ==
  /\ pc = "insert"
  /\ trie' = AddSubtree(trie, writer, nextLabel)
  /\ depth' = depth + 1
  /\ pc' = "walk"
  /\ UNCHANGED <<todo, hostComponents>>

\* Mutant: the walk ends one component early.
BeginSetBackendEarly ==
  /\ pc = "walk" /\ depth + 1 = Len(hostComponents)
  /\ pc' = "set"
  /\ UNCHANGED <<todo, hostComponents, depth, trie>>

BeginSetBackend ==
  /\ pc = "walk" /\ depth = Len(hostComponents)
  /\ pc' = "set"
  /\ UNCHANGED <<todo, hostComponents, depth, trie>>

EndSetBackend ==
  /\ pc = "set"
  /\ trie' = SetBackend(trie, writer, Reverse(hostComponents))
  /\ pc' = "range"
  /\ hostComponents' = <<>>
  /\ depth' = 0
  /\ UNCHANGED todo

StartupComplete ==
  /\ pc = "range" /\ todo = {}
  /\ pc' = "ready"
  /\ UNCHANGED <<todo, hostComponents, depth, trie>>

Main ==
  /\ alive
  /\ \/ \E host \in todo : NextSite(host)
     \/ Descend
     \/ BeginInsert \/ EndInsert
     \/ BeginSetBackend \/ EndSetBackend
     \/ StartupComplete
  /\ UNCHANGED <<sites, alive, req>>

-----------------------------------------------------------------------------
(* A request goroutine: handler and matchSite.                             *)

\* The key of the lookup that comes next: the component, then the wildcard.
AtComponent(r) == req[r].st = "exact" /\ req[r].i < Len(req[r].host)
LooksUp(r) == AtComponent(r) \/ req[r].st = "wildcard"
Key(r) == IF req[r].st = "exact" THEN req[r].host[req[r].i + 1] ELSE Wildcard
HasKey(r) == Found(trie, req[r].currentMatcher, Key(r))

\* Mutant: the last component is left out.
AtReturnEarly(r) ==
  \/ req[r].st = "return"
  \/ req[r].st = "exact" /\ req[r].i + 1 = Len(req[r].host)

AtReturn(r) ==
  \/ req[r].st = "return"
  \/ req[r].st = "exact" /\ req[r].i = Len(req[r].host)

\* The lookup reads the map that AddSite is inserting into, unnoticed by the
\* runtime.  The insertion may grow the map and empty the buckets the reader
\* is looking at, so that any key can be missed.
RacesInsert(r) == pc = "insert" /\ LooksUp(r) /\ req[r].currentMatcher = writer
CanMiss(r) == ~HasKey(r) \/ RacesInsert(r)

\* Mutant: the host is walked in written order.
AcceptUnreversed(r, host) ==
  /\ req[r].st = "idle"
  /\ req' = [req EXCEPT ![r] =
       [IdleRequest EXCEPT !.st = "exact",
                           !.host = host,
                           !.settled = (Attached = sites),
                           !.attachedOwn = (host \in Attached)]]

Accept(r, host) ==
  /\ req[r].st = "idle"
  /\ req' = [req EXCEPT ![r] =
       [IdleRequest EXCEPT !.st = "exact",
                           !.host = HostComponents(host),
                           !.settled = (Attached = sites),
                           !.attachedOwn = (host \in Attached)]]

\* Mutant: the wildcard is looked up but the component is followed.
HitFollowsComponent(r) ==
  /\ LooksUp(r) /\ HasKey(r)
  /\ req' = [req EXCEPT ![r].st = "exact",
                        ![r].currentMatcher = Append(@, req[r].host[req[r].i + 1]),
                        ![r].wasWildCard = (req[r].st = "wildcard"),
                        ![r].i = @ + 1]

\* Mutant: an exact match does not reset wasWildCard.
HitKeepsWildCard(r) ==
  /\ LooksUp(r) /\ HasKey(r)
  /\ req' = [req EXCEPT ![r].st = "exact",
                        ![r].currentMatcher = Append(@, Key(r)),
                        ![r].wasWildCard = @ \/ (req[r].st = "wildcard"),
                        ![r].i = @ + 1]

\* Either lookup succeeds.
Hit(r) ==
  /\ LooksUp(r) /\ HasKey(r)
  /\ req' = [req EXCEPT ![r].st = "exact",
                        ![r].currentMatcher = Append(@, Key(r)),
                        ![r].wasWildCard = (req[r].st = "wildcard"),
                        ![r].i = @ + 1]

TryWildcard(r) ==
  /\ AtComponent(r) /\ CanMiss(r)
  /\ req' = [req EXCEPT ![r].st = "wildcard",
                        ![r].raced = @ \/ HasKey(r)]

\* Mutant: the component behind a wildcard is looked up again and again.
SkipComponentStays(r) ==
  /\ req[r].st = "wildcard" /\ CanMiss(r) /\ req[r].wasWildCard
  /\ req' = [req EXCEPT ![r].st = "exact"]

\* "No match, but was the last match a wildcard?"
SkipComponent(r) ==
  /\ req[r].st = "wildcard" /\ CanMiss(r) /\ req[r].wasWildCard
  /\ req' = [req EXCEPT ![r].st = "exact",
                        ![r].i = @ + 1,
                        ![r].raced = @ \/ HasKey(r)]

\* "No match at all. Stop."
Stop(r) ==
  /\ req[r].st = "wildcard" /\ CanMiss(r) /\ ~req[r].wasWildCard
  /\ req' = [req EXCEPT ![r].st = "return",
                        ![r].raced = @ \/ HasKey(r)]

\* return currentMatcher.backend, and the handler's test for nil
Return(r) ==
  /\ AtReturn(r)
  /\ LET backend == trie[req[r].currentMatcher]
     IN  req' = [req EXCEPT ![r].backend = backend,
                            ![r].st = IF backend = NoBackend THEN "badGateway"
                                                             ELSE "dispatched"]

\* The reader finds the key that is being inserted but not yet its value, and
\* dereferences a nil matcher; or it reads half of the interface value that is
\* being stored and calls a method of a nil backend.  net/http recovers the
\* panic and drops the connection.
Panic(r) ==
  /\ \/ RacesInsert(r) /\ Key(r) = nextLabel
     \/ pc = "set" /\ AtReturn(r) /\ req[r].currentMatcher = writer
  /\ req' = [req EXCEPT ![r].st = "aborted"]

\* The backend has served the request, or the error has been written.
Finish(r) ==
  /\ req[r].st \in {"dispatched", "badGateway", "aborted"}
  /\ req' = [req EXCEPT ![r] = IdleRequest]

Handle(r) ==
  /\ alive
  /\ Hit(r) \/ TryWildcard(r) \/ SkipComponent(r) \/ Stop(r) \/ Return(r) \/ Panic(r)
  /\ UNCHANGED <<sites, mainVars, alive>>

Client(r) ==
  /\ alive
  /\ (\E host \in Hosts : Accept(r, host)) \/ Finish(r)
  /\ UNCHANGED <<sites, mainVars, alive>>

\* The runtime notices the race and stops the process with "fatal error:
\* concurrent map read and map write", which cannot be recovered.
FatalError(r) ==
  /\ alive
  /\ RacesInsert(r)
  /\ alive' = FALSE
  /\ UNCHANGED <<sites, mainVars, req>>

\* A dead process takes no step; this is not a deadlock of the design.
Dead == ~alive /\ UNCHANGED vars

Next ==
  \/ Main
  \/ \E r \in Requests : Handle(r) \/ Client(r) \/ FatalError(r)
  \/ Dead

Spec == Init /\ [][Next]_vars

\* The Go scheduler runs every runnable goroutine.  Nothing makes clients
\* send requests, backends answer them, or the runtime detect a race.
FairSpec == Spec /\ WF_vars(Main) /\ \A r \in Requests : WF_vars(Handle(r))

-----------------------------------------------------------------------------
(* Properties.                                                             *)

RequestState ==
  [st : {"idle", "exact", "wildcard", "return",
         "dispatched", "badGateway", "aborted"},
   host : Seq(Label), i : Nat, currentMatcher : Seq(Label),
   wasWildCard : BOOLEAN, backend : Seq(Label),
   settled : BOOLEAN, attachedOwn : BOOLEAN, raced : BOOLEAN]

\* Every variable has its type; a request's cursor stays inside its host and
\* only points at matchers that exist.
TypeOK ==
  /\ sites \in SiteSets /\ todo \subseteq sites
  /\ pc \in {"range", "walk", "insert", "set", "ready"}
  /\ hostComponents \in Seq(Label) /\ depth \in 0..Len(hostComponents)
  /\ DOMAIN trie \subseteq Seq(Label) /\ trie \in [DOMAIN trie -> Seq(Label)]
  /\ alive \in BOOLEAN
  /\ req \in [Requests -> RequestState]
  /\ \A r \in Requests : /\ req[r].currentMatcher \in DOMAIN trie
                         /\ req[r].i <= Len(req[r].host)
                         /\ req[r].st = "wildcard" => req[r].i < Len(req[r].host)

\* Whatever order the sites are attached in and however far the attach loop
\* has come, the tree holds the matchers of the attached sites and of the part
\* of the current host already walked, and exactly the attached sites have a
\* backend, each its own.
TrieMatchesAttached ==
  /\ DOMAIN trie = NodesOf(Attached) \cup Prefixes(writer)
  /\ \A n \in DOMAIN trie :
       trie[n] = IF Reverse(n) \in Attached THEN Reverse(n) ELSE NoBackend

\* "This should never happen": AddSite never replaces a backend.
NoOverride == pc = "set" => trie[writer] = NoBackend

\* A request is only ever handed to a site that is attached and whose labels
\* stand, in order, for the components of the requested host that the walk
\* passed; attaching other sites at the same time cannot misroute it.
DispatchCovered ==
  \A r \in Requests : req[r].st = "dispatched" =>
    /\ req[r].backend \in Attached
    /\ \E k \in 0..Len(req[r].host) :
         Covers(HostComponents(req[r].backend), req[r].host, k)

\* A request for a host whose own site is attached when it arrives is handed
\* to that site, never refused, aborted or given to a wildcard, however many
\* sites are attached while it is being matched -- unless the runtime hides a
\* key of a map that is being written from it.
AttachedHostWins ==
  \A r \in Requests : req[r].attachedOwn /\ ~req[r].raced =>
    /\ req[r].st \notin {"badGateway", "aborted"}
    /\ req[r].st = "dispatched" => req[r].backend = Reverse(req[r].host)

\* Once all sites are attached, routing is a function of the configuration:
\* the outcome of a request does not depend on the order of attachment.
SettledRouting ==
  \A r \in Requests : req[r].settled =>
    /\ req[r].st # "aborted"
    /\ req[r].st \in {"dispatched", "badGateway"} =>
         req[r].backend = Route(sites, Reverse(req[r].host))

\* Every request is decided, unless the process dies.
RequestDecided ==
  \A r \in Requests :
    req[r].st = "exact" ~> req[r].st \in {"dispatched", "badGateway", "aborted"} \/ ~alive

\* All sites get attached, whatever clients do, unless the process dies.
StartupCompletes == <>(pc = "ready" \/ ~alive)

\* The listener is a table of sites that are attached one by one (SiteTable).
Table == INSTANCE SiteTable WITH
  attached <- Attached,
  asked <- [r \in Requests |->
    [st |-> IF req[r].st \in {"exact", "wildcard", "return"} THEN "pending"
                                                            ELSE req[r].st,
     host |-> Reverse(req[r].host),
     backend |-> req[r].backend,
     settled |-> req[r].settled]]

\* The tree, its walk and the race implement the table: in particular a site
\* appears in one step, however many matchers AddSite creates for it.
ImplementsSiteTable == Table!Spec
=============================================================================
