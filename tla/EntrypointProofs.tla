-------------------------- MODULE EntrypointProofs --------------------------
(***************************************************************************)
(* Theorems about Entrypoint, for all configurations, sets of addresses    *)
(* that cannot be bound and numbers of clients.                            *)
(***************************************************************************)
EXTENDS Entrypoint, TLAPS

-----------------------------------------------------------------------------
(* The inductive invariant: what each loop of Server has established about *)
(* the elements it has come to, and what remains true of it afterwards.    *)

CheckErrors == {"InvalidProxySpec", "DuplicateListeners", "UnknownListenerType",
                "ProxychainNotFound", "BackendInitFailed", "HostListenerClash"}
AttachResults == {"ListenerNotFound", "panic", "race", "nil"}
Results == CheckErrors \cup AttachResults \cup {"LoadFailed", "dumped"}

\* The main goroutine is at one of these loops, or has ended in or after the
\* last of them.
Reached(loops) == pc \in loops \/ result \in AttachResults

\* The chains that the first loop has come to can be built.
ChainInv ==
  /\ pc = "chains" =>
       /\ todo \subseteq DOMAIN cfg.proxychains
       /\ \A n \in DOMAIN cfg.proxychains \ todo : cfg.proxychains[n]
  /\ Reached({"names", "listen", "sites", "map", "attach", "ready"}) => ChainsOK

\* The listener n has a key of its own.
HasKey(n) == ListenKey(n) \in DOMAIN listenNames /\ listenNames[ListenKey(n)] = n

\* A key holds the name and the type of a listener with that key, and every
\* listener that the second loop has come to is held by its own.
NameInv ==
  /\ DOMAIN listenNames = DOMAIN listenPorts
  /\ \A key \in DOMAIN listenNames :
       /\ listenNames[key] \in DOMAIN cfg.listeners
       /\ ListenKey(listenNames[key]) = key
       /\ listenPorts[key] = cfg.listeners[listenNames[key]].type
  /\ pc = "chains" => DOMAIN listenNames = {}
  /\ pc = "names" =>
       /\ todo \subseteq DOMAIN cfg.listeners
       /\ \A n \in DOMAIN cfg.listeners \ todo : HasKey(n)
       /\ \A key \in DOMAIN listenNames : listenNames[key] \notin todo
  /\ Reached({"listen", "sites", "map", "attach", "ready"}) =>
       \A n \in DOMAIN cfg.listeners : HasKey(n)

\* The third loop has started, or failed to bind, the listener at this key.
Started(key) == listenPorts[key] = HTTPEdge /\ listenNames[key] \in DOMAIN listeners

\* A listener that is there holds its socket, and one that is not was refused it:
\* its address cannot be bound, or another listener was in its way.
ListenInv ==
  /\ listeners \in [DOMAIN listeners -> BOOLEAN]
  /\ DOMAIN listeners \subseteq {listenNames[key] : key \in DOMAIN listenNames}
  /\ DOMAIN socket \subseteq DOMAIN listenNames
  /\ pc \in {"chains", "names"} \/ result \in {"LoadFailed", "dumped"} =>
       DOMAIN socket = {} /\ DOMAIN listeners = {}
  /\ \A key \in DOMAIN listenNames : listenNames[key] \in DOMAIN listeners =>
       IF listeners[listenNames[key]] THEN key \in DOMAIN socket /\ MayBind(key)
       ELSE ~SureToBind(key)
  /\ pc = "listen" =>
       /\ todo \subseteq DOMAIN listenNames
       /\ \A key \in todo : key \notin DOMAIN socket
       /\ \A key \in DOMAIN listenNames \ todo : Started(key)
  /\ Reached({"sites", "map", "attach", "ready"}) =>
       \A key \in DOMAIN listenNames : Started(key)

\* The entries of the configuration that the loop over the sites has come to.
Seen == {e \in Entries : e[1] < site \/ (e[1] = site /\ e[2] < idx)}

BackendOK(i) ==
  cfg.sites[i].proxychain \in DOMAIN cfg.proxychains /\ cfg.sites[i].backendOK

\* The mapping holds exactly these, each under a key of its own.
SiteInv ==
  /\ site \in 1..(Len(cfg.sites) + 1) /\ idx \in Nat \ {0}
  /\ pc \in {"chains", "names", "listen"} => site = 1
  /\ pc \in {"chains", "names", "listen", "sites"} => idx = 1
  /\ pc = "map" =>
       /\ site <= Len(cfg.sites) /\ BackendOK(site)
       /\ idx <= Len(cfg.sites[site].listener) + 1
  /\ \A i \in DOMAIN cfg.sites : i < site => BackendOK(i)
  /\ DOMAIN httpSiteMapping = {EntryKey(e) : e \in Seen}
  /\ \A e \in Seen : httpSiteMapping[EntryKey(e)] = e[1]
  /\ \A d, e \in Seen : EntryKey(d) = EntryKey(e) => d = e
  /\ Reached({"attach", "ready"}) => site = Len(cfg.sites) + 1

\* A site is attached only to a listener that is there, and nothing is left out by
\* a loop that ends as it should.
AttachInv ==
  /\ attached \subseteq DOMAIN httpSiteMapping
  /\ \A key \in attached : key[2] \in DOMAIN listeners /\ listeners[key[2]]
  /\ attached # {} => Reached({"attach", "ready"})
  /\ pc = "attach" =>
       todo \subseteq DOMAIN httpSiteMapping /\ attached = DOMAIN httpSiteMapping \ todo
  /\ pc = "ready" \/ result = "nil" => attached = DOMAIN httpSiteMapping
  /\ result \in AttachResults \ {"nil"} => attached # DOMAIN httpSiteMapping

\* An error of the startup was caused by the configuration.
CauseInv ==
  /\ result \in CheckErrors => ~ChecksPass
  /\ result = "ListenerNotFound" => ~ListenersExist
  /\ result = "panic" => ~ListenersBind

StartupInv ==
  /\ cfg \in Configs /\ busy \in BusySets
  /\ ChainInv /\ NameInv /\ ListenInv /\ SiteInv /\ AttachInv /\ CauseInv

Loops == {"chains", "names", "listen", "sites", "map", "attach", "ready"}

\* Where Entrypoint and Server are, and what the process has ended with.
ProcessInv ==
  /\ pc \in Loops \cup {"returned", "exited"}
  /\ stage \in {"launch", "load", "server"}
  /\ pc \in Loops => result = "none"
  /\ pc = "returned" => stage = "server" /\ result \in Results
  /\ stage = "launch" =>
       pc \in {"chains", "exited"} /\ result = "none" /\ ~ctxDone /\ sigterm # "caught"
  /\ stage = "load" => pc = "chains"
  /\ stage = "server" /\ pc = "exited" => result \in Results /\ exitCode = ExitCode
  /\ exitCode = "none" <=> pc # "exited"

\* The context is cancelled only by the signal goroutine, and only then do the
\* listeners shut down and does Server return without an error.
SignalInv ==
  /\ ctxDone \in BOOLEAN /\ sigterm \in {"none", "pending", "caught"}
  /\ ctxDone => sigterm = "caught"
  /\ result = "nil" => ctxDone
  /\ \A key \in DOMAIN socket :
       socket[key] \in SocketState /\ (socket[key] \in {"closing", "closed"} => ctxDone)

Request ==
  [at : Keys \cup {<<>>}, early : BOOLEAN,
   is : {"none", "queued", "active", "cut", "reset", "dropped"}]

\* A request is at a socket, and is lost for a reason.
RequestInv ==
  /\ requests \in [Clients -> Request]
  /\ \A c \in Clients : requests[c].is # "none" => requests[c].at \in DOMAIN socket
  /\ CutHasCause

IInv == StartupInv /\ ProcessInv /\ SignalInv /\ RequestInv

-----------------------------------------------------------------------------
(* Configurations.                                                         *)

\* What the parts of a configuration are.
LEMMA ConfigShape ==
  ASSUME cfg \in Configs
  PROVE  /\ \A n \in DOMAIN cfg.proxychains : cfg.proxychains[n] \in BOOLEAN
         /\ DOMAIN cfg.listeners \subseteq Names
         /\ \A n \in DOMAIN cfg.listeners : cfg.listeners[n] \in Listener
         /\ Len(cfg.sites) \in Nat /\ DOMAIN cfg.sites = 1..Len(cfg.sites)
         /\ \A i \in DOMAIN cfg.sites :
              /\ cfg.sites[i] \in Site
              /\ Len(cfg.sites[i].listener) \in Nat
              /\ DOMAIN cfg.sites[i].listener = 1..Len(cfg.sites[i].listener)
              /\ \A j \in DOMAIN cfg.sites[i].listener : cfg.sites[i].listener[j] \in Names
<1>1. IsConfig(cfg)
  BY ConfigsAssumption
<1>2. \A i \in DOMAIN cfg.sites : cfg.sites[i] \in Site /\ cfg.sites[i].listener \in Seq(Names)
  <2>1. cfg.sites \in Seq(Site)
    BY <1>1 DEF IsConfig
  <2>2. \A i \in DOMAIN cfg.sites : cfg.sites[i] \in Site
    BY <2>1
  <2> QED BY <2>2 DEF Site
<1>3. \A l \in Seq(Names) : /\ Len(l) \in Nat /\ DOMAIN l = 1..Len(l)
                            /\ \A j \in DOMAIN l : l[j] \in Names
  OBVIOUS
<1> QED BY <1>1, <1>2, <1>3 DEF IsConfig

\* The key of a listener is the address and the port of a socket, or the zero
\* address.
LEMMA KeyType ==
  ASSUME cfg \in Configs, NEW n \in DOMAIN cfg.listeners
  PROVE  ListenKey(n) \in Keys
BY ConfigShape DEF ListenKey, Keys, Listener

\* An entry is a site and a position in its list of listeners.
LEMMA EntryShape ==
  ASSUME NEW e \in Entries
  PROVE  /\ e[1] \in DOMAIN cfg.sites /\ e[2] \in DOMAIN cfg.sites[e[1]].listener
         /\ e = <<e[1], e[2]>>
<1>1. PICK i \in DOMAIN cfg.sites : e \in {<<i, j>> : j \in DOMAIN cfg.sites[i].listener}
  BY DEF Entries
<1>2. PICK j \in DOMAIN cfg.sites[i].listener : e = <<i, j>>
  BY <1>1
<1> QED BY <1>2

\* And whatever has this shape is an entry.
LEMMA EntryOf ==
  ASSUME NEW i \in DOMAIN cfg.sites, NEW j \in DOMAIN cfg.sites[i].listener
  PROVE  <<i, j>> \in Entries
<1> DEFINE row(k) == {<<k, l>> : l \in DOMAIN cfg.sites[k].listener}
           rows == {row(k) : k \in DOMAIN cfg.sites}
<1>1. <<i, j>> \in row(i) /\ row(i) \in rows
  OBVIOUS
<1>2. Entries = UNION rows
  BY DEF Entries
<1> HIDE DEF row, rows
<1> QED BY <1>1, <1>2

-----------------------------------------------------------------------------
(* The entries that the loop over the sites has come to.                   *)

LEMMA SeenAtStart ==
  ASSUME cfg \in Configs, site = 1, idx = 1
  PROVE  Seen = {}
BY EntryShape, ConfigShape DEF Seen

LEMMA SeenAtEnd ==
  ASSUME cfg \in Configs, site = Len(cfg.sites) + 1
  PROVE  Seen = Entries
BY EntryShape, ConfigShape DEF Seen

LEMMA SeenOneMore ==
  ASSUME cfg \in Configs, UNCHANGED <<cfg, site>>, site \in DOMAIN cfg.sites,
         idx \in DOMAIN cfg.sites[site].listener, idx' = idx + 1
  PROVE  /\ <<site, idx>> \in Entries \ Seen
         /\ Seen' = Seen \cup {<<site, idx>>}
<1>1. <<site, idx>> \in Entries
  BY EntryOf
<1>2. Entries' = Entries
  BY DEF Entries
<1>3. site \in Nat /\ idx \in Nat
  BY ConfigShape
<1>4. <<site, idx>> \notin Seen
  BY <1>3 DEF Seen
<1>5. ASSUME NEW e \in Entries
      PROVE  e \in Seen' <=> e \in Seen \cup {<<site, idx>>}
  <2>1. e[1] \in Nat /\ e[2] \in Nat /\ e = <<e[1], e[2]>>
    BY EntryShape, ConfigShape
  <2> QED BY <1>2, <1>3, <2>1 DEF Seen
<1> QED BY <1>1, <1>2, <1>4, <1>5 DEF Seen

LEMMA SeenNextSite ==
  ASSUME cfg \in Configs, UNCHANGED cfg, site \in DOMAIN cfg.sites,
         idx = Len(cfg.sites[site].listener) + 1,
         site' = site + 1, idx' = 1
  PROVE  Seen' = Seen
<1>1. Entries' = Entries
  BY DEF Entries
<1>2. site \in Nat /\ idx \in Nat
  BY ConfigShape
<1>3. ASSUME NEW e \in Entries
      PROVE  e \in Seen' <=> e \in Seen
  <2>1. /\ e[1] \in Nat /\ e[2] \in Nat \ {0}
        /\ e[1] = site => e[2] <= Len(cfg.sites[site].listener)
    BY EntryShape, ConfigShape
  <2> QED BY <1>1, <1>2, <2>1, ConfigShape DEF Seen
<1> QED BY <1>1, <1>3 DEF Seen

-----------------------------------------------------------------------------
(* The steps of the main goroutine.                                        *)

LEMMA InitStartupInv == Init => StartupInv
<1> SUFFICES ASSUME Init PROVE StartupInv
  OBVIOUS
<1> USE DEF Init, ServerInit, Nothing
<1>1. Seen = {}
  BY SeenAtStart
<1>2. ChainInv
  BY DEF ChainInv, Reached, AttachResults
<1>3. NameInv
  BY DEF NameInv, Reached, AttachResults
<1>4. ListenInv
  BY DEF ListenInv, Reached, AttachResults
<1>5. SiteInv
  BY <1>1, ConfigShape DEF SiteInv, Reached, AttachResults
<1>6. AttachInv
  BY DEF AttachInv, Reached, AttachResults
<1>7. CauseInv
  BY DEF CauseInv, CheckErrors
<1> QED BY <1>2, <1>3, <1>4, <1>5, <1>6, <1>7 DEF StartupInv

\* What the configuration means does not depend on how far the startup is.
LEMMA ConfigFrame ==
  ASSUME UNCHANGED environment
  PROVE  /\ ChecksPass' = ChecksPass /\ ListenersExist' = ListenersExist
         /\ ListenersBind' = ListenersBind
         /\ \A at : BadIndexAt(at)' = BadIndexAt(at)
BY DEF environment, BadIndexAt, ChecksPass, ChainsOK, KeysDistinct, TypesKnown, BackendsOK, NoClash,
       ListenersExist, ListenersBind, EntryListens, SureToBind, MayBind, Overlap, ListenKey,
       Entries, ListenerOf, EntryKey

\* What the other goroutines do to the sockets that are there is not the
\* startup's business.
LEMMA StartupFrame ==
  ASSUME StartupInv, UNCHANGED <<environment, mainVars>>, DOMAIN socket' = DOMAIN socket
  PROVE  StartupInv'
<1> USE DEF StartupInv, environment, mainVars, position, ports, mapping, Reached
<1>1. ChainInv'
  BY DEF ChainInv, ChainsOK
<1>2. NameInv'
  BY DEF NameInv, HasKey, ListenKey
<1>3. ListenInv'
  BY DEF ListenInv, Started, MayBind, SureToBind, Overlap, ListenKey
<1>4. SiteInv'
  <2>1. Seen' = Seen
    BY DEF Seen, Entries
  <2> QED BY <2>1 DEF SiteInv, BackendOK, EntryKey, ListenerOf
<1>5. AttachInv'
  BY DEF AttachInv
<1>6. CauseInv'
  BY ConfigFrame DEF CauseInv
<1> QED BY <1>1, <1>2, <1>3, <1>4, <1>5, <1>6

\* A return, an exit or a panic keeps what the loops have established, and has to
\* be accounted for itself.
LEMMA LeaveLoops ==
  ASSUME StartupInv,
         pc' \in {"returned", "exited"},
         UNCHANGED <<environment, todo, site, idx, ports, listeners, mapping, socket>>,
         result' \in AttachResults <=> Reached({"attach", "ready"}),
         result' = "nil" <=> pc = "ready" \/ result = "nil",
         result' \in AttachResults \ {"nil"} => attached # DOMAIN httpSiteMapping,
         result' \in {"LoadFailed", "dumped"} =>
           pc = "chains" \/ result \in {"LoadFailed", "dumped"},
         CauseInv'
  PROVE  StartupInv'
<1> USE DEF StartupInv, environment, ports, mapping, Reached
<1>1. ChainInv'
  BY DEF ChainInv, ChainsOK
<1>2. NameInv'
  BY DEF NameInv, HasKey, ListenKey
<1>3. ListenInv'
  BY DEF ListenInv, Started, MayBind, SureToBind, Overlap, ListenKey
<1>4. SiteInv'
  <2>1. Seen' = Seen
    BY DEF Seen, Entries
  <2> QED BY <2>1 DEF SiteInv, BackendOK, EntryKey, ListenerOf
<1>5. AttachInv'
  BY DEF AttachInv, AttachResults
<1> QED BY <1>1, <1>2, <1>3, <1>4, <1>5

\* The same for Fail.
LEMMA FailStep ==
  ASSUME StartupInv, pc \in Loops, result = "none", UNCHANGED environment,
         NEW error \in Results, Fail(error),
         error \in AttachResults <=> pc \in {"attach", "ready"},
         error = "nil" <=> pc = "ready",
         error \in AttachResults \ {"nil"} => attached # DOMAIN httpSiteMapping,
         error \in {"LoadFailed", "dumped"} => pc = "chains",
         error \in CheckErrors => ~ChecksPass,
         error = "ListenerNotFound" => ~ListenersExist,
         error = "panic" => ~ListenersBind
  PROVE  StartupInv'
<1>1. CauseInv'
  BY ConfigFrame DEF CauseInv, Fail
<1>2. /\ pc' = "returned" /\ result' = error
      /\ UNCHANGED <<todo, site, idx, ports, listeners, mapping, socket>>
  BY DEF Fail
<1>3. Reached({"attach", "ready"}) <=> pc \in {"attach", "ready"}
  BY DEF Reached, AttachResults
<1>4. result' = "nil" <=> pc = "ready" \/ result = "nil"
  BY <1>2
<1> QED BY <1>1, <1>2, <1>3, <1>4, LeaveLoops

LEMMA BuildChainStep ==
  ASSUME StartupInv, result = "none", UNCHANGED environment,
         NEW name \in todo, BuildChain(name)
  PROVE  StartupInv'
<1> USE DEF StartupInv, environment, BuildChain
<1>1. CASE cfg.proxychains[name]
  <2> USE <1>1 DEF Continue, ports, mapping, Fail
  <2>0. UNCHANGED <<pc, site, idx, ports, listeners, mapping, socket, result>> /\ pc = "chains"
    OBVIOUS
  <2>1. ChainInv'
    BY DEF ChainInv, Reached, AttachResults
  <2>2. NameInv' /\ ListenInv'
    BY <2>0 DEF NameInv, HasKey, ListenKey, ListenInv, MayBind, SureToBind, Overlap, Reached, AttachResults
  <2>3. SiteInv'
    <3>1. Seen' = Seen
      BY DEF Seen, Entries
    <3> QED BY <2>0, <3>1 DEF SiteInv, BackendOK, EntryKey, ListenerOf, Reached, AttachResults
  <2>4. AttachInv' /\ CauseInv'
    BY <2>0, ConfigFrame DEF AttachInv, CauseInv, CheckErrors, Reached, AttachResults
  <2> QED BY <2>1, <2>2, <2>3, <2>4
<1>2. CASE ~cfg.proxychains[name]
  <2>1. ~ChecksPass
    BY <1>2 DEF ChainInv, ChecksPass, ChainsOK
  <2> QED BY <1>2, <2>1, FailStep DEF Results, CheckErrors, AttachResults, Loops
<1> QED BY <1>1, <1>2

LEMMA AddListenPortStep ==
  ASSUME StartupInv, result = "none", UNCHANGED environment,
         NEW name \in todo, AddListenPort(name)
  PROVE  StartupInv'
<1> USE DEF StartupInv, environment, AddListenPort
<1> DEFINE key == ListenKey(name)
<1>0. pc = "names" /\ name \in DOMAIN cfg.listeners
  BY DEF NameInv
<1>1. CASE key \notin DOMAIN listenPorts
  <2>0. /\ UNCHANGED <<pc, site, idx, listeners, mapping, socket, result>>
        /\ todo' = todo \ {name}
        /\ listenPorts' = Put(listenPorts, key, cfg.listeners[name].type)
        /\ listenNames' = Put(listenNames, key, name)
    BY <1>1 DEF Continue, Fail
  <2>1. ChainInv'
    BY <1>0, <2>0 DEF ChainInv, Reached, AttachResults, ChainsOK
  <2>2. NameInv'
    <3>1. \A n : ListenKey(n)' = ListenKey(n)
      BY DEF ListenKey
    <3>2. /\ DOMAIN listenNames' = DOMAIN listenNames \cup {key}
          /\ DOMAIN listenPorts' = DOMAIN listenPorts \cup {key}
          /\ listenNames'[key] = name /\ listenPorts'[key] = cfg.listeners[name].type
          /\ \A k \in DOMAIN listenNames :
               /\ k # key
               /\ listenNames'[k] = listenNames[k] /\ listenPorts'[k] = listenPorts[k]
      BY <1>1, <2>0 DEF Put, NameInv
    <3> HIDE DEF key
    <3>3. \A k \in DOMAIN listenNames' :
            /\ listenNames'[k] \in DOMAIN cfg.listeners
            /\ ListenKey(listenNames'[k]) = k
            /\ listenPorts'[k] = cfg.listeners[listenNames'[k]].type
            /\ listenNames'[k] \notin todo'
      BY <1>0, <2>0, <3>2 DEF NameInv, key
    <3>4. \A n \in DOMAIN cfg.listeners \ todo' :
            ListenKey(n) \in DOMAIN listenNames' /\ listenNames'[ListenKey(n)] = n
      BY <1>0, <2>0, <3>2 DEF NameInv, HasKey, key
    <3> QED BY <1>0, <2>0, <3>1, <3>2, <3>3, <3>4 DEF NameInv, HasKey, Reached, AttachResults
  <2>3. ListenInv'
    BY <1>0, <2>0 DEF ListenInv, Reached, AttachResults
  <2>4. SiteInv'
    <3>1. Seen' = Seen
      BY <2>0 DEF Seen, Entries
    <3> QED BY <1>0, <2>0, <3>1 DEF SiteInv, BackendOK, EntryKey, ListenerOf, Reached, AttachResults, mapping
  <2>5. AttachInv' /\ CauseInv'
    BY <1>0, <2>0, ConfigFrame DEF AttachInv, CauseInv, CheckErrors, Reached, AttachResults, mapping
  <2> QED BY <2>1, <2>2, <2>3, <2>4, <2>5
<1>2. CASE key \in DOMAIN listenPorts
  <2>1. ~KeysDistinct
    BY <1>0, <1>2 DEF NameInv, KeysDistinct
  <2> QED BY <1>0, <1>2, <2>1, FailStep DEF Results, CheckErrors, AttachResults, Loops, ChecksPass
<1> QED BY <1>1, <1>2

LEMMA StartListenerStep ==
  ASSUME StartupInv, result = "none", UNCHANGED environment,
         NEW key \in todo, StartListener(key)
  PROVE  StartupInv'
<1> USE DEF StartupInv, environment, StartListener
<1> DEFINE name == listenNames[key]
<1>0. /\ pc = "listen" /\ key \in DOMAIN listenNames /\ key \notin DOMAIN socket
      /\ name \in DOMAIN cfg.listeners /\ ListenKey(name) = key
      /\ listenPorts[key] = cfg.listeners[name].type
  BY DEF ListenInv, NameInv
<1>1. CASE listenPorts[key] = HTTPEdge
  <2>0. /\ UNCHANGED <<pc, site, idx, listenPorts, listenNames, mapping, result>>
        /\ todo' = todo \ {key}
        /\ listeners' = Put(listeners, name, CanBind(key))
        /\ socket' = IF CanBind(key) THEN Put(socket, key, "bound") ELSE socket
    BY <1>1 DEF Continue, ports, Fail
  <2>1. ChainInv' /\ NameInv'
    BY <1>0, <2>0 DEF ChainInv, ChainsOK, NameInv, HasKey, ListenKey, Reached, AttachResults
  <2>2. ListenInv'
    <3>1. CanBind(key) \in BOOLEAN /\ (CanBind(key) => MayBind(key))
      BY DEF CanBind
    <3>2. ~CanBind(key) => ~SureToBind(key)
      <4> SUFFICES ASSUME ~CanBind(key), MayBind(key) PROVE ~SureToBind(key)
        BY DEF SureToBind
      <4>1. PICK other \in Held : Overlap(key, other)
        BY DEF CanBind
      <4>2. other \in DOMAIN listenNames /\ other # key
        BY <1>0 DEF Held, ListenInv
      <4>3. listenNames[other] \in DOMAIN cfg.listeners /\ ListenKey(listenNames[other]) = other
        BY <4>2 DEF NameInv
      <4> QED BY <4>1, <4>2, <4>3 DEF SureToBind
    <3>3. /\ DOMAIN listeners' = DOMAIN listeners \cup {name}
          /\ listeners'[name] = CanBind(key)
          /\ \A n \in DOMAIN listeners : n # name => listeners'[n] = listeners[n]
          /\ listeners' \in [DOMAIN listeners' -> BOOLEAN]
      BY <2>0, <3>1 DEF Put, ListenInv
    <3>4. DOMAIN socket' = IF CanBind(key) THEN DOMAIN socket \cup {key} ELSE DOMAIN socket
      BY <2>0 DEF Put
    <3>5. \A k \in DOMAIN listenNames : k # key => listenNames[k] # name
      BY <1>0 DEF NameInv
    <3>6. \A k : MayBind(k)' = MayBind(k) /\ SureToBind(k)' = SureToBind(k)
      BY <2>0 DEF MayBind, SureToBind, Overlap, ListenKey
    <3> HIDE DEF name
    <3>7. ASSUME NEW k \in DOMAIN listenNames', listenNames'[k] \in DOMAIN listeners'
          PROVE  IF listeners'[listenNames'[k]] THEN k \in DOMAIN socket' /\ MayBind(k)
                 ELSE ~SureToBind(k)
      <4>1. CASE k = key
        BY <1>0, <2>0, <3>1, <3>2, <3>3, <3>4, <4>1 DEF name
      <4>2. CASE k # key
        BY <1>0, <2>0, <3>3, <3>4, <3>5, <3>7, <4>2 DEF ListenInv
      <4> QED BY <4>1, <4>2
    <3>8. DOMAIN listeners' \subseteq {listenNames'[k] : k \in DOMAIN listenNames'}
      BY <1>0, <2>0, <3>3 DEF ListenInv, name
    <3>9. /\ DOMAIN socket' \subseteq DOMAIN listenNames'
          /\ todo' \subseteq DOMAIN listenNames'
          /\ \A k \in todo' : k \notin DOMAIN socket'
      BY <1>0, <2>0, <3>4 DEF ListenInv
    <3>10. \A k \in DOMAIN listenNames' \ todo' : Started(k)'
      BY <1>0, <1>1, <2>0, <3>3 DEF ListenInv, Started, name
    <3> QED BY <1>0, <2>0, <3>3, <3>6, <3>7, <3>8, <3>9, <3>10 DEF ListenInv, Reached, AttachResults
  <2>3. SiteInv'
    <3>1. Seen' = Seen
      BY <2>0 DEF Seen, Entries
    <3> QED BY <1>0, <2>0, <3>1 DEF SiteInv, BackendOK, EntryKey, ListenerOf, Reached, AttachResults, mapping
  <2>4. AttachInv' /\ CauseInv'
    BY <1>0, <2>0, ConfigFrame DEF AttachInv, CauseInv, CheckErrors, Reached, AttachResults, mapping
  <2> QED BY <2>1, <2>2, <2>3, <2>4
<1>2. CASE listenPorts[key] # HTTPEdge
  <2>1. ~ChecksPass
    BY <1>0, <1>2 DEF ChecksPass, TypesKnown
  <2> QED BY <1>0, <1>2, <2>1, FailStep DEF Results, CheckErrors, AttachResults, Loops
<1> QED BY <1>1, <1>2

LEMMA InitBackendStep ==
  ASSUME StartupInv, result = "none", UNCHANGED environment, InitBackend
  PROVE  StartupInv'
<1> USE DEF StartupInv, environment, InitBackend
<1>0. pc = "sites" /\ site \in DOMAIN cfg.sites
  BY ConfigShape DEF SiteInv
<1>1. CASE BackendOK(site) /\ pc' = "map"
  <2>0. UNCHANGED <<todo, site, idx, listenPorts, listenNames, listeners, mapping, result, socket>>
    BY <1>1 DEF BackendOK, ports, Fail
  <2>1. ChainInv' /\ NameInv'
    BY <1>0, <1>1, <2>0 DEF ChainInv, ChainsOK, NameInv, HasKey, ListenKey, Reached, AttachResults
  <2>2. ListenInv'
    BY <1>0, <1>1, <2>0
       DEF ListenInv, Started, MayBind, SureToBind, Overlap, ListenKey, Reached, AttachResults
  <2>3. SiteInv'
    <3>1. Seen' = Seen
      BY <2>0 DEF Seen, Entries
    <3>2. site <= Len(cfg.sites) /\ idx = 1 /\ Len(cfg.sites[site].listener) \in Nat
      BY <1>0, ConfigShape DEF SiteInv
    <3>3. \A i : BackendOK(i)' = BackendOK(i)
      BY DEF BackendOK
    <3>4. pc' = "map" =>
            /\ site' <= Len(cfg'.sites) /\ BackendOK(site')
            /\ idx' <= Len(cfg'.sites[site'].listener) + 1
      BY <1>1, <2>0, <3>2
    <3>5. /\ DOMAIN httpSiteMapping' = {EntryKey(e)' : e \in Seen'}
          /\ \A e \in Seen' : httpSiteMapping'[EntryKey(e)'] = e[1]
          /\ \A d, e \in Seen' : EntryKey(d)' = EntryKey(e)' => d = e
      BY <2>0, <3>1 DEF SiteInv, EntryKey, ListenerOf, mapping
    <3> QED BY <1>1, <2>0, <3>3, <3>4, <3>5 DEF SiteInv, Reached, AttachResults
  <2>4. AttachInv' /\ CauseInv'
    BY <1>0, <1>1, <2>0, ConfigFrame DEF AttachInv, CauseInv, CheckErrors, Reached, AttachResults, mapping
  <2> QED BY <2>1, <2>2, <2>3, <2>4
<1>2. ASSUME NEW error \in {"ProxychainNotFound", "BackendInitFailed"},
             Fail(error), ~BackendOK(site)
      PROVE  StartupInv'
  <2>1. ~ChecksPass
    BY <1>0, <1>2 DEF ChecksPass, BackendsOK, BackendOK
  <2> QED BY <1>0, <1>2, <2>1, FailStep DEF Results, CheckErrors, AttachResults, Loops
<1> QED BY <1>1, <1>2 DEF BackendOK

LEMMA MapListenerStep ==
  ASSUME StartupInv, result = "none", UNCHANGED environment, MapListener
  PROVE  StartupInv'
<1> USE DEF StartupInv, environment, MapListener
<1> DEFINE here == <<site, idx>>
<1>0. /\ pc = "map" /\ site \in DOMAIN cfg.sites /\ idx \in DOMAIN cfg.sites[site].listener
      /\ siteKey = EntryKey(here) /\ here \in Entries
  <2>1. pc = "map" /\ site \in DOMAIN cfg.sites /\ idx \in Nat \ {0}
    BY ConfigShape DEF SiteInv
  <2>2. idx \in DOMAIN cfg.sites[site].listener
    BY <2>1, ConfigShape
  <2> QED BY <2>1, <2>2, EntryOf DEF siteKey, EntryKey, ListenerOf
<1>1. CASE siteKey \notin DOMAIN httpSiteMapping
  <2>0. /\ UNCHANGED <<pc, todo, site, listenPorts, listenNames, listeners, attached, result, socket>>
        /\ idx' = idx + 1
        /\ httpSiteMapping' = Put(httpSiteMapping, siteKey, site)
    BY <1>1 DEF ports, Fail
  <2>1. ChainInv' /\ NameInv'
    BY <1>0, <2>0 DEF ChainInv, ChainsOK, NameInv, HasKey, ListenKey, Reached, AttachResults
  <2>2. ListenInv'
    BY <1>0, <2>0
       DEF ListenInv, Started, MayBind, SureToBind, Overlap, ListenKey, Reached, AttachResults
  <2>3. SiteInv'
    <3>1. Seen' = Seen \cup {here} /\ here \notin Seen
      BY <1>0, <2>0, SeenOneMore
    <3>2. /\ DOMAIN httpSiteMapping' = DOMAIN httpSiteMapping \cup {EntryKey(here)}
          /\ httpSiteMapping'[EntryKey(here)] = here[1]
          /\ \A k \in DOMAIN httpSiteMapping :
               k # EntryKey(here) /\ httpSiteMapping'[k] = httpSiteMapping[k]
      BY <1>0, <1>1, <2>0 DEF Put
    <3>3. \A e : EntryKey(e)' = EntryKey(e)
      BY DEF EntryKey, ListenerOf
    <3> HIDE DEF here
    <3>4. \A e \in Seen : EntryKey(e) \in DOMAIN httpSiteMapping
      BY DEF SiteInv
    <3>5. DOMAIN httpSiteMapping' = {EntryKey(e) : e \in Seen'}
      BY <3>1, <3>2 DEF SiteInv
    <3>6. \A e \in Seen' : httpSiteMapping'[EntryKey(e)] = e[1]
      BY <3>1, <3>2, <3>4 DEF SiteInv
    <3>7. \A d, e \in Seen' : EntryKey(d) = EntryKey(e) => d = e
      BY <3>1, <3>2, <3>4 DEF SiteInv
    <3>8. idx \in Nat /\ idx <= Len(cfg.sites[site].listener) /\ Len(cfg.sites[site].listener) \in Nat
      BY <1>0, ConfigShape
    <3>9. /\ DOMAIN httpSiteMapping' = {EntryKey(e)' : e \in Seen'}
          /\ \A e \in Seen' : httpSiteMapping'[EntryKey(e)'] = e[1]
          /\ \A d, e \in Seen' : EntryKey(d)' = EntryKey(e)' => d = e
      BY <3>3, <3>5, <3>6, <3>7, Zenon
    <3> QED BY <1>0, <2>0, <3>8, <3>9 DEF SiteInv, BackendOK, Reached, AttachResults
  <2>4. AttachInv' /\ CauseInv'
    BY <1>0, <2>0, ConfigFrame DEF AttachInv, CauseInv, CheckErrors, Reached, AttachResults
  <2> QED BY <2>1, <2>2, <2>3, <2>4
<1>2. CASE siteKey \in DOMAIN httpSiteMapping
  <2>1. PICK e \in Seen : EntryKey(e) = EntryKey(here)
    BY <1>0, <1>2 DEF SiteInv
  <2>2. e # here /\ e \in Entries
    <3>1. site \in Nat /\ idx \in Nat
      BY DEF SiteInv
    <3> QED BY <2>1, <3>1 DEF Seen
  <2>3. ~ChecksPass
    BY <1>0, <2>1, <2>2 DEF ChecksPass, NoClash
  <2> QED BY <1>0, <1>2, <2>3, FailStep DEF Results, CheckErrors, AttachResults, Loops
<1> QED BY <1>1, <1>2

LEMMA NextSiteStep ==
  ASSUME StartupInv, result = "none", UNCHANGED environment, NextSite
  PROVE  StartupInv'
<1> USE DEF StartupInv, environment, NextSite
<1>0. /\ pc = "map" /\ pc' = "sites" /\ site' = site + 1 /\ idx' = 1
      /\ UNCHANGED <<todo, listenPorts, listenNames, listeners, httpSiteMapping, attached, result, socket>>
  BY DEF ports, mapping
<1>1. site \in DOMAIN cfg.sites /\ idx = Len(cfg.sites[site].listener) + 1
  <2>1. site \in DOMAIN cfg.sites /\ idx \in Nat /\ idx <= Len(cfg.sites[site].listener) + 1
    BY ConfigShape DEF SiteInv
  <2> QED BY <2>1, ConfigShape
<1>2. ChainInv' /\ NameInv'
  BY <1>0 DEF ChainInv, ChainsOK, NameInv, HasKey, ListenKey, Reached, AttachResults
<1>3. ListenInv'
  BY <1>0
     DEF ListenInv, Started, MayBind, SureToBind, Overlap, ListenKey, Reached, AttachResults
<1>4. SiteInv'
  <2>1. Seen' = Seen
    BY <1>0, <1>1, SeenNextSite
  <2>2. site' \in 1..(Len(cfg.sites) + 1) /\ site \in Nat
    BY <1>0, <1>1, ConfigShape
  <2>3. \A i \in DOMAIN cfg.sites : i < site' => BackendOK(i)
    <3> TAKE i \in DOMAIN cfg.sites
    <3>1. i \in Nat
      BY ConfigShape
    <3> QED BY <1>0, <2>2, <3>1 DEF SiteInv
  <2>4. \A i : BackendOK(i)' = BackendOK(i)
    BY DEF BackendOK
  <2>5. /\ DOMAIN httpSiteMapping' = {EntryKey(e)' : e \in Seen'}
        /\ \A e \in Seen' : httpSiteMapping'[EntryKey(e)'] = e[1]
        /\ \A d, e \in Seen' : EntryKey(d)' = EntryKey(e)' => d = e
    BY <1>0, <2>1 DEF SiteInv, EntryKey, ListenerOf
  <2>6. \A i \in DOMAIN cfg'.sites : i < site' => BackendOK(i)'
    BY <2>3, <2>4
  <2>7. ~Reached({"attach", "ready"})' /\ site' \in 1..(Len(cfg'.sites) + 1)
    BY <1>0, <2>2 DEF Reached, AttachResults
  <2> QED BY <1>0, <2>5, <2>6, <2>7 DEF SiteInv
<1>5. AttachInv' /\ CauseInv'
  BY <1>0, ConfigFrame DEF AttachInv, CauseInv, CheckErrors, Reached, AttachResults
<1> QED BY <1>2, <1>3, <1>4, <1>5

\* The listeners that are there, or failed to bind, are those of the configuration.
LEMMA ListenersKnown ==
  ASSUME StartupInv, Reached({"sites", "map", "attach", "ready"})
  PROVE  DOMAIN listeners = DOMAIN cfg.listeners
<1> USE DEF StartupInv
<1>1. \A n \in DOMAIN cfg.listeners : n \in DOMAIN listeners
  BY DEF Reached, NameInv, ListenInv, Started, HasKey
<1>2. \A n \in DOMAIN listeners : n \in DOMAIN cfg.listeners
  BY DEF ListenInv, NameInv
<1> QED BY <1>1, <1>2

\* What they have come to is decided by their address.
LEMMA ListenersDecided ==
  ASSUME StartupInv, Reached({"sites", "map", "attach", "ready"}),
         NEW n \in DOMAIN cfg.listeners
  PROVE  /\ HasKey(n)
         /\ IF listeners[n] THEN ListenKey(n) \in DOMAIN socket /\ MayBind(ListenKey(n))
            ELSE ~SureToBind(ListenKey(n))
<1> USE DEF StartupInv
<1>1. HasKey(n)
  BY DEF Reached, NameInv
<1>2. n \in DOMAIN listeners
  BY ListenersKnown
<1> QED BY <1>1, <1>2 DEF ListenInv, HasKey

\* In the attach loop and after it, everything that could be wrong with the
\* configuration, but for names of listeners, has been checked.
LEMMA ChecksDone ==
  ASSUME StartupInv, Reached({"attach", "ready"})
  PROVE  ChecksPass
<1> USE DEF StartupInv, Reached
<1>1. ChainsOK
  BY DEF ChainInv
<1>2. KeysDistinct
  BY DEF NameInv, HasKey, KeysDistinct
<1>3. TypesKnown
  BY DEF NameInv, HasKey, ListenInv, Started, TypesKnown
<1>4. site = Len(cfg.sites) + 1 /\ DOMAIN cfg.sites = 1..Len(cfg.sites) /\ Len(cfg.sites) \in Nat
  BY ConfigShape DEF SiteInv
<1>5. BackendsOK
  BY <1>4 DEF SiteInv, BackendOK, BackendsOK
<1>6. NoClash
  BY <1>4, SeenAtEnd DEF SiteInv, NoClash
<1> QED BY <1>1, <1>2, <1>3, <1>5, <1>6 DEF ChecksPass

LEMMA AttachSiteStep ==
  ASSUME StartupInv, result = "none", UNCHANGED environment,
         NEW key \in todo, AttachSite(key)
  PROVE  StartupInv'
<1> USE DEF StartupInv, environment, AttachSite
<1>0. pc = "attach" /\ key \in DOMAIN httpSiteMapping
  BY DEF AttachInv
<1>1. PICK e \in Entries : key = EntryKey(e)
  BY <1>0 DEF SiteInv, Seen
<1> attached # DOMAIN httpSiteMapping
  BY <1>0 DEF AttachInv
<1>2. key[2] = ListenerOf(e)
  BY <1>1 DEF EntryKey
<1>3. DOMAIN listeners = DOMAIN cfg.listeners
  BY <1>0, ListenersKnown DEF Reached
<1>4. CASE /\ key[2] \in DOMAIN listeners /\ listeners[key[2]]
           /\ Continue(key)
           /\ attached' = attached \cup {key}
           /\ UNCHANGED <<ports, listeners, httpSiteMapping, socket>>
  <2>0. /\ todo' = todo \ {key} /\ attached' = attached \cup {key}
        /\ UNCHANGED <<pc, site, idx, listenPorts, listenNames, listeners, httpSiteMapping, result, socket>>
    BY <1>4 DEF Continue, ports
  <2>1. ChainInv' /\ NameInv'
    BY <1>0, <2>0 DEF ChainInv, ChainsOK, NameInv, HasKey, ListenKey, Reached, AttachResults
  <2>2. ListenInv'
    BY <1>0, <2>0
       DEF ListenInv, Started, MayBind, SureToBind, Overlap, ListenKey, Reached, AttachResults
  <2>3. SiteInv'
    <3>1. Seen' = Seen
      BY <2>0 DEF Seen, Entries
    <3> QED BY <1>0, <2>0, <3>1 DEF SiteInv, BackendOK, EntryKey, ListenerOf, Reached, AttachResults
  <2>4. AttachInv' /\ CauseInv'
    BY <1>0, <1>4, <2>0, ConfigFrame DEF AttachInv, CauseInv, CheckErrors, Reached, AttachResults
  <2> QED BY <2>1, <2>2, <2>3, <2>4
<1>5. CASE key[2] \notin DOMAIN listeners /\ Fail("ListenerNotFound")
  <2>1. ~ListenersExist
    BY <1>2, <1>3, <1>5 DEF ListenersExist
  <2> QED BY <1>0, <1>5, <2>1, FailStep DEF Results, CheckErrors, AttachResults, Loops
<1>6. CASE key[2] \in DOMAIN listeners /\ ~listeners[key[2]] /\ Fail("panic")
  <2>1. ~SureToBind(ListenKey(ListenerOf(e)))
    BY <1>0, <1>2, <1>3, <1>6, ListenersDecided DEF Reached
  <2>2. ~ListenersBind
    BY <1>2, <1>3, <1>6, <2>1 DEF ListenersBind, EntryListens
  <2> QED BY <1>0, <1>6, <2>2, FailStep DEF Results, CheckErrors, AttachResults, Loops
<1> QED BY <1>4, <1>5, <1>6

\* Nothing that a loop was entered with is left when it is done.
LEMMA LoopDoneStep ==
  ASSUME StartupInv, result = "none", UNCHANGED environment, LoopDone
  PROVE  StartupInv'
<1> USE DEF StartupInv, environment, LoopDone, EnterLoop
<1>0. /\ UNCHANGED <<site, idx, listenPorts, listenNames, listeners, httpSiteMapping, attached, result, socket>>
      /\ todo = {}
  BY DEF ports, mapping
<1>1. Seen' = Seen
  BY <1>0 DEF Seen, Entries
<1>2. /\ \A i : BackendOK(i)' = BackendOK(i)
      /\ \A n : HasKey(n)' = HasKey(n)
      /\ \A k : Started(k)' = Started(k)
      /\ \A k : MayBind(k)' = MayBind(k) /\ SureToBind(k)' = SureToBind(k)
      /\ \A e : EntryKey(e)' = EntryKey(e)
      /\ \A n : ListenKey(n)' = ListenKey(n)
  BY <1>0 DEF BackendOK, HasKey, Started, ListenKey, MayBind, SureToBind, Overlap, EntryKey, ListenerOf
<1>3. CauseInv'
  BY <1>0, ConfigFrame DEF CauseInv, CheckErrors
<1>4. ChainInv'
  BY <1>0 DEF ChainInv, ChainsOK, Reached, AttachResults
<1>5. NameInv'
  BY <1>0, <1>2 DEF NameInv, Reached, AttachResults
<1>6. ListenInv'
  BY <1>0, <1>2 DEF ListenInv, NameInv, Reached, AttachResults
<1>7. SiteInv'
  <2>1. /\ DOMAIN httpSiteMapping' = {EntryKey(e)' : e \in Seen'}
        /\ \A e \in Seen' : httpSiteMapping'[EntryKey(e)'] = e[1]
        /\ \A d, e \in Seen' : EntryKey(d)' = EntryKey(e)' => d = e
    BY <1>0, <1>1 DEF SiteInv, EntryKey, ListenerOf
  <2>2. /\ pc' \in {"attach", "ready"} => site = Len(cfg.sites) + 1
        /\ pc' = "sites" => idx = 1
        /\ pc' \in {"names", "listen"} => site = 1 /\ idx = 1
        /\ pc' \in {"names", "listen", "sites", "attach", "ready"}
    BY ConfigShape DEF SiteInv, Reached
  <2> QED BY <1>0, <1>2, <2>1, <2>2 DEF SiteInv, Reached, AttachResults
<1>8. AttachInv'
  BY <1>0 DEF AttachInv, Reached, AttachResults
<1> QED BY <1>3, <1>4, <1>5, <1>6, <1>7, <1>8

LEMMA MainStep ==
  ASSUME StartupInv, ProcessInv, Main, pc \in Loops
  PROVE  StartupInv'
<1> USE DEF Main
<1>0. result = "none" /\ UNCHANGED environment
  BY DEF ProcessInv
<1>1. CASE Return
  BY <1>0, <1>1, FailStep DEF Return, Results, CheckErrors, AttachResults, Loops
<1> QED BY <1>0, <1>1, BuildChainStep, AddListenPortStep, StartListenerStep, InitBackendStep,
           MapListenerStep, NextSiteStep, AttachSiteStep, LoopDoneStep

\* It goes on to another loop, or returns with one of its results.
LEMMA MainGoesOn ==
  ASSUME StartupInv, ProcessInv, Main, pc \in Loops
  PROVE  \/ pc' \in Loops /\ result' = "none"
         \/ /\ pc' = "returned" /\ result' \in Results
            /\ result' = "nil" => ctxDone
<1> USE DEF Main, Fail, Continue, Results, CheckErrors, AttachResults
<1>0. result = "none"
  BY DEF ProcessInv
<1>1. ASSUME NEW name \in todo, BuildChain(name) \/ AddListenPort(name)
      PROVE  \/ pc' \in Loops /\ result' = "none"
             \/ pc' = "returned" /\ result' \in CheckErrors
  BY <1>0, <1>1 DEF BuildChain, AddListenPort
<1>2. ASSUME NEW key \in todo, StartListener(key) \/ AttachSite(key)
      PROVE  \/ pc' \in Loops /\ result' = "none"
             \/ pc' = "returned" /\ result' \in CheckErrors \cup {"ListenerNotFound", "panic"}
  BY <1>0, <1>2 DEF StartListener, AttachSite
<1>3. CASE InitBackend \/ MapListener \/ NextSite \/ LoopDone
  BY <1>0, <1>3 DEF InitBackend, MapListener, NextSite, LoopDone, EnterLoop, Loops
<1>4. CASE Return
  BY <1>4 DEF Return
<1> QED BY <1>1, <1>2, <1>3, <1>4

\* It binds a socket or leaves the sockets alone.
LEMMA MainSockets ==
  ASSUME StartupInv, Main
  PROVE  /\ DOMAIN socket \subseteq DOMAIN socket'
         /\ \A key \in DOMAIN socket : socket'[key] = socket[key]
         /\ \A key \in DOMAIN socket' \ DOMAIN socket : socket'[key] = "bound"
<1> USE DEF Main, Fail
<1>1. ASSUME NEW key \in todo, StartListener(key), listenPorts[key] = HTTPEdge
      PROVE  \/ socket' = socket
             \/ key \notin DOMAIN socket /\ socket' = Put(socket, key, "bound")
  BY <1>1 DEF StartListener, StartupInv, ListenInv
<1>2. CASE UNCHANGED socket
  BY <1>2
<1>3. ASSUME NEW key \in todo, key \notin DOMAIN socket, socket' = Put(socket, key, "bound")
      PROVE  /\ DOMAIN socket \subseteq DOMAIN socket'
             /\ \A k \in DOMAIN socket : socket'[k] = socket[k]
             /\ \A k \in DOMAIN socket' \ DOMAIN socket : socket'[k] = "bound"
  BY <1>3 DEF Put
<1>4. \/ UNCHANGED socket
      \/ \E key \in todo : StartListener(key) /\ listenPorts[key] = HTTPEdge
  BY DEF BuildChain, AddListenPort, StartListener, AttachSite, InitBackend, MapListener, NextSite,
         LoopDone, Return
<1> QED BY <1>1, <1>2, <1>3, <1>4

-----------------------------------------------------------------------------
(* The other goroutines and the requests.                                  *)

\* What the signal goroutine and the listeners do: a listener that has failed
\* stays so until it is shut down, and only the signal goroutine has it shut down.
LEMMA OthersSockets ==
  ASSUME SignalInv, Goroutine \/ Environment
  PROVE  /\ UNCHANGED <<environment, mainVars>>
         /\ DOMAIN socket' = DOMAIN socket
         /\ sigterm = "caught" => sigterm' = "caught"
         /\ \A key \in DOMAIN socket :
              socket[key] = "failed" => socket'[key] = "failed" \/ sigterm' = "caught"
         /\ SignalInv'
<1> USE DEF SignalInv, mainVars
<1>1. CASE Terminate
  BY <1>1 DEF Terminate
<1>2. CASE CatchSignal
  BY <1>2 DEF CatchSignal
<1>3. ASSUME NEW key \in DOMAIN socket, NEW state \in SocketState, SetSocket(key, state),
             state = "failed" => socket[key] = "serving",
             state \in {"closing", "closed"} => ctxDone,
             socket[key] = "failed" => ctxDone
      PROVE  /\ UNCHANGED <<environment, mainVars>>
             /\ DOMAIN socket' = DOMAIN socket
             /\ sigterm = "caught" => sigterm' = "caught"
             /\ \A k \in DOMAIN socket :
                  socket[k] = "failed" => socket'[k] = "failed" \/ sigterm' = "caught"
             /\ SignalInv'
  BY <1>3 DEF SetSocket
<1>4. ASSUME NEW key \in DOMAIN socket, Serve(key) \/ Shutdown(key) \/ ServeFails(key)
      PROVE  \E state \in SocketState :
               /\ SetSocket(key, state)
               /\ state = "failed" => socket[key] = "serving"
               /\ state \in {"closing", "closed"} => ctxDone
               /\ socket[key] = "failed" => ctxDone
  BY <1>4 DEF Serve, Shutdown, ServeFails, SocketState
<1> QED BY <1>1, <1>2, <1>3, <1>4 DEF Goroutine, Environment

\* A reason to end a request does not go away.
LEMMA RequestFrame ==
  ASSUME RequestInv, UNCHANGED requests,
         DOMAIN socket \subseteq DOMAIN socket',
         sigterm = "caught" => sigterm' = "caught",
         exitCode # "none" => UNCHANGED exitCode,
         ~Alive => ~Alive',
         \A key \in DOMAIN socket :
           socket[key] = "failed" => socket'[key] = "failed" \/ sigterm' = "caught",
         UNCHANGED environment
  PROVE  RequestInv'
<1>1. requests' = requests /\ Request' = Request
  BY DEF Request, Keys
<1>2. exitCode \in {"1", "2"} => exitCode' \in {"1", "2"}
  OBVIOUS
<1>3. CutHasCause'
  BY <1>1, <1>2, ConfigFrame DEF RequestInv, CutHasCause, Alive
<1> QED BY <1>1, <1>3 DEF RequestInv

LEMMA OthersStep ==
  ASSUME IInv, Others(Goroutine) \/ Others(Environment)
  PROVE  IInv'
<1> USE DEF IInv, Others
<1>1. /\ UNCHANGED <<environment, mainVars, stage, exitCode>>
      /\ DOMAIN socket' = DOMAIN socket
      /\ sigterm = "caught" => sigterm' = "caught"
      /\ \A key \in DOMAIN socket :
           socket[key] = "failed" => socket'[key] = "failed" \/ sigterm' = "caught"
      /\ SignalInv'
      /\ CloseListener
  BY OthersSockets
<1>2. StartupInv'
  BY <1>1, StartupFrame
<1>3. ProcessInv'
  BY <1>1 DEF ProcessInv, ExitCode, mainVars, position
<1>4. RequestInv'
  <2>1. \A c \in Clients :
          /\ requests[c] \in Request
          /\ \/ requests'[c] = requests[c]
             \/ /\ requests[c].is = "queued" /\ socket'[requests[c].at] \in {"closed", "failed"}
                /\ requests'[c] = [requests[c] EXCEPT !.is = "reset"]
    BY <1>1 DEF RequestInv, CloseListener
  <2>2. \A c \in Clients :
          /\ requests'[c] \in Request
          /\ requests'[c].at = requests[c].at /\ requests'[c].early = requests[c].early
          /\ requests'[c].is = requests[c].is
             \/ /\ requests[c].is = "queued" /\ requests'[c].is = "reset"
                /\ socket'[requests[c].at] \in {"closed", "failed"}
    BY <2>1 DEF Request
  <2>3. \A c \in Clients : requests'[c].is # "none" => requests'[c].at \in DOMAIN socket'
    BY <1>1, <2>2 DEF RequestInv
  <2>4. CutHasCause'
    <3> DEFINE over == sigterm' = "caught" \/ exitCode' \in {"1", "2"}
    <3> SUFFICES ASSUME NEW c \in Clients
                 PROVE  /\ requests'[c].is = "cut" => ~Alive' /\ over
                        /\ requests'[c].is = "reset" =>
                             over \/ socket'[requests'[c].at] = "failed"
                        /\ requests'[c].is = "dropped" =>
                             ChecksPass' /\ (requests'[c].early \/ BadIndexAt(requests[c].at)')
      BY DEF CutHasCause
    <3>1. CASE requests'[c].is = requests[c].is
      BY <1>1, <2>2, <3>1, ConfigFrame DEF RequestInv, CutHasCause, Alive, mainVars, position
    <3>2. CASE requests[c].is = "queued" /\ requests'[c].is = "reset"
               /\ socket'[requests[c].at] \in {"closed", "failed"}
      <4>1. requests[c].at \in DOMAIN socket'
        BY <1>1, <3>2 DEF RequestInv
      <4> QED BY <1>1, <2>2, <3>2, <4>1 DEF SignalInv
    <3> QED BY <2>2, <3>1, <3>2
  <2>5. requests' \in [Clients -> Request]
    BY <1>1, <2>2 DEF CloseListener
  <2>6. Request' = Request
    BY DEF Request, Keys
  <2> QED BY <2>3, <2>4, <2>5, <2>6 DEF RequestInv
<1> QED BY <1>1, <1>2, <1>3, <1>4

-----------------------------------------------------------------------------
(* The steps of Entrypoint.                                                *)

LEMMA InitIInv == Init => IInv
<1> SUFFICES ASSUME Init PROVE IInv
  OBVIOUS
<1>1. ProcessInv
  BY DEF Init, ServerInit, ProcessInv, Loops
<1>2. SignalInv
  BY DEF Init, ServerInit, Nothing, SignalInv
<1>3. RequestInv
  BY DEF Init, NoRequest, Request, RequestInv, CutHasCause
<1> QED BY <1>1, <1>2, <1>3, InitStartupInv DEF IInv

LEMMA LaunchStep == ASSUME IInv, Launch \/ Killed PROVE IInv'
<1> USE DEF IInv, Launch, Killed
<1>1. /\ UNCHANGED <<environment, todo, site, idx, ports, listeners, mapping, result, socket,
                     ctxDone, requests>>
      /\ pc' = pc \/ pc' = "exited"
      /\ result = "none" /\ exitCode = "none" /\ pc = "chains" /\ sigterm # "caught"
  BY DEF ProcessInv, Alive
<1>2. StartupInv'
  <2>1. CASE pc' = pc
    BY <1>1, <2>1, StartupFrame DEF mainVars, position
  <2>2. CASE pc' = "exited"
    <3>1. CauseInv'
      BY <1>1, ConfigFrame DEF CauseInv, CheckErrors
    <3> QED BY <1>1, <2>2, <3>1, LeaveLoops DEF AttachResults, Reached
  <2> QED BY <1>1, <2>1, <2>2
<1>3. ProcessInv'
  BY <1>1 DEF ProcessInv, Loops, Alive
<1>4. SignalInv'
  BY <1>1 DEF SignalInv, ProcessInv
<1>5. RequestInv'
  BY <1>1, RequestFrame DEF ProcessInv, Alive
<1> QED BY <1>2, <1>3, <1>4, <1>5

LEMMA LoadConfigStep == ASSUME IInv, LoadConfig PROVE IInv'
<1> USE DEF IInv, LoadConfig
<1>1. /\ UNCHANGED <<environment, todo, site, idx, ports, listeners, mapping, socket,
                     ctxDone, sigterm, exitCode, requests>>
      /\ pc = "chains" /\ result = "none" /\ stage' = "server" /\ exitCode = "none"
      /\ \/ UNCHANGED <<pc, result>>
         \/ pc' = "returned" /\ result' \in {"LoadFailed", "dumped"}
  BY DEF ProcessInv, Loops
<1>2. StartupInv'
  <2>1. CASE UNCHANGED <<pc, result>>
    BY <1>1, <2>1, StartupFrame DEF mainVars, position
  <2>2. CASE pc' = "returned" /\ result' \in {"LoadFailed", "dumped"}
    <3>1. CauseInv'
      BY <2>2 DEF CauseInv, CheckErrors
    <3> QED BY <1>1, <2>2, <3>1, LeaveLoops DEF AttachResults, Reached
  <2> QED BY <1>1, <2>1, <2>2
<1>3. ProcessInv'
  BY <1>1 DEF ProcessInv, Loops, Results
<1>4. SignalInv'
  BY <1>1 DEF SignalInv
<1>5. RequestInv'
  BY <1>1, RequestFrame DEF Alive
<1> QED BY <1>2, <1>3, <1>4, <1>5

\* The connections that end with the process have a reason to.
LEMMA EndRequests ==
  ASSUME RequestInv, EndConnections, UNCHANGED <<environment, socket, sigterm>>, ~Alive',
         DOMAIN socket # {} => sigterm' = "caught" \/ exitCode' \in {"1", "2"}
  PROVE  RequestInv'
<1>1. \A c \in Clients :
        /\ requests'[c].at = requests[c].at /\ requests'[c].early = requests[c].early
        /\ requests'[c] \in Request
        /\ requests'[c].is # "none" => requests[c].is # "none"
        /\ requests'[c].is = "dropped" => requests[c].is = "dropped"
  <2> TAKE c \in Clients
  <2>1. requests[c] \in Request
    BY DEF RequestInv
  <2>2. \/ requests'[c] = [requests[c] EXCEPT !.is = "reset"] /\ requests[c].is = "queued"
        \/ requests'[c] = [requests[c] EXCEPT !.is = "cut"] /\ requests[c].is = "active"
        \/ requests'[c] = requests[c]
    BY DEF EndConnections
  <2> QED BY <2>1, <2>2 DEF Request
<1>2. \A c \in Clients : requests'[c].is # "none" => requests'[c].at \in DOMAIN socket
  BY <1>1 DEF RequestInv
<1>3. CutHasCause'
  BY <1>1, <1>2, ConfigFrame DEF CutHasCause, RequestInv
<1>4. requests' \in [Clients -> Request]
  BY <1>1 DEF EndConnections
<1>5. Request' = Request
  BY DEF Request, Keys
<1> QED BY <1>2, <1>3, <1>4, <1>5 DEF RequestInv

\* The process ends with an exit code that says why, and only a process that was
\* told to stop or has failed has sockets that anybody could be connected to.
LEMMA ExitStep == ASSUME IInv, Exit PROVE IInv'
<1> USE DEF IInv, Exit
<1>1. /\ UNCHANGED <<environment, todo, site, idx, ports, listeners, mapping, result, socket,
                     ctxDone, sigterm, stage>>
      /\ pc = "returned" /\ pc' = "exited" /\ stage = "server" /\ exitCode' = ExitCode
      /\ result \in Results /\ exitCode = "none"
  BY DEF ProcessInv
<1>2. StartupInv'
  <2>1. CauseInv'
    BY <1>1, ConfigFrame DEF StartupInv, CauseInv
  <2>2. result \in AttachResults \ {"nil"} => attached # DOMAIN httpSiteMapping
    BY DEF StartupInv, AttachInv
  <2> QED BY <1>1, <2>1, <2>2, LeaveLoops DEF Reached
<1>3. ProcessInv'
  BY <1>1 DEF ProcessInv, Loops, ExitCode
<1>4. SignalInv'
  BY <1>1 DEF SignalInv
<1>5. DOMAIN socket # {} => sigterm' = "caught" \/ exitCode' \in {"1", "2"}
  BY <1>1 DEF SignalInv, StartupInv, ListenInv, ExitCode
<1>6. RequestInv'
  BY <1>1, <1>5, EndRequests DEF Alive
<1> QED BY <1>2, <1>3, <1>4, <1>6

\* A fatal race ends it while a site is still to be attached.
LEMMA RaceStep == ASSUME IInv, RaceIsFatal PROVE IInv'
<1> USE DEF IInv, RaceIsFatal
<1>1. /\ UNCHANGED <<environment, todo, site, idx, ports, listeners, mapping, socket,
                     ctxDone, sigterm, stage>>
      /\ pc = "attach" /\ todo # {} /\ stage = "server"
      /\ pc' = "exited" /\ result' = "race" /\ exitCode' = "2"
  BY DEF Attaching
<1>2. StartupInv'
  <2>1. CauseInv'
    BY <1>1 DEF CauseInv, CheckErrors
  <2>2. attached # DOMAIN httpSiteMapping
    BY <1>1 DEF StartupInv, AttachInv
  <2>3. result = "none"
    BY <1>1 DEF ProcessInv, Loops
  <2> QED BY <1>1, <2>1, <2>2, <2>3, LeaveLoops DEF Reached, AttachResults
<1>3. ProcessInv'
  BY <1>1 DEF ProcessInv, Loops, ExitCode, Results, AttachResults
<1>4. SignalInv'
  BY <1>1 DEF SignalInv
<1>5. RequestInv'
  BY <1>1, EndRequests DEF Alive
<1> QED BY <1>2, <1>3, <1>4, <1>5

LEMMA ServerStep ==
  ASSUME IInv, stage = "server", Main, UNCHANGED <<stage, exitCode, requests>>
  PROVE  IInv'
<1> USE DEF IInv
<1>1. pc \in Loops
  BY DEF ProcessInv, Main, BuildChain, AddListenPort, StartListener, AttachSite, InitBackend,
         MapListener, NextSite, LoopDone, Return, Loops
<1>2. StartupInv'
  BY <1>1, MainStep
<1>3. UNCHANGED <<ctxDone, sigterm, environment>>
  BY DEF Main
<1>4. ProcessInv'
  BY <1>1, <1>3, MainGoesOn DEF ProcessInv, Loops
<1>5. SignalInv'
  BY <1>1, <1>3, MainGoesOn, MainSockets DEF SignalInv, SocketState
<1>6. RequestInv'
  <2>1. Alive
    BY <1>1 DEF Alive, Loops
  <2> QED BY <1>3, <2>1, MainSockets, RequestFrame DEF ProcessInv, Alive
<1> QED BY <1>2, <1>4, <1>5, <1>6

\* A handler that panics was accepted early, or works for a site whose index no path
\* has, and the configuration has passed its checks.
LEMMA PanicHasCause ==
  ASSUME IInv, NEW c \in Clients, HandlerPanics(c)
  PROVE  ChecksPass /\ (requests[c].early \/ BadIndexAt(requests[c].at))
<1> USE DEF IInv, StartupInv
<1> DEFINE at == requests[c].at
<1>1. at \in DOMAIN listenNames
  BY DEF HandlerPanics, RequestInv, ListenInv
<1>2. pc = "attach" \/ attached # {}
  BY DEF HandlerPanics, Attaching, AttachedAt
<1>3. ChecksPass
  BY <1>2, ChecksDone DEF AttachInv, Reached
<1>4. ASSUME NEW key \in AttachedAt(at), cfg.sites[httpSiteMapping[key]].badIndex
      PROVE  BadIndexAt(at)
  <2>1. key \in attached /\ key[2] = listenNames[at]
    BY DEF AttachedAt
  <2>2. PICK e \in Seen : key = EntryKey(e)
    BY <2>1 DEF AttachInv, SiteInv
  <2>3. e \in Entries /\ httpSiteMapping[key] = e[1] /\ ListenerOf(e) = listenNames[at]
    BY <2>1, <2>2 DEF SiteInv, Seen, EntryKey
  <2>4. ListenerOf(e) \in DOMAIN cfg.listeners /\ ListenKey(ListenerOf(e)) = at
    BY <1>1, <2>3 DEF NameInv
  <2> QED BY <1>4, <2>3, <2>4 DEF BadIndexAt
<1> QED BY <1>3, <1>4 DEF HandlerPanics

\* The steps of a client and its handler.
LEMMA ClientStep ==
  ASSUME IInv, Alive, NEW c \in Clients,
         \/ Accept(c) \/ Answer(c) \/ HandlerPanics(c)
         \/ \E key \in DOMAIN socket : Connect(c, key)
  PROVE  IInv'
<1> USE DEF IInv, Accept, Answer, Connect, SetRequest
<1>1. UNCHANGED <<serverVars, stage, exitCode>>
  BY DEF HandlerPanics
<1>2. StartupInv'
  BY <1>1, StartupFrame DEF serverVars
<1>3. ProcessInv' /\ SignalInv'
  BY <1>1 DEF ProcessInv, SignalInv, ExitCode, serverVars, mainVars, position
<1>4. DOMAIN socket \subseteq Keys
  BY KeyType DEF StartupInv, ListenInv, NameInv
<1>5. \E request \in Request :
        /\ requests' = [requests EXCEPT ![c] = request]
        /\ request.is # "none" => request.at \in DOMAIN socket
        /\ \/ request.is \in {"none", "queued", "active"}
           \/ /\ request.is = "dropped"
              /\ ChecksPass /\ (request.early \/ BadIndexAt(request.at))
  <2>0. requests[c] \in Request /\ (requests[c].is # "none" => requests[c].at \in DOMAIN socket)
    BY DEF RequestInv
  <2>1. CASE Accept(c)
    <3> DEFINE request == [requests[c] EXCEPT !.is = "active", !.early = Early(requests[c].at)]
    <3>1. Early(requests[c].at) \in BOOLEAN
      BY DEF Early
    <3>2. /\ request \in Request /\ request.is = "active"
          /\ request.at = requests[c].at /\ requests[c].is = "queued"
      BY <2>0, <2>1, <3>1 DEF Request
    <3>3. requests' = [requests EXCEPT ![c] = request]
      BY <2>1
    <3> HIDE DEF request
    <3> QED BY <2>0, <3>2, <3>3
  <2>2. CASE Answer(c)
    <3>1. NoRequest \in Request /\ NoRequest.is = "none"
      BY DEF NoRequest, Request
    <3>2. requests' = [requests EXCEPT ![c] = NoRequest]
      BY <2>2
    <3> QED BY <3>1, <3>2
  <2>3. CASE HandlerPanics(c)
    <3> DEFINE request == [requests[c] EXCEPT !.is = "dropped"]
    <3>1. /\ request \in Request /\ request.is = "dropped" /\ requests[c].is = "active"
          /\ request.at = requests[c].at /\ request.early = requests[c].early
      BY <2>0, <2>3 DEF Request, HandlerPanics
    <3>2. requests' = [requests EXCEPT ![c] = request]
      BY <2>3 DEF HandlerPanics
    <3> HIDE DEF request
    <3> QED BY <2>0, <2>3, <3>1, <3>2, PanicHasCause
  <2>4. ASSUME NEW key \in DOMAIN socket, Connect(c, key)
        PROVE  \E request \in Request :
                 /\ requests' = [requests EXCEPT ![c] = request]
                 /\ request.is = "queued" /\ request.at \in DOMAIN socket
    <3> DEFINE request == [at |-> key, is |-> "queued", early |-> FALSE]
    <3>1. request \in Request
      BY <1>4 DEF Request
    <3>2. /\ request.at \in DOMAIN socket /\ request.is = "queued"
          /\ requests' = [requests EXCEPT ![c] = request]
      BY <2>4
    <3> HIDE DEF request
    <3> QED BY <3>1, <3>2
  <2> QED BY <2>1, <2>2, <2>3, <2>4
<1>6. UNCHANGED <<socket, sigterm, exitCode, pc, environment>>
  BY <1>1 DEF serverVars, mainVars, position
<1>7. RequestInv'
  <2>1. PICK request \in Request :
          /\ requests' = [requests EXCEPT ![c] = request]
          /\ request.is # "none" => request.at \in DOMAIN socket
          /\ \/ request.is \in {"none", "queued", "active"}
             \/ /\ request.is = "dropped"
                /\ ChecksPass /\ (request.early \/ BadIndexAt(request.at))
    BY <1>5
  <2>2. CutHasCause'
    BY <1>6, <2>1, ConfigFrame DEF RequestInv, CutHasCause, Alive
  <2>3. Request' = Request
    BY DEF Request, Keys
  <2> QED BY <1>6, <2>1, <2>2, <2>3 DEF RequestInv
<1> QED BY <1>2, <1>3, <1>7

LEMMA IInvStep == IInv /\ [Next]_vars => IInv'
<1> SUFFICES ASSUME IInv, [Next]_vars PROVE IInv'
  OBVIOUS
<1>1. CASE UNCHANGED vars
  <2>1. UNCHANGED <<serverVars, stage, exitCode, requests>>
    BY <1>1 DEF vars
  <2>2. StartupInv'
    BY <2>1, StartupFrame DEF serverVars, IInv
  <2>3. ProcessInv' /\ SignalInv'
    BY <2>1 DEF IInv, ProcessInv, SignalInv, ExitCode, serverVars, mainVars, position
  <2>4. RequestInv'
    BY <2>1, RequestFrame DEF IInv, Alive, serverVars, mainVars, position
  <2> QED BY <2>2, <2>3, <2>4 DEF IInv
<1> QED BY <1>1, LaunchStep, LoadConfigStep, ExitStep, RaceStep, ServerStep, OthersStep, ClientStep
    DEF Next, EntrypointMain

LEMMA Invariant == Spec => []IInv
<1> QED BY InitIInv, IInvStep, PTL DEF Spec

-----------------------------------------------------------------------------
(* What follows.                                                           *)

\* The loops, the sites, the sockets and the signal have their types, and the maps
\* that describe listeners agree, whatever is configured.
THEOREM TypeCorrect == Spec => []TypeOK
<1>1. IInv => TypeOK
  <2> SUFFICES ASSUME IInv PROVE TypeOK
    OBVIOUS
  <2> USE DEF IInv, StartupInv
  <2>1. cfg \in Configs /\ busy \in BusySets
    OBVIOUS
  <2>2. pc \in {"chains", "names", "listen", "sites", "map", "attach",
                "ready", "returned", "exited"}
    BY DEF ProcessInv, Loops
  <2>3. site \in 1..(Len(cfg.sites) + 1) /\ idx \in Nat \ {0}
    BY DEF SiteInv
  <2>4. /\ DOMAIN listenPorts \subseteq Keys /\ DOMAIN listenNames = DOMAIN listenPorts
        /\ \A key \in DOMAIN listenPorts :
             /\ listenNames[key] \in DOMAIN cfg.listeners
             /\ listenPorts[key] = cfg.listeners[listenNames[key]].type
    BY KeyType DEF NameInv
  <2>5. /\ listeners \in [DOMAIN listeners -> BOOLEAN]
        /\ DOMAIN listeners \subseteq {listenNames[key] : key \in DOMAIN listenNames}
        /\ DOMAIN socket \subseteq DOMAIN listenPorts
    BY DEF ListenInv, NameInv
  <2>6. DOMAIN httpSiteMapping \subseteq Hosts \X Names
    <3>1. \A e \in Entries : EntryKey(e) \in Hosts \X Names
      <4> TAKE e \in Entries
      <4>1. /\ e[1] \in DOMAIN cfg.sites /\ cfg.sites[e[1]] \in Site
            /\ cfg.sites[e[1]].listener[e[2]] \in Names
        BY EntryShape, ConfigShape
      <4> QED BY <4>1 DEF Site, EntryKey, ListenerOf
    <3> QED BY <3>1 DEF SiteInv, Seen
  <2>7. attached \subseteq DOMAIN httpSiteMapping
    BY DEF AttachInv
  <2>9. /\ pc \in {"chains", "names", "listen", "attach"} =>
             todo \subseteq CASE pc = "chains" -> DOMAIN cfg.proxychains
                             [] pc = "names" -> DOMAIN cfg.listeners
                             [] pc = "listen" -> DOMAIN listenPorts
                             [] OTHER -> DOMAIN httpSiteMapping
        /\ result = "none" \/ pc \in {"returned", "exited"}
    BY DEF ProcessInv, Loops, ChainInv, NameInv, ListenInv, AttachInv
  <2>8. /\ \A key \in DOMAIN socket : socket[key] \in SocketState
        /\ ctxDone \in BOOLEAN /\ sigterm \in {"none", "pending", "caught"}
    BY DEF SignalInv
  <2> QED BY <2>1, <2>2, <2>3, <2>4, <2>5, <2>6, <2>7, <2>8, <2>9 DEF TypeOK
<1> QED BY <1>1, Invariant, PTL

\* When the attach loop is over, every entry of the configuration is attached to a
\* listener that is there.
LEMMA AllAttached ==
  ASSUME IInv, pc = "ready" \/ result = "nil"
  PROVE  /\ attached = {EntryKey(e) : e \in Entries}
         /\ \A e \in Entries :
              /\ httpSiteMapping[EntryKey(e)] = e[1]
              /\ ListenerOf(e) \in DOMAIN cfg.listeners /\ HasKey(ListenerOf(e))
              /\ ListenKey(ListenerOf(e)) \in DOMAIN socket
              /\ MayBind(ListenKey(ListenerOf(e)))
<1> USE DEF IInv, StartupInv
<1>1. Reached({"attach", "ready"})
  BY DEF Reached, AttachResults
<1>2. Seen = Entries
  BY <1>1, SeenAtEnd DEF SiteInv
<1>3. attached = {EntryKey(e) : e \in Entries}
  BY <1>2 DEF AttachInv, SiteInv
<1>4. ASSUME NEW e \in Entries
      PROVE  /\ httpSiteMapping[EntryKey(e)] = e[1]
             /\ ListenerOf(e) \in DOMAIN cfg.listeners /\ HasKey(ListenerOf(e))
             /\ ListenKey(ListenerOf(e)) \in DOMAIN socket
             /\ MayBind(ListenKey(ListenerOf(e)))
  <2>1. httpSiteMapping[EntryKey(e)] = e[1]
    BY <1>2 DEF SiteInv
  <2>2. EntryKey(e)[2] = ListenerOf(e) /\ EntryKey(e) \in attached
    BY <1>3 DEF EntryKey
  <2>3. ListenerOf(e) \in DOMAIN listeners /\ listeners[ListenerOf(e)]
    BY <2>2 DEF AttachInv
  <2>4. ListenerOf(e) \in DOMAIN cfg.listeners
    BY <1>1, <2>3, ListenersKnown DEF Reached
  <2> QED BY <1>1, <2>1, <2>3, <2>4, ListenersDecided DEF Reached
<1> QED BY <1>3, <1>4

\* The configuration and the addresses that can be bound decide how the startup
\* ends, in whatever order the maps are ranged over.
THEOREM OutcomeIsDecided == Spec => []OutcomeFollowsConfig
<1>1. IInv => OutcomeFollowsConfig
  <2> SUFFICES ASSUME IInv PROVE OutcomeFollowsConfig
    OBVIOUS
  <2>1. ASSUME pc = "ready" \/ result = "nil"
        PROVE  ChecksPass /\ ListenersExist /\ ListenersMayBind
    BY <2>1, ChecksDone, AllAttached
       DEF IInv, Reached, AttachResults, ListenersExist, ListenersMayBind, EntryListens
  <2>2. result \in {"ListenerNotFound", "panic"} => ChecksPass
    BY ChecksDone DEF IInv, Reached, AttachResults
  <2> QED BY <2>1, <2>2 DEF OutcomeFollowsConfig, IInv, StartupInv, CauseInv, CheckErrors
<1> QED BY <1>1, Invariant, PTL

\* A server that has started serves every site of its configuration, at the socket of
\* its listener, unless this has failed since or SIGTERM was caught.
THEOREM ReadyIsComplete == Spec => []ReadyServesEverySite
<1>1. IInv => ReadyServesEverySite
  <2> SUFFICES ASSUME IInv, pc = "ready", NEW e \in Entries
               PROVE  LET key == ListenKey(ListenerOf(e))
                      IN  key \in Held \/ socket[key] = "failed" \/ sigterm = "caught"
    BY AllAttached DEF ReadyServesEverySite, HasKey
  <2>1. ListenKey(ListenerOf(e)) \in DOMAIN socket
    BY AllAttached
  <2> QED BY <2>1 DEF IInv, SignalInv, SocketState, Held
<1> QED BY <1>1, Invariant, PTL

\* The exit code tells a supervisor how the process has fared: 0 that every site was
\* attached and SIGTERM was caught, 1 that the configuration was at fault, 2 that a
\* configuration without fault crashed before every site was attached.
THEOREM ExitCodeIsTrue == Spec => []ExitCodeTells
<1>1. IInv => ExitCodeTells
  <2> SUFFICES ASSUME IInv, stage = "server"
               PROVE  /\ exitCode = "0" /\ result # "dumped" =>
                           /\ sigterm = "caught" /\ ChecksPass
                           /\ attached = {EntryKey(e) : e \in Entries}
                      /\ exitCode = "1" =>
                           result = "LoadFailed" \/ ~ChecksPass \/ ~ListenersExist
                      /\ exitCode = "2" =>
                           ChecksPass /\ attached # {EntryKey(e) : e \in Entries}
    BY DEF ExitCodeTells
  <2>1. exitCode # "none" => result \in Results /\ exitCode = ExitCode
    BY DEF IInv, ProcessInv
  <2>2. result = "nil" => sigterm = "caught"
    BY DEF IInv, SignalInv
  <2>3. exitCode = "0" /\ result # "dumped" => result = "nil"
    BY <2>1 DEF ExitCode
  <2>4. exitCode = "1" => result \in CheckErrors \cup {"ListenerNotFound", "LoadFailed"}
    BY <2>1 DEF ExitCode, Results, AttachResults
  <2>5. result \in AttachResults => ChecksPass
    BY ChecksDone DEF IInv, Reached
  <2>6. exitCode = "2" => result \in {"panic", "race"}
    BY <2>1 DEF ExitCode
  <2>7. ASSUME result \in {"panic", "race"}
        PROVE  attached # {EntryKey(e) : e \in Entries}
    <3>1. Seen = Entries
      BY <2>7, SeenAtEnd DEF IInv, StartupInv, SiteInv, Reached, AttachResults
    <3> QED BY <2>7, <3>1 DEF IInv, StartupInv, AttachInv, SiteInv, AttachResults
  <2> QED BY <2>2, <2>3, <2>4, <2>5, <2>6, <2>7, AllAttached
          DEF IInv, StartupInv, CauseInv, AttachResults
<1> QED BY <1>1, Invariant, PTL

\* A request that was accepted is cut off only by the end of the process, and dropped
\* by its handler only if it came too early or found an index that no path has; one
\* that was not is reset only with a reason outside the listeners.
THEOREM CutsHaveCauses == Spec => []CutHasCause
<1>1. IInv => CutHasCause
  BY DEF IInv, RequestInv
<1> QED BY <1>1, Invariant, PTL

=============================================================================
