--------------------------- MODULE ServerStartup ---------------------------
(***************************************************************************)
(* Server (pkg/server/server.go) from a loaded configuration until it      *)
(* returns, with the signal goroutine of Entrypoint and the goroutines     *)
(* that NewHTTPEdgeListener starts.  The process around it is in           *)
(* Entrypoint.                                                             *)
(*                                                                         *)
(* Three of its loops range over Go maps, in any order; the loop over the  *)
(* sites is a loop over a list.  A loop's early return is a step of its    *)
(* own, taken when the element that is ranged over fails its check.        *)
(***************************************************************************)
EXTENDS Naturals, Sequences, FiniteSets, SequencesExt

CONSTANTS
  Names,       \* names of proxychains and listeners
  Hosts,       \* the host fields of sites
  Literals,    \* the listen hosts that netip.ParseAddr accepts
  Unspecified, \* those of them that stand for every address, such as 0.0.0.0
  Hostnames,   \* the listen hosts that it rejects
  Ports,       \* a port with its network
  BusySets,    \* what net.Listen may be refused: in use elsewhere, not local, ...
  HTTPEdge,    \* the one implemented listener type
  OtherType,   \* a type that is not implemented
  Configs      \* the configurations that are loaded

\* The zero netip.Addr, which no socket can be bound to.
Zero == "invalid Addr"
Keys == (Literals \cup {Zero}) \X Ports

Listener == [host : Literals \cup Hostnames, port : Ports, type : {HTTPEdge, OtherType}]
Site == [host : Hosts, listener : Seq(Names), proxychain : Names, backendOK : BOOLEAN,
         badIndex : BOOLEAN]  \* does it select the target by an index that no path has?

IsConfig(c) ==
  /\ DOMAIN c = {"proxychains", "listeners", "sites"}
  /\ DOMAIN c.proxychains \subseteq Names
  /\ \A n \in DOMAIN c.proxychains : c.proxychains[n] \in BOOLEAN  \* can it be built?
  /\ DOMAIN c.listeners \subseteq Names
  /\ \A n \in DOMAIN c.listeners : c.listeners[n] \in Listener
  /\ c.sites \in Seq(Site)

ASSUME ConfigsAssumption == \A c \in Configs : IsConfig(c)
ASSUME AddressAssumption ==
  /\ Unspecified \subseteq Literals
  /\ Literals \cap Hostnames = {} /\ Zero \notin Literals
  /\ BusySets \subseteq SUBSET Keys
ASSUME TypeAssumption == HTTPEdge # OtherType

VARIABLES
  cfg, busy,        \* the configuration; the keys no socket can be bound to
  pc,               \* the loop the main goroutine is in, then what became of it
  todo,             \* the map keys the loop has not ranged over yet
  site, idx,        \* the loops over cfg.Sites and over a site's listeners
  listenPorts,      \* listener type by key
  listenNames,      \* listener name by key
  listeners,        \* by name: is there a listener, or a nil interface
  httpSiteMapping,  \* site number by <<host, listener name>>
  attached,         \* the entries of it that AddSite was called for
  result,           \* what Server returns, "panic" or "race" if it does not, or "none" so far
  socket,           \* by key, once bound: see SocketState
  ctxDone,          \* the context Entrypoint hands to Server is cancelled
  sigterm           \* "none", "pending" in sigCh, "caught" by the goroutine

environment == <<cfg, busy>>
position == <<pc, todo, site, idx>>
ports == <<listenPorts, listenNames>>
mapping == <<httpSiteMapping, attached>>
mainVars == <<position, ports, listeners, mapping, result>>
serverVars == <<environment, mainVars, socket, ctxDone, sigterm>>

Nothing == [n \in {} |-> {}]

Put(f, k, v) == [x \in DOMAIN f \cup {k} |-> IF x = k THEN v ELSE f[x]]

ServerInit ==
  /\ cfg \in Configs /\ busy \in BusySets
  /\ pc = "chains" /\ todo = DOMAIN cfg.proxychains
  /\ site = 1 /\ idx = 1
  /\ listenPorts = Nothing /\ listenNames = Nothing /\ listeners = Nothing
  /\ httpSiteMapping = Nothing /\ attached = {}
  /\ result = "none"
  /\ socket = Nothing
  /\ ctxDone = FALSE /\ sigterm = "none"

-----------------------------------------------------------------------------
(* The main goroutine.                                                     *)

Fail(error) ==
  /\ pc' = "returned" /\ result' = error
  /\ UNCHANGED <<todo, site, idx, ports, listeners, mapping, socket>>

\* What a passed check of the loop over a map leaves alone.
Continue(element) ==
  /\ todo' = todo \ {element}
  /\ UNCHANGED <<pc, site, idx, result>>

BuildChain(name) ==
  /\ pc = "chains" /\ name \in todo
  /\ \/ /\ cfg.proxychains[name]
        /\ Continue(name)
        /\ UNCHANGED <<ports, listeners, mapping, socket>>
     \/ ~cfg.proxychains[name] /\ Fail("InvalidProxySpec")

\* Mutant: the key holds the host as it is written.
ListenKeyUnparsed(name) == <<cfg.listeners[name].host, cfg.listeners[name].port>>

\* A failed ParseAddr is logged and leaves the zero address in the key.
ListenKey(name) ==
  LET listener == cfg.listeners[name]
  IN  <<IF listener.host \in Literals THEN listener.host ELSE Zero, listener.port>>

\* Mutant: only the first duplicate check.
AddListenPortSameType(name) ==
  /\ pc = "names" /\ name \in todo
  /\ LET key == ListenKey(name)
         clash == key \in DOMAIN listenPorts /\ listenPorts[key] # cfg.listeners[name].type
     IN  \/ /\ ~clash
            /\ Continue(name)
            /\ listenPorts' = Put(listenPorts, key, cfg.listeners[name].type)
            /\ listenNames' = Put(listenNames, key, name)
            /\ UNCHANGED <<listeners, mapping, socket>>
         \/ clash /\ Fail("DuplicateListeners")

\* The first duplicate check refuses different types, the second any type.
AddListenPort(name) ==
  /\ pc = "names" /\ name \in todo
  /\ \/ /\ ListenKey(name) \notin DOMAIN listenPorts
        /\ Continue(name)
        /\ listenPorts' = Put(listenPorts, ListenKey(name), cfg.listeners[name].type)
        /\ listenNames' = Put(listenNames, ListenKey(name), name)
        /\ UNCHANGED <<listeners, mapping, socket>>
     \/ ListenKey(name) \in DOMAIN listenPorts /\ Fail("DuplicateListeners")

\* Only one of two keys that overlap can be bound at a time.
Overlap(k, l) == k[2] = l[2] /\ {k[1], l[1]} \cap Unspecified # {}

\* net.Listen.  A socket is given back when Serve returns.
Held == {key \in DOMAIN socket : socket[key] \in {"bound", "serving", "closing"}}
MayBind(key) == key[1] # Zero /\ key \notin busy
CanBind(key) == MayBind(key) /\ \A other \in Held : ~Overlap(key, other)

\* An error of NewHTTPEdgeListener is logged, and a nil Listener goes into the
\* map.
StartListener(key) ==
  /\ pc = "listen" /\ key \in todo
  /\ \/ /\ listenPorts[key] = HTTPEdge
        /\ Continue(key)
        /\ listeners' = Put(listeners, listenNames[key], CanBind(key))
        /\ socket' = IF CanBind(key) THEN Put(socket, key, "bound") ELSE socket
        /\ UNCHANGED <<ports, mapping>>
     \/ listenPorts[key] # HTTPEdge /\ Fail("UnknownListenerType")

\* The proxychain lookup and NewHTTPBackend, once per site.
InitBackend ==
  /\ pc = "sites" /\ site <= Len(cfg.sites)
  /\ LET found == cfg.sites[site].proxychain \in DOMAIN cfg.proxychains
     IN  \/ /\ found /\ cfg.sites[site].backendOK
            /\ pc' = "map"
            /\ UNCHANGED <<todo, site, idx, ports, listeners, mapping, result, socket>>
         \/ ~found /\ Fail("ProxychainNotFound")
         \/ found /\ ~cfg.sites[site].backendOK /\ Fail("BackendInitFailed")

siteKey == <<cfg.sites[site].host, cfg.sites[site].listener[idx]>>

MapListener ==
  /\ pc = "map" /\ idx <= Len(cfg.sites[site].listener)
  /\ \/ /\ siteKey \notin DOMAIN httpSiteMapping
        /\ httpSiteMapping' = Put(httpSiteMapping, siteKey, site)
        /\ idx' = idx + 1
        /\ UNCHANGED <<pc, todo, site, ports, listeners, attached, result, socket>>
     \/ siteKey \in DOMAIN httpSiteMapping /\ Fail("HostListenerClash")

\* Mutant: the inner loop does not start again at the first listener.
NextSiteKeepsIdx ==
  /\ pc = "map" /\ idx > Len(cfg.sites[site].listener)
  /\ pc' = "sites" /\ site' = site + 1
  /\ UNCHANGED <<todo, idx, ports, listeners, mapping, result, socket>>

NextSite ==
  /\ pc = "map" /\ idx > Len(cfg.sites[site].listener)
  /\ pc' = "sites" /\ site' = site + 1 /\ idx' = 1
  /\ UNCHANGED <<todo, ports, listeners, mapping, result, socket>>

\* AddSite on a nil Listener is a nil pointer dereference.
AttachSite(key) ==
  /\ pc = "attach" /\ key \in todo
  /\ LET found == key[2] \in DOMAIN listeners
     IN  \/ /\ found /\ listeners[key[2]]
            /\ Continue(key)
            /\ attached' = attached \cup {key}
            /\ UNCHANGED <<ports, listeners, httpSiteMapping, socket>>
         \/ ~found /\ Fail("ListenerNotFound")
         \/ found /\ ~listeners[key[2]] /\ Fail("panic")

EnterLoop(name, elements) == pc' = name /\ todo' = elements

LoopDone ==
  /\ todo = {}
  /\ \/ pc = "chains" /\ EnterLoop("names", DOMAIN cfg.listeners)
     \/ pc = "names" /\ EnterLoop("listen", DOMAIN listenPorts)
     \/ pc = "listen" /\ EnterLoop("sites", {})
     \/ pc = "sites" /\ site > Len(cfg.sites) /\ EnterLoop("attach", DOMAIN httpSiteMapping)
     \/ pc = "attach" /\ EnterLoop("ready", {})
  /\ UNCHANGED <<site, idx, ports, listeners, mapping, result, socket>>

\* <-ctx.Done(), return nil
Return ==
  /\ pc = "ready" /\ ctxDone
  /\ Fail("nil")

Main ==
  /\ \/ \E name \in todo : BuildChain(name) \/ AddListenPort(name)
     \/ \E key \in todo : StartListener(key) \/ AttachSite(key)
     \/ InitBackend \/ MapListener \/ NextSite
     \/ LoopDone \/ Return
  /\ UNCHANGED <<environment, ctxDone, sigterm>>

-----------------------------------------------------------------------------
(* The other goroutines, while the process lives.                          *)

\* SIGTERM is sent; further ones fill the channel or are never received.
Terminate ==
  /\ sigterm = "none"
  /\ sigterm' = "pending"
  /\ UNCHANGED <<environment, mainVars, socket, ctxDone>>

\* Mutant: the signal is logged but the context is not cancelled.
CatchSignalOnly ==
  /\ sigterm = "pending"
  /\ sigterm' = "caught"
  /\ UNCHANGED <<environment, mainVars, socket, ctxDone>>

\* The signal goroutine cancels the context and is gone.
CatchSignal ==
  /\ sigterm = "pending"
  /\ sigterm' = "caught" /\ ctxDone' = TRUE
  /\ UNCHANGED <<environment, mainVars, socket>>

SetSocket(key, state) ==
  /\ socket' = [socket EXCEPT ![key] = state]
  /\ UNCHANGED <<environment, mainVars, ctxDone, sigterm>>

\* r.server.Serve(listener) begins to accept; after Shutdown it returns at once.
Serve(key) ==
  \/ socket[key] = "bound" /\ SetSocket(key, "serving")
  \/ socket[key] = "closing" /\ SetSocket(key, "closed")

\* Serve returns with another error: logged, and nobody else is told.
ServeFails(key) == socket[key] = "serving" /\ SetSocket(key, "failed")

\* <-ctx.Done(), r.server.Shutdown: before, during or after Serve.
Shutdown(key) ==
  /\ ctxDone
  /\ \/ socket[key] = "bound" /\ SetSocket(key, "closing")
     \/ socket[key] \in {"serving", "failed"} /\ SetSocket(key, "closed")

Goroutine ==
  \/ CatchSignal
  \/ \E key \in DOMAIN socket : Serve(key) \/ Shutdown(key)

Environment ==
  \/ Terminate
  \/ \E key \in DOMAIN socket : ServeFails(key)

-----------------------------------------------------------------------------
(* What a configuration means, read off it without any order.              *)

\* The places in the configuration that attach a site to a listener.
Entries == UNION {{<<i, j>> : j \in DOMAIN cfg.sites[i].listener} : i \in DOMAIN cfg.sites}
ListenerOf(e) == cfg.sites[e[1]].listener[e[2]]
EntryKey(e) == <<cfg.sites[e[1]].host, ListenerOf(e)>>

ChainsOK == \A n \in DOMAIN cfg.proxychains : cfg.proxychains[n]
KeysDistinct == \A m, n \in DOMAIN cfg.listeners : m # n => ListenKey(m) # ListenKey(n)
TypesKnown == \A n \in DOMAIN cfg.listeners : cfg.listeners[n].type = HTTPEdge
BackendsOK ==
  \A i \in DOMAIN cfg.sites : /\ cfg.sites[i].proxychain \in DOMAIN cfg.proxychains
                             /\ cfg.sites[i].backendOK
NoClash == \A d, e \in Entries : d # e => EntryKey(d) # EntryKey(e)
ChecksPass == ChainsOK /\ KeysDistinct /\ TypesKnown /\ BackendsOK /\ NoClash

ListenersExist == \A e \in Entries : ListenerOf(e) \in DOMAIN cfg.listeners
EntryListens(e, Binds(_)) ==
  ListenerOf(e) \in DOMAIN cfg.listeners => Binds(ListenKey(ListenerOf(e)))
\* A key is sure to be bound if no other listener of the configuration competes.
SureToBind(key) ==
  /\ MayBind(key)
  /\ \A n \in DOMAIN cfg.listeners : ListenKey(n) # key => ~Overlap(key, ListenKey(n))
ListenersMayBind == \A e \in Entries : EntryListens(e, MayBind)
ListenersBind == \A e \in Entries : EntryListens(e, SureToBind)

SocketState == {"bound", "serving", "closing", "failed", "closed"}

-----------------------------------------------------------------------------
(* Properties.                                                             *)

\* The loops, the sites, the sockets and the signal have their types, what is left
\* to do is in the map that the loop ranges over, and the maps that describe
\* listeners agree.
TypeOK ==
  /\ cfg \in Configs /\ busy \in BusySets
  /\ pc \in {"chains", "names", "listen", "sites", "map", "attach",
             "ready", "returned", "exited"}
  /\ site \in 1..(Len(cfg.sites) + 1) /\ idx \in Nat \ {0}
  /\ pc \in {"chains", "names", "listen", "attach"} =>
       todo \subseteq CASE pc = "chains" -> DOMAIN cfg.proxychains
                       [] pc = "names" -> DOMAIN cfg.listeners
                       [] pc = "listen" -> DOMAIN listenPorts
                       [] OTHER -> DOMAIN httpSiteMapping
  /\ result = "none" \/ pc \in {"returned", "exited"}
  /\ DOMAIN listenPorts \subseteq Keys /\ DOMAIN listenNames = DOMAIN listenPorts
  /\ \A key \in DOMAIN listenPorts :
       /\ listenNames[key] \in DOMAIN cfg.listeners
       /\ listenPorts[key] = cfg.listeners[listenNames[key]].type
  /\ listeners \in [DOMAIN listeners -> BOOLEAN]
  /\ DOMAIN listeners \subseteq {listenNames[key] : key \in DOMAIN listenNames}
  /\ DOMAIN httpSiteMapping \subseteq Hosts \X Names
  /\ attached \subseteq DOMAIN httpSiteMapping
  /\ DOMAIN socket \subseteq DOMAIN listenPorts
  /\ \A key \in DOMAIN socket : socket[key] \in SocketState
  /\ ctxDone \in BOOLEAN /\ sigterm \in {"none", "pending", "caught"}

\* Whatever order Go ranges over its maps in, the configuration and the bound
\* addresses decide how the startup ends: ready only if nothing is wrong, with
\* a configuration error only if one of the checks before the attach loop
\* fails, and otherwise with an unknown listener or the panic of AddSite on a
\* listener that could not be bound.  Only when two listeners compete for a
\* port, one of them at every address, does the order decide.
OutcomeFollowsConfig ==
  /\ pc = "ready" \/ result = "nil" => ChecksPass /\ ListenersExist /\ ListenersMayBind
  /\ result = "ListenerNotFound" => ChecksPass /\ ~ListenersExist
  /\ result = "panic" => ChecksPass /\ ~ListenersBind
  /\ result \in {"InvalidProxySpec", "DuplicateListeners", "UnknownListenerType",
                 "ProxychainNotFound", "BackendInitFailed", "HostListenerClash"}
       => ~ChecksPass

\* "Startup complete" is logged only when every site of the configuration has
\* been attached, with its own backend, to each of its listeners, and each of
\* these holds the socket of its own address, unless it has lost it again: its
\* Serve has failed, which is only logged, or SIGTERM was caught during the startup.
ReadyServesEverySite ==
  pc = "ready" =>
    /\ attached = {EntryKey(e) : e \in Entries}
    /\ \A e \in Entries :
         /\ httpSiteMapping[EntryKey(e)] = e[1]
         /\ LET key == ListenKey(ListenerOf(e))
            IN  /\ listenNames[key] = ListenerOf(e) /\ key \in DOMAIN socket
                /\ key \in Held \/ socket[key] = "failed" \/ sigterm = "caught"

-----------------------------------------------------------------------------
(* What a comment or an error text says, and the code does not do.         *)

\* "duplicate listener addr and port but different type" (server.go:17).
DuplicatesDifferInType ==
  result = "DuplicateListeners" =>
    \E m, n \in DOMAIN cfg.listeners :
      ListenKey(m) = ListenKey(n) /\ cfg.listeners[m].type # cfg.listeners[n].type

\* "ListenAddr is the hostname and port number" (models.go:44): a server that
\* is ready listens at the hostname it was given.
HostnameListens ==
  pc = "ready" =>
    \A n \in DOMAIN cfg.listeners : cfg.listeners[n].host \in Hostnames => listeners[n]
=============================================================================
