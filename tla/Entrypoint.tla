----------------------------- MODULE Entrypoint -----------------------------
(***************************************************************************)
(* One process of proxyreverse from main to its exit: Entrypoint           *)
(* (pkg/entrypoint/entrypoint.go) around Server (ServerStartup), and the   *)
(* requests of clients, from the first listener that is bound to the end,  *)
(* which may come while they are being served.                             *)
(***************************************************************************)
EXTENDS ServerStartup

CONSTANT Clients  \* the connections that clients make, one request each at a time

VARIABLES
  stage,     \* "launch", "load", "server": where Entrypoint is
  exitCode,  \* what the process has ended with: "none" yet, "0", "1", "2", "signal"
  requests   \* per client: at which key it has connected, what is with it, and
             \* whether sites were still to be attached there when it was accepted

vars == <<serverVars, stage, exitCode, requests>>

NoRequest == [at |-> <<>>, is |-> "none", early |-> FALSE]

Init ==
  /\ ServerInit
  /\ stage = "launch" /\ exitCode = "none"
  /\ requests = [c \in Clients |-> NoRequest]

Alive == pc # "exited"

-----------------------------------------------------------------------------
(* Entrypoint's own steps.                                                 *)

\* main and the beginning of Entrypoint: a bad environment panics, bad
\* arguments are an error, --version prints and returns, and otherwise the
\* signal goroutine is started.
Launch ==
  /\ stage = "launch" /\ Alive
  /\ \/ stage' = "load" /\ UNCHANGED <<pc, exitCode>>
     \/ pc' = "exited" /\ exitCode' \in {"0", "1", "2"} /\ UNCHANGED stage
  /\ UNCHANGED <<environment, todo, site, idx, ports, listeners, mapping, result,
                 socket, ctxDone, sigterm, requests>>

\* Before signal.Notify a SIGTERM does what it does by default.
Killed ==
  /\ stage = "launch" /\ Alive
  /\ pc' = "exited" /\ exitCode' = "signal" /\ sigterm' = "pending"
  /\ UNCHANGED <<environment, todo, site, idx, ports, listeners, mapping, result,
                 socket, ctxDone, stage, requests>>

\* The file is read and loaded, twice; then Server or dump-config is run.  The
\* context is not looked at.
LoadConfig ==
  /\ stage = "load"
  /\ stage' = "server"
  /\ \/ UNCHANGED <<pc, result>>
     \/ pc' = "returned" /\ result' \in {"LoadFailed", "dumped"}
  /\ UNCHANGED <<environment, todo, site, idx, ports, listeners, mapping,
                 socket, ctxDone, sigterm, exitCode, requests>>

\* Mutant: main does not hand Entrypoint's result to os.Exit.
ExitCodeAlways0 == IF result \in {"panic", "race"} THEN "2" ELSE "0"

\* No error is 0, another 1, and a panic of the main goroutine 2.
ExitCode ==
  IF result \in {"nil", "dumped"} THEN "0" ELSE IF result \in {"panic", "race"} THEN "2" ELSE "1"

\* With the process, all its connections end.
EndConnections ==
  requests' = [c \in Clients |->
    CASE requests[c].is = "queued" -> [requests[c] EXCEPT !.is = "reset"]
      [] requests[c].is = "active" -> [requests[c] EXCEPT !.is = "cut"]
      [] OTHER -> requests[c]]

\* Server returns without waiting for the listeners, and the process ends with
\* all its goroutines.
Exit ==
  /\ stage = "server" /\ pc = "returned"
  /\ pc' = "exited" /\ exitCode' = ExitCode
  /\ EndConnections
  /\ UNCHANGED <<environment, todo, site, idx, ports, listeners, mapping, result,
                 socket, ctxDone, sigterm, stage>>

\* The sites of the listener at a key: those that AddSite was called for, and
\* whether it may be running now.
AttachedAt(at) == {key \in attached : key[2] = listenNames[at]}
Attaching(at) == pc = "attach" /\ \E key \in todo : key[2] = listenNames[at]

\* AddSite and matchSite are seen to use a map of the tree at the same time: "fatal
\* error: concurrent map read and map write", see EdgeListener.
RaceIsFatal ==
  /\ \E c \in Clients : /\ requests[c].is = "active" /\ requests[c].early
                        /\ Attaching(requests[c].at)
  /\ stage = "server"
  /\ pc' = "exited" /\ result' = "race" /\ exitCode' = "2"
  /\ EndConnections
  /\ UNCHANGED <<environment, todo, site, idx, ports, listeners, mapping,
                 socket, ctxDone, sigterm, stage>>

EntrypointMain ==
  \/ Launch \/ LoadConfig \/ Exit
  \/ stage = "server" /\ Main /\ UNCHANGED <<stage, exitCode, requests>>

-----------------------------------------------------------------------------
(* Connections.                                                            *)

SetRequest(c, request) ==
  /\ requests' = [requests EXCEPT ![c] = request]
  /\ UNCHANGED <<serverVars, stage, exitCode>>

\* A socket that is bound takes connections, even while nobody accepts them.
Connect(c, key) ==
  /\ requests[c] = NoRequest
  /\ key \in Held
  /\ SetRequest(c, [at |-> key, is |-> "queued", early |-> FALSE])

\* Is there a site that the listener at a key should have and has not got?
Early(at) == \E e \in Entries : ListenerOf(e) = listenNames[at] /\ EntryKey(e) \notin attached

\* Serve accepts, and handler begins, whether or not a site is attached yet.
Accept(c) ==
  /\ requests[c].is = "queued" /\ socket[requests[c].at] = "serving"
  /\ SetRequest(c, [requests[c] EXCEPT !.is = "active", !.early = Early(requests[c].at)])

\* handler returns; the client may ask again.
Answer(c) ==
  /\ requests[c].is = "active"
  /\ SetRequest(c, NoRequest)

\* handler panics: matchSite has met AddSite and used what was half written, or the
\* target selector's index is out of range.  net/http recovers, and drops the
\* connection without an answer.
HandlerPanics(c) ==
  LET at == requests[c].at
  IN  /\ requests[c].is = "active"
      /\ \/ requests[c].early /\ (Attaching(at) \/ AttachedAt(at) # {})
         \/ \E key \in AttachedAt(at) : cfg.sites[httpSiteMapping[key]].badIndex
      /\ SetRequest(c, [requests[c] EXCEPT !.is = "dropped"])

\* Mutant: Close instead of Shutdown.
CloseAllConnections ==
  requests' = [c \in Clients |->
    IF requests[c].is \in {"queued", "active"} /\ socket'[requests[c].at] \in {"closed", "failed"}
    THEN [requests[c] EXCEPT !.is = IF @ = "active" THEN "cut" ELSE "reset"]
    ELSE requests[c]]

\* Serve closes its listener when it returns: what has not been accepted is
\* reset.  Shutdown waits for the others, for as long as the process lives.
CloseListener ==
  requests' = [c \in Clients |->
    IF requests[c].is = "queued" /\ socket'[requests[c].at] \in {"closed", "failed"}
    THEN [requests[c] EXCEPT !.is = "reset"]
    ELSE requests[c]]

\* The goroutines of ServerStartup, and what else happens to it.
Others(Step) ==
  /\ stage # "launch" /\ Alive
  /\ Step
  /\ CloseListener
  /\ UNCHANGED <<stage, exitCode>>

Next ==
  \/ EntrypointMain
  \/ Killed \/ RaceIsFatal
  \/ Others(Goroutine)
  \/ Others(Environment)
  \/ Alive /\ \E c \in Clients :
       Accept(c) \/ Answer(c) \/ HandlerPanics(c) \/ \E key \in DOMAIN socket : Connect(c, key)
  \/ (pc = "ready" \/ ~Alive) /\ UNCHANGED vars

Spec == Init /\ [][Next]_vars

\* The Go scheduler runs every goroutine that can run.  Nothing sends SIGTERM,
\* breaks a socket, makes a client ask or a backend answer.
FairSpec == Spec /\ WF_vars(EntrypointMain) /\ WF_vars(Others(Goroutine))

-----------------------------------------------------------------------------
(* Properties.                                                             *)

\* SIGTERM ends the process, whenever during startup or service it arrives.
TerminateStops == sigterm = "pending" ~> ~Alive

\* What a supervisor reads from the exit code: after the configuration was
\* loaded, 0 says that the reverse proxy had attached every site to its
\* listeners and was told to stop (or the configuration was printed), 1 that the
\* configuration could not be loaded or failed one of its checks
\* (entrypoint.go:131-147), and 2 that it had passed them and the process crashed
\* before all sites were attached.
ExitCodeTells ==
  stage = "server" =>
    /\ exitCode = "0" /\ result # "dumped" =>
         /\ sigterm = "caught" /\ ChecksPass
         /\ attached = {EntryKey(e) : e \in Entries}
    /\ exitCode = "1" => result = "LoadFailed" \/ ~ChecksPass \/ ~ListenersExist
    /\ exitCode = "2" => ChecksPass /\ attached # {EntryKey(e) : e \in Entries}

\* Does the listener at a key have a site with an index that no path has?
BadIndexAt(at) ==
  \E e \in Entries : /\ cfg.sites[e[1]].badIndex
                     /\ ListenerOf(e) \in DOMAIN cfg.listeners
                     /\ ListenKey(ListenerOf(e)) = at

\* A request that was accepted is lost in two ways.  It is cut off by the end of the
\* process, and that comes, like the reset of one that was not accepted, only from
\* SIGTERM, from an end of the startup, or from a listener that has failed: not from
\* another client, another listener or the shutdown of its own
\* (listeners.go:135-144, server.go:172).  Or its own handler drops it, and this
\* happens only with a configuration that has passed its checks, to a request that
\* was accepted before all sites of its listener were attached (listeners.go:34-54)
\* or at a listener with a site whose index no path has (target_selectors.go:53).
CutHasCause ==
  \A c \in Clients :
    LET at == requests[c].at
        over == sigterm = "caught" \/ exitCode \in {"1", "2"}
    IN  /\ requests[c].is = "cut" => ~Alive /\ over
        /\ requests[c].is = "reset" => over \/ socket[at] = "failed"
        /\ requests[c].is = "dropped" =>
             ChecksPass /\ (requests[c].early \/ BadIndexAt(at))

-----------------------------------------------------------------------------
(* What the code logs, and does not do.                                    *)

\* "Shutting down" (server.go:173) is Shutdown's: requests that were accepted
\* before are answered when the process ends after SIGTERM.
ShutdownDrains == exitCode = "0" => \A c \in Clients : requests[c].is # "cut"
=============================================================================
