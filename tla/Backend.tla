------------------------------ MODULE Backend -------------------------------
(***************************************************************************)
(* HTTPBackend of pkg/server/backends.go while it serves several requests  *)
(* at once: all of them use one client, with one pool of connections and   *)
(* one tls.Config, and without a configured target each request stores its *)
(* target's name in that configuration.  How a request is turned into a    *)
(* target is in Outbound, and what is made of a reply in Answer; here a    *)
(* target is its host, or NoName if it is malformed and cannot be dialed.  *)
(*                                                                         *)
(* A Go string is two words, and ServerName is stored and loaded without a *)
(* lock: serverName has the name that each of its words belongs to.        *)
(***************************************************************************)
EXTENDS Naturals, FiniteSets

CONSTANTS
  Requests,  \* goroutines, each serves one request after the other
  Hosts,     \* the hosts that requests can be for
  SNIs,      \* the names that sni_name may be set to
  Certs,     \* the names in the certificate of each host
  Configs,   \* the configurations of the backend
  Torn       \* what a load of ServerName during a store may return

NoName == ""
NoSNI == "no sni_name"
Names == Hosts \cup SNIs \cup {NoName}

\* config.BackendConfig, as far as it matters here.
Backends ==
  [target : Hosts \cup {NoName}, select : {"", "path"}, tls : BOOLEAN,
   sni : SNIs \cup {NoSNI}, noVerify : BOOLEAN]

ASSUME NamesAssumption ==
  /\ NoName \notin Hosts /\ NoSNI \notin Names /\ Torn \notin Names
  /\ Certs \in [Hosts -> SUBSET Names]
  /\ Configs \subseteq Backends

Words == {"data", "len"}
NoConn == [host |-> NoName, name |-> NoName]

\* What a client is answered: 502, or the response of a backend.
Answers == {"502", "response"}
NoAnswer == "no answer"

VARIABLES
  backend,    \* the configuration
  serverName, \* ServerName of the client's tls.Config, word by word
  conns,      \* the client's connections: the host dialed and the name sent
  pc,         \* where each request is in ServeHTTP
  target,     \* targetHost
  conn,       \* the connection a request is sent on
  answer,     \* what the client is answered
  disturbed   \* history: has another request stored a name since this one began to

vars == <<backend, serverName, conns, pc, target, conn, answer, disturbed>>

Word(name) == [w \in Words |-> name]

\* NewHTTPBackend: the client starts out with sni_name, or the target's host.
Init ==
  /\ backend \in Configs
  /\ serverName = Word(IF backend.sni # NoSNI THEN backend.sni ELSE backend.target)
  /\ conns = {}
  /\ pc = [r \in Requests |-> "idle"]
  /\ target = [r \in Requests |-> NoName]
  /\ conn = [r \in Requests |-> NoConn]
  /\ answer = [r \in Requests |-> NoAnswer]
  /\ disturbed = [r \in Requests |-> FALSE]

-----------------------------------------------------------------------------
(* The shared configuration.                                               *)

\* A mutant: the name is stored for every target.
NeedsNameAlways == backend.tls

\* "Need to set SNI name per request if no specified target"
NeedsName == backend.target = NoName /\ backend.tls

\* GetTarget: the configured host, if there is one and no path selects another.
Targets ==
  IF backend.select = "" /\ backend.target # NoName THEN {backend.target}
  ELSE Hosts \cup {NoName}

GetTarget(r, host) ==
  /\ pc[r] = "idle" /\ host \in Targets
  /\ target' = [target EXCEPT ![r] = host]
  /\ pc' = [pc EXCEPT ![r] = IF NeedsName THEN "name" ELSE "do"]
  /\ UNCHANGED <<backend, serverName, conns, conn, answer, disturbed>>

\* When r stores a word, those that have stored one and not yet dialed are disturbed.
Disturb(r) ==
  disturbed' = [q \in Requests |->
    disturbed[q] \/ (q # r /\ pc[q] \in Words \cup {"do", "dial"})]

\* A mutant: the name is only stored where there is none.
BeginSetNameOnce(r, word) ==
  /\ pc[r] = "name"
  /\ serverName' = [serverName EXCEPT ![word] = IF @ = NoName THEN target[r] ELSE @]
  /\ pc' = [pc EXCEPT ![r] = CHOOSE w \in Words : w # word]
  /\ Disturb(r)
  /\ UNCHANGED <<backend, conns, target, conn, answer>>

\* tlsConfig.ServerName = targetHost stores the words in either order; pc is the
\* word that is left.
BeginSetName(r, word) ==
  /\ pc[r] = "name"
  /\ serverName' = [serverName EXCEPT ![word] = target[r]]
  /\ pc' = [pc EXCEPT ![r] = CHOOSE w \in Words : w # word]
  /\ Disturb(r)
  /\ UNCHANGED <<backend, conns, target, conn, answer>>

\* What loading both words of ServerName can give.
Loaded == IF serverName["data"] = serverName["len"] THEN {serverName["data"]}
          ELSE {serverName["data"], Torn}

\* A mutant: the last word is not stored before the configuration is cloned and
\* set, with what the clone has found.
EndSetNameClones(r) ==
  /\ pc[r] \in Words
  /\ \E loaded \in Loaded : serverName' = Word(loaded)
  /\ pc' = [pc EXCEPT ![r] = "do"]
  /\ Disturb(r)
  /\ UNCHANGED <<backend, conns, target, conn, answer>>

\* The same pointer is set again by SetTLSClientConfig.
EndSetName(r) ==
  /\ pc[r] \in Words
  /\ serverName' = [serverName EXCEPT ![pc[r]] = target[r]]
  /\ pc' = [pc EXCEPT ![r] = "do"]
  /\ Disturb(r)
  /\ UNCHANGED <<backend, conns, target, conn, answer>>

-----------------------------------------------------------------------------
(* The client, an external library: what outbound.Do makes of the above.   *)

\* An empty ServerName is replaced by the host that is dialed.
NameSent(name, host) == IF name = NoName THEN host ELSE name

\* A connection to the target is used again.
Reuse(r) ==
  /\ pc[r] \in {"do", "dial"}
  /\ \E c \in conns :
       /\ c.host = target[r]
       /\ conn' = [conn EXCEPT ![r] = c]
  /\ pc' = [pc EXCEPT ![r] = "sent"]
  /\ UNCHANGED <<backend, serverName, conns, target, answer, disturbed>>

\* No connection is there.  (One that becomes free meanwhile may be used instead.)
Dial(r) ==
  /\ pc[r] = "do" /\ target[r] # NoName
  /\ pc' = [pc EXCEPT ![r] = "dial"]
  /\ UNCHANGED <<backend, serverName, conns, target, conn, answer, disturbed>>

\* A mutant: certificates are checked exactly when no_verify is set.
AcceptsInverted(host, name) == ~backend.noVerify \/ name \in Certs[host]

\* With InsecureSkipVerify any certificate will do.
Accepts(host, name) == backend.noVerify \/ name \in Certs[host]

\* The handshake copies the tls.Config, and with it the name of this moment.
Handshake(r) ==
  /\ pc[r] = "dial"
  /\ \E loaded \in Loaded :
       LET c == [host |-> target[r],
                 name |-> IF backend.tls THEN NameSent(loaded, target[r]) ELSE NoName]
       IN  /\ backend.tls => Accepts(c.host, c.name)
           /\ conns' = conns \cup {c}
           /\ conn' = [conn EXCEPT ![r] = c]
  /\ pc' = [pc EXCEPT ![r] = "sent"]
  /\ UNCHANGED <<backend, serverName, target, answer, disturbed>>

\* Nothing can be dialed, the certificate is refused, or a connection fails.
Fail(r) ==
  /\ pc[r] \in {"do", "dial", "sent"}
  /\ conns' \in {conns, conns \ {conn[r]}}
  /\ pc' = [pc EXCEPT ![r] = "error"]
  /\ UNCHANGED <<backend, serverName, target, conn, answer, disturbed>>

\* A connection that is not in use is closed, by either side.
CloseConn ==
  /\ \E c \in conns : conns' = conns \ {c}
  /\ UNCHANGED <<backend, serverName, pc, target, conn, answer, disturbed>>

\* The backend replies, and Do returns.
Receive(r) ==
  /\ pc[r] = "sent"
  /\ pc' = [pc EXCEPT ![r] = "copy"]
  /\ UNCHANGED <<backend, serverName, conns, target, conn, answer, disturbed>>

-----------------------------------------------------------------------------
(* The answer.                                                             *)

BadGateway(r) ==
  /\ pc[r] = "error"
  /\ answer' = [answer EXCEPT ![r] = "502"]
  /\ pc' = [pc EXCEPT ![r] = "answered"]
  /\ UNCHANGED <<backend, serverName, conns, target, conn, disturbed>>

\* Headers, status and body are copied (Answer).
CopyResponse(r) ==
  /\ pc[r] = "copy"
  /\ answer' = [answer EXCEPT ![r] = "response"]
  /\ pc' = [pc EXCEPT ![r] = "answered"]
  /\ UNCHANGED <<backend, serverName, conns, target, conn, disturbed>>

\* ServeHTTP is over, and the goroutine serves the next request.
Return(r) ==
  /\ pc[r] = "answered"
  /\ pc' = [pc EXCEPT ![r] = "idle"]
  /\ target' = [target EXCEPT ![r] = NoName]
  /\ conn' = [conn EXCEPT ![r] = NoConn]
  /\ answer' = [answer EXCEPT ![r] = NoAnswer]
  /\ disturbed' = [disturbed EXCEPT ![r] = FALSE]
  /\ UNCHANGED <<backend, serverName, conns>>

-----------------------------------------------------------------------------

ServeHTTP(r) ==
  \/ \E host \in Hosts \cup {NoName} : GetTarget(r, host)
  \/ \E word \in Words : BeginSetName(r, word)
  \/ EndSetName(r)
  \/ BadGateway(r) \/ CopyResponse(r) \/ Return(r)

Do(r) == Reuse(r) \/ Dial(r) \/ Handshake(r) \/ Fail(r) \/ Receive(r)

Next == (\E r \in Requests : ServeHTTP(r) \/ Do(r)) \/ CloseConn

Spec == Init /\ [][Next]_vars

-----------------------------------------------------------------------------
(* Properties.                                                             *)

Phase == {"idle", "name", "do", "dial", "sent", "copy", "error", "answered"} \cup Words
Conns == [host : Hosts, name : Names \cup {Torn}]

\* The variables have their types: a torn name is sent but never stored, and what
\* is dialed is the host of a well-formed target.
TypeOK ==
  /\ backend \in Configs
  /\ serverName \in [Words -> Names]
  /\ conns \subseteq Conns
  /\ pc \in [Requests -> Phase]
  /\ target \in [Requests -> Hosts \cup {NoName}]
  /\ conn \in [Requests -> Conns \cup {NoConn}]
  /\ answer \in [Requests -> Answers \cup {NoAnswer}]
  /\ disturbed \in [Requests -> BOOLEAN]
  /\ \A r \in Requests : pc[r] = "dial" => target[r] # NoName

\* With a configured target, every handshake, of whatever request and to
\* whatever host a path selects, sends sni_name, or the target's host if there
\* is no sni_name (backends.go:33-36).
FixedNameSent ==
  backend.tls /\ backend.target # NoName =>
    \A c \in conns :
      c.name = NameSent(IF backend.sni # NoSNI THEN backend.sni ELSE backend.target, c.host)

\* Without one, a request that dials before any other request stores a word of
\* its name sends the name of its own target (backends.go:91-96).
UndisturbedNameSent ==
  NeedsName => \A r \in Requests :
    pc[r] = "dial" /\ ~disturbed[r] => Loaded = {target[r]}

\* Certificates contain the race: where each host's certificate names that host
\* only, a request that was answered was answered on a connection to its own
\* target that was made with its own target's name.  Others end in 502.
AnsweredByTarget ==
  backend.tls /\ ~backend.noVerify /\ (\A h \in Hosts : Certs[h] = {h}) =>
    \A r \in Requests : answer[r] = "response" =>
      conn[r] = [host |-> target[r], name |-> target[r]]

-----------------------------------------------------------------------------
(* What comments say, and the code does not do.                            *)

\* "Need to set SNI name per request if no specified target" (backends.go:92):
\* every connection is made with the name of the target it is made to.
NamePerRequest == NeedsName => \A c \in conns : c.name = c.host

\* "The TLS SNI name to send" (models.go:67).
ConfiguredNameSent ==
  backend.tls /\ backend.sni # NoSNI => \A c \in conns : c.name = backend.sni
=============================================================================
