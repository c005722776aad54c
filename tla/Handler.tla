------------------------------ MODULE Handler -------------------------------
(***************************************************************************)
(* A request from its arrival to the client's answer, on a listener with   *)
(* all its sites attached: the backends as the configuration has them      *)
(* written (NewHTTPBackend, NewTargetSelector, HostSpec), then handler and *)
(* matchSite of pkg/server/listeners.go, then ServeHTTP (Outbound, and     *)
(* after it Answer).                                                       *)
(***************************************************************************)
EXTENDS Answer, MatchSite

CONSTANTS
  NotConfigured,  \* a target that the configuration does not mention
  Ported,         \* a last label with several ports behind it; no site has it
  Families        \* sets of scenarios: the listener's sites, a request and the replies to it

\* Splitting a host or a path never returns an empty slice, and a path that was
\* split at all is rooted.  What follows a colon is a number or none.
IsName(name) == name \in Seq(Range(name)) \ {<<>>}

IsText(text) ==
  /\ text = Text(text.name, text.ports)
  /\ IsName(text.name) /\ text.ports \in Seq(Nat \cup {NotANumber})

IsRequest(r) ==
  /\ r = [host |-> r.host, path |-> r.path, listener |-> r.listener]
  /\ IsText(r.host)
  /\ IsName(r.path) /\ Len(r.path) <= MaxInt /\ \A e \in Range(r.path) : IsText(e)
  /\ Len(r.path) > 1 => r.path[1] = Empty

IsBackendConfig(w) ==
  /\ w.target = NotConfigured \/ IsText(w.target)
  /\ w.select.others \in BOOLEAN
  /\ w.select.index = <<>> \/ w.select.index \in Seq(-MaxInt - 1..MaxInt)
  /\ w.setHeaders \subseteq Keys /\ w.delHeaders \subseteq Keys

ASSUME FamiliesAssumption ==
  \A family \in Families : \A s \in family :
    /\ \A h \in DOMAIN s.sites : IsName(h) /\ IsBackendConfig(s.sites[h])
    /\ IsRequest(s.request) /\ s.names \subseteq HeaderNames
    /\ \A r \in s.replies : r = NoReply \/ IsReply(r)

VARIABLES
  written,  \* by the host of each site of the listener: its BackendConfig
  sites     \* by host, once the server has started: its HTTPBackend

vars == <<outboundVars, answerVars, written, sites>>

\* A target_select and the parameters for it: an Index, if there is one, and
\* whether there are others or an Index that is not a number.
Select(name, index, others) == [name |-> name, index |-> index, others |-> others]

Nobody ==
  [target |-> NoName, port |-> 0, select |-> "", index |-> 0, setHeaders |-> {}, delHeaders |-> {}]

\* SplitHostPort, or the whole Host if it fails.
Hostname(text) ==
  IF Len(text.ports) <= 1 THEN text.name ELSE [text.name EXCEPT ![Len(text.name)] = Ported]

Init ==
  /\ \E family \in Families : \E s \in family :
       /\ written = s.sites
       /\ request = s.request
       /\ headers = [k \in [name : s.names, spelling : {"canonical"}] |-> "client"]
       /\ reply \in s.replies
  /\ AnswerInit
  /\ pc = "configure"
  /\ sites = <<>>
  /\ backend = Nobody
  /\ target = Empty
  /\ url = NoURL
  /\ asked = [request |-> request, keys |-> DOMAIN headers,
              site |-> BestSite(DOMAIN written, Hostname(request.host))]

-----------------------------------------------------------------------------
(* The backends of the configuration.                                      *)

\* HostSpec.UnmarshalText fails without a host and one port, or if the port is
\* no number of sixteen bits.  Its network is not looked at.
Unmarshals(text) ==
  \/ text = NotConfigured
  \/ Splits(text) /\ text.ports[1] \in 0..MaxPort

HostOf(text) == IF text = NotConfigured THEN NoName ELSE text.name
PortOf(text) == IF text = NotConfigured THEN 0 ELSE text.ports[1]

\* NewTargetSelector: the default selector has no parameters, the other only one.
Selects(select) ==
  /\ select.name \in {"", "path"} /\ ~select.others
  /\ select.name = "" => select.index = <<>>

NewHTTPBackend(w) ==
  [target |-> HostOf(w.target), port |-> PortOf(w.target),
   select |-> w.select.name, index |-> IF w.select.index = <<>> THEN 0 ELSE w.select.index[1],
   setHeaders |-> w.setHeaders, delHeaders |-> w.delHeaders]

\* The configuration is refused as a whole, by its loader or by Server.
Refuse ==
  /\ pc = "configure"
  /\ \E h \in DOMAIN written : ~Unmarshals(written[h].target) \/ ~Selects(written[h].select)
  /\ pc' = "refused"
  /\ UNCHANGED <<backend, request, headers, target, url, asked, written, sites, answerVars>>

Configure ==
  /\ pc = "configure"
  /\ \A h \in DOMAIN written : Unmarshals(written[h].target) /\ Selects(written[h].select)
  /\ sites' = [h \in DOMAIN written |-> NewHTTPBackend(written[h])]
  /\ pc' = "handler"
  /\ UNCHANGED <<backend, request, headers, target, url, asked, written, answerVars>>

-----------------------------------------------------------------------------
(* The request.                                                            *)

Matched == MatchSite(TrieOf(DOMAIN sites), Hostname(request.host))

BadGateway ==
  /\ pc = "handler" /\ Matched = NoBackend
  /\ pc' = "502"
  /\ UNCHANGED <<backend, request, headers, target, url, asked, written, sites, answerVars>>

Dispatch ==
  /\ pc = "handler" /\ Matched # NoBackend
  /\ backend' = sites[Matched]
  /\ pc' = "set"
  /\ UNCHANGED <<request, headers, target, url, asked, written, sites, answerVars>>

Over == pc \in {"panic", "502", "refused"} \/ stage = "answered"

Next ==
  \/ Refuse \/ Configure
  \/ BadGateway \/ Dispatch
  \/ ServeHTTP /\ UNCHANGED <<answerVars, written, sites>>
  \/ Respond /\ UNCHANGED <<written, sites>>
  \/ Over /\ UNCHANGED vars

Spec == Init /\ [][Next]_vars

-----------------------------------------------------------------------------
(* Properties.                                                             *)

\* The stages, the sites, the backend, the headers and the lengths have their types,
\* only a request that is sent is answered, and the port of a target fits its sixteen
\* bits, whatever number the path holds.  What is written, asked and replied stays as
\* it is; the properties below say what becomes of the request.
TypeOK ==
  /\ pc \in {"configure", "refused", "handler", "502", "set", "delete", "target", "url",
             "sent", "panic"}
  /\ DOMAIN sites \subseteq DOMAIN written
  /\ \A h \in DOMAIN sites : sites[h].port \in 0..MaxPort /\ sites[h].select \in {"", "path"}
  /\ backend \in Range(sites) \cup {Nobody}
  /\ DOMAIN headers \subseteq Keys /\ Range(headers) \subseteq {"client", "configured"}
  /\ target.ports # <<>> => Last(target.ports) \in 0..MaxPort
  /\ stage \in {"do", "response", "headers", "status", "body", "answered"}
  /\ stage # "do" => pc = "sent"
  /\ {response.length, header, declared} \subseteq Nat \cup {Undeclared}
  /\ response.body \in Nat /\ copied \in {0, response.body}
  /\ seen \in {"nothing", "502", "complete", "broken"} /\ (seen # "nothing" <=> stage = "answered")

\* The site that the client should get, and what is written for it.
Best == asked.site
Chosen == written[Best]
IndexOf(w) == IF w.select.index = <<>> THEN 0 ELSE w.select.index[1]

\* What cannot be meant: a target without one port of sixteen bits, a selector that
\* there is not, and parameters that it does not have.
Mistaken(w) ==
  \/ /\ w.target # NotConfigured
     /\ \/ Len(w.target.ports) # 1
        \/ \E port \in Range(w.target.ports) : port = NotANumber \/ port > MaxPort
  \/ w.select.name \notin {"", "path"} \/ w.select.others
  \/ w.select.name = "" /\ w.select.index # <<>>
Mistakes == {h \in DOMAIN written : Mistaken(written[h])}

\* On a configuration without mistakes every request gets to the backend that is
\* written for one site, the one at the end of the best walk, found without ever
\* looking back (listeners.go:58-84): 502 says that there is none, and a panic that
\* this site's index is negative, or the largest int, however short the path is
\* (target_selectors.go:48).
\* With a mistake in any of the sites none is served, and without one no
\* configuration is refused.
OutcomeFollowsSite ==
  LET panics == Chosen.select.name = "path" /\ IndexOf(Chosen) \notin 0..MaxInt - 1
  IN  /\ pc = "refused" => Mistakes # {}
      /\ pc \notin {"configure", "refused"} => Mistakes = {}
      /\ pc = "502" => Best = NoBackend
      /\ pc \notin {"configure", "refused", "handler", "502"} =>
           Best # NoBackend /\ backend = NewHTTPBackend(Chosen)
      /\ pc = "panic" => panics
      /\ pc = "sent" => ~panics

\* A request that can be dialed at all goes to the port that is written for the
\* best site, and to the target that is, or the Host header, or, if a path
\* selects the target, to the element the client's path had at the index
\* (backends.go:88).
DialsAsConfigured ==
  Sent /\ Dialable(url.host) =>
    /\ url.host.ports = Chosen.target.ports
    /\ url.host.name =
         IF Chosen.select.name = "path" THEN asked.request.path[IndexOf(Chosen) + 1].name
         ELSE IF HostOf(Chosen.target) # NoName THEN Chosen.target.name
         ELSE asked.request.host.name

-----------------------------------------------------------------------------
(* What the documentation says, and the code does not do.                  *)

\* "Host is the hostname to respond to" (models.go:50): a site whose host has
\* no wildcard serves no other host.
ServesOnlyItsHostname ==
  pc = "set" /\ Wildcard \notin Range(Best) => Best = Hostname(request.host)

\* "one or more hostname components are replaced by wildcards.  The most
\* specific handler for each request is used" (README.md:32-34): a host that a
\* site matches component by component is not refused.
MatchingSiteServes ==
  LET host == Hostname(request.host)
  IN  pc = "502" => ~ \E s \in DOMAIN sites :
                        /\ Len(s) = Len(host)
                        /\ \A i \in DOMAIN s : s[i] \in {host[i], Wildcard}
=============================================================================
