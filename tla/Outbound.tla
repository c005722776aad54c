------------------------------ MODULE Outbound ------------------------------
(***************************************************************************)
(* What ServeHTTP of pkg/server/backends.go makes of a request before it   *)
(* is sent: the headers are edited in the request's own map, a target      *)
(* selector (target_selectors.go) picks the target and may edit the path,  *)
(* and then the URL is put together.                                       *)
(*                                                                         *)
(* A string that may hold a host and a port (the Host header, an element   *)
(* of the path, a target) is its name, as the sequence of its labels, and  *)
(* the ports that follow it, one after each colon: "h.c:80" is             *)
(* [name |-> <<"h", "c">>, ports |-> <<80>>], and "h:80:443" has two.  A   *)
(* header key is a name and its spelling.                                  *)
(***************************************************************************)
EXTENDS Integers, SequencesExt

CONSTANTS
  NotANumber,   \* text after a colon that ParseUint rejects
  MaxInt,       \* the largest int
  HeaderNames   \* the headers that requests and configurations mention

ASSUME NumberAssumption == NotANumber \notin Nat /\ MaxInt \in Nat

MaxPort == 2^16 - 1

Spellings == {"canonical", "raw"}
Keys == [name : HeaderNames, spelling : Spellings]

VARIABLES
  pc,       \* where ServeHTTP is before Do, or what is before and instead of it
  backend,  \* the HTTPBackend: target, port, select, index, setHeaders, delHeaders
  request,  \* the http.Request: host, path, and the port of its listener
  headers,  \* request.Header, which is outbound.Headers as well
  target,   \* what the selector returned
  url,      \* host and path of outboundURL
  asked     \* history: the request and its header keys, as the client sent them, and its site

outboundVars == <<pc, backend, request, headers, target, url, asked>>

Text(name, ports) == [name |-> name, ports |-> ports]
NoName == <<"">>
Empty == Text(NoName, <<>>)
Dot == Text(<<"", "">>, <<>>)
DotDot == Text(<<"", "", "">>, <<>>)
NoURL == [host |-> Empty, path |-> <<>>]

-----------------------------------------------------------------------------
(* Ports and paths.                                                        *)

\* net.SplitHostPort succeeds for exactly one colon.
Splits(text) == Len(text.ports) = 1

\* A mutant: a number that does not fit is not cut to the largest port.
ParsePortWide(text) ==
  IF ~Splits(text) \/ text.ports[1] = NotANumber THEN 0 ELSE text.ports[1]

\* SplitHostPort and ParseUint with their errors ignored: 0 for what is not
\* there or not a number, the largest port for a larger number.
ParsePort(text) ==
  IF ~Splits(text) \/ text.ports[1] = NotANumber THEN 0
  ELSE IF text.ports[1] > MaxPort THEN MaxPort ELSE text.ports[1]

\* fmt.Sprintf("%s:%v", host, port)
WithPort(text, port) == Text(text.name, Append(text.ports, port))

\* path.Join drops empty elements and resolves "." and "..".
Push(clean, e) ==
  IF e \in {Empty, Dot} THEN clean
  ELSE IF e = DotDot /\ clean # <<>> /\ Last(clean) # e
       THEN Front(clean)
  ELSE Append(clean, e)

Join(elements) ==
  LET joined == FoldLeft(Push, <<>>, elements)
  IN  IF joined = <<>> /\ \E e \in Range(elements) : e # Empty
      THEN <<Dot>> ELSE joined

-----------------------------------------------------------------------------

\* Configured values replace, key by key, what the client sent.
SetHeaders ==
  /\ pc = "set"
  /\ headers' = [k \in DOMAIN headers \cup backend.setHeaders |->
                   IF k \in backend.setHeaders THEN "configured" ELSE headers[k]]
  /\ pc' = "delete"
  /\ UNCHANGED <<backend, request, target, url, asked>>

\* A mutant: a header that was set is not deleted any more.
DeleteHeadersUnlessSet ==
  /\ pc = "delete"
  /\ headers' = [k \in DOMAIN headers \ (backend.delHeaders \ backend.setHeaders) |-> headers[k]]
  /\ pc' = "target"
  /\ UNCHANGED <<backend, request, target, url, asked>>

\* Keys are compared as they are spelled.
DeleteHeaders ==
  /\ pc = "delete"
  /\ headers' = [k \in DOMAIN headers \ backend.delHeaders |-> headers[k]]
  /\ pc' = "target"
  /\ UNCHANGED <<backend, request, target, url, asked>>

\* DefaultSelector: the configured target, or else the Host header as it is.
GetTargetDefault ==
  /\ pc = "target" /\ backend.select = ""
  /\ target' = WithPort(IF backend.target # NoName THEN Text(backend.target, <<>>)
                        ELSE request.host, backend.port)
  /\ pc' = "url"
  /\ UNCHANGED <<backend, request, headers, url, asked>>

\* p.Index+1, which wraps around.
Incremented(index) == IF index = MaxInt THEN -MaxInt - 1 ELSE index + 1

\* PathIndexSelector, with a path that is too short: no host was specified.
GetTargetNone ==
  /\ pc = "target" /\ backend.select = "path"
  /\ Len(request.path) < Incremented(backend.index)
  /\ target' = Empty
  /\ pc' = "url"
  /\ UNCHANGED <<backend, request, headers, url, asked>>

\* A mutant: the element is read after it was deleted.
PathTargetAfterDelete ==
  LET rest == Append(RemoveAt(request.path, backend.index + 1), Empty)
      element == rest[backend.index + 1]
  IN  WithPort(element, IF backend.port # 0 THEN backend.port ELSE ParsePort(element))

\* The element with the configured port, or else its own, appended.
PathTarget ==
  LET element == request.path[backend.index + 1]
  IN  WithPort(element, IF backend.port # 0 THEN backend.port ELSE ParsePort(element))

\* A mutant: everything in front of the element is dropped with it.
RestOfPathBehind == Join(SubSeq(request.path, backend.index + 2, Len(request.path)))

\* The path without the element.
RestOfPath == Join(RemoveAt(request.path, backend.index + 1))

\* PathIndexSelector edits the request's path in place.
GetTargetPath ==
  /\ pc = "target" /\ backend.select = "path"
  /\ Len(request.path) >= Incremented(backend.index)
  /\ backend.index \in 0..Len(request.path) - 1
  /\ target' = PathTarget
  /\ request' = [request EXCEPT !.path = RestOfPath]
  /\ pc' = "url"
  /\ UNCHANGED <<backend, headers, url, asked>>

\* pathParts[p.Index] out of range; net/http recovers the panic.
IndexPanics ==
  /\ pc = "target" /\ backend.select = "path"
  /\ Len(request.path) >= Incremented(backend.index)
  /\ backend.index \notin 0..Len(request.path) - 1
  /\ pc' = "panic"
  /\ UNCHANGED <<backend, request, headers, target, url, asked>>

\* URL.String puts a slash in front of a path that has none, and "/" is sent for no path.
Rooted(path) ==
  IF path \in {<<>>, <<Empty>>} THEN <<Empty, Empty>>
  ELSE IF path[1] = Empty THEN path ELSE <<Empty>> \o path

\* outboundURL, from the request as the selector left it.
BuildURL ==
  /\ pc = "url"
  /\ url' = [host |-> target, path |-> Rooted(request.path)]
  /\ pc' = "sent"
  /\ UNCHANGED <<backend, request, headers, target, asked>>

ServeHTTP ==
  \/ SetHeaders \/ DeleteHeaders
  \/ GetTargetDefault \/ GetTargetNone \/ GetTargetPath \/ IndexPanics
  \/ BuildURL

-----------------------------------------------------------------------------
(* Properties.                                                             *)

Sent == pc = "sent"

\* "By default, the extracted parameter is removed" (target_selectors.go:40): the
\* backend is asked for the client's path without the element, if the others
\* are plain names, and for the client's own path if no element was taken.
RestOfPathKept ==
  LET path == asked.request.path
      others == Tail(RemoveAt(path, backend.index + 1))
      plain == {Empty, Dot, DotDot} \cap Range(others) = {}
  IN  Sent =>
        IF backend.select = "" \/ backend.index >= Len(path) THEN url.path = Rooted(path)
        ELSE backend.index > 0 /\ others # <<>> /\ plain => url.path = <<Empty>> \o others

\* A header whose configured keys are all spelled canonically reaches the backend
\* as configured: not at all if it is deleted, even if it is set as well, with
\* the configured value if it is set, and as the client sent it otherwise
\* (backends.go:74-80).
HeadersAsConfigured ==
  Sent => \A name \in HeaderNames :
    LET key == [name |-> name, spelling |-> "canonical"]
        sent == {headers[k] : k \in {k \in DOMAIN headers : k.name = name}}
    IN  (\A k \in backend.setHeaders \cup backend.delHeaders : k.name = name => k = key) =>
          sent = IF key \in backend.delHeaders THEN {}
                 ELSE IF key \in backend.setHeaders THEN {"configured"}
                 ELSE IF key \in asked.keys THEN {"client"} ELSE {}

-----------------------------------------------------------------------------
(* What the documentation says, and the code does not do.                  *)

\* "Names here are normalized before removal, so spelling does not need to be
\* exact" (models.go:76-77).
DeletedNamesNormalized ==
  Sent => \A deleted \in backend.delHeaders, k \in DOMAIN headers : k.name # deleted.name

\* The selector "extracts the hostname from the given Index"
\* (target_selectors.go:40): from "h:80" the host h, to which one port belongs.
ExtractsHostname ==
  Sent /\ backend.select = "path" /\ target # Empty => Splits(target)

\* "By default proxyreverse will guess the backend port based on the port number
\* of the listener it is attached to" (README.md:62-64).
GuessesListenerPort ==
  Sent /\ backend.select = "" /\ backend.target = NoName /\ backend.port = 0
    => Last(target.ports) = request.listener
=============================================================================
