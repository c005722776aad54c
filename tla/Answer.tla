------------------------------- MODULE Answer -------------------------------
(***************************************************************************)
(* The rest of ServeHTTP of pkg/server/backends.go, from outbound.Do to    *)
(* the answer the client sees: the client library reads the reply, unpacks *)
(* it if it was the library that asked for gzip, and gives back what there *)
(* is of a body that breaks off; ServeHTTP copies headers, status and body *)
(* to net/http's writer, which holds the body against the Content-Length   *)
(* among the headers.                                                      *)
(*                                                                         *)
(* Of the reply's headers only Content-Length counts here, and a body is   *)
(* its length.                                                             *)
(***************************************************************************)
EXTENDS Outbound

CONSTANTS
  AcceptEncoding,  \* the name of the header with which gzip is asked for
  Undeclared       \* no Content-Length

ASSUME LengthAssumption == AcceptEncoding \in HeaderNames /\ Undeclared \notin Nat

VARIABLES
  reply,     \* what the backend replies, once it is asked, or NoReply
  stage,     \* where ServeHTTP is after pc = "sent"
  response,  \* resp: the Content-Length in its Header, and its Body
  header,    \* the Content-Length in writer.Header()
  declared,  \* the Content-Length that was written
  copied,    \* how much of a body was written
  seen       \* what the answer looks like to the client

answerVars == <<reply, stage, response, header, declared, copied, seen>>

\* No connection, or one that fails before there is a status.
NoReply == [status |-> "none"]
NoResponse == [length |-> Undeclared, body |-> 0]

\* A body that arrives is whole, or it is cut; if its length is declared no more than
\* that arrives.  A packed body unpacks to some other length.
IsReply(r) ==
  /\ r = [length |-> r.length, arrives |-> r.arrives, whole |-> r.whole,
          gzip |-> r.gzip, unpacked |-> r.unpacked]
  /\ r.length \in Nat \cup {Undeclared} /\ r.arrives \in Nat /\ r.unpacked \in Nat
  /\ r.whole \in BOOLEAN /\ r.gzip \in BOOLEAN
  /\ r.length # Undeclared => r.arrives <= r.length /\ (r.whole <=> r.arrives = r.length)

AnswerInit ==
  /\ stage = "do"
  /\ response = NoResponse
  /\ header = Undeclared /\ declared = Undeclared /\ copied = 0
  /\ seen = "nothing"

-----------------------------------------------------------------------------
(* The client library.                                                     *)

\* net.Dial can only connect to one port, and never to port 0.
Dialable(text) == Splits(text) /\ text.ports[1] \in 1..MaxPort

AcceptKey == [name |-> AcceptEncoding, spelling |-> "canonical"]

\* The transport asks for gzip where the request does not say what it accepts, and
\* then unpacks what is packed.
Unpacks == reply.gzip /\ AcceptKey \notin DOMAIN headers

\* The whole body is read here.  That it was cut is only told in resp.Err.
Do ==
  /\ pc = "sent" /\ stage = "do"
  /\ Dialable(url.host) /\ reply # NoReply
  /\ response' = IF Unpacks THEN [length |-> Undeclared, body |-> reply.unpacked]
                 ELSE [length |-> reply.length, body |-> reply.arrives]
  /\ stage' = "response"
  /\ UNCHANGED <<outboundVars, reply, header, declared, copied, seen>>

-----------------------------------------------------------------------------
(* The answer.                                                             *)

\* resp.Response == nil
BadGatewayReply ==
  /\ pc = "sent" /\ stage = "do"
  /\ ~Dialable(url.host) \/ reply = NoReply
  /\ seen' = "502"
  /\ stage' = "answered"
  /\ UNCHANGED <<outboundVars, reply, response, header, declared, copied>>

\* A mutant: only headers that are there already are replaced.
CopyHeadersPresent ==
  /\ stage = "response"
  /\ header' = IF header = Undeclared THEN header ELSE response.length
  /\ stage' = "headers"
  /\ UNCHANGED <<outboundVars, reply, response, declared, copied, seen>>

\* resp.Err is not looked at.
CopyHeaders ==
  /\ stage = "response"
  /\ header' = IF response.length = Undeclared THEN header ELSE response.length
  /\ stage' = "headers"
  /\ UNCHANGED <<outboundVars, reply, response, declared, copied, seen>>

WriteHeader ==
  /\ stage = "headers"
  /\ declared' = header
  /\ stage' = "status"
  /\ UNCHANGED <<outboundVars, reply, response, header, copied, seen>>

\* io.Copy(writer, resp.Response.Body)
CopyBody ==
  /\ stage = "status"
  /\ copied' = response.body
  /\ stage' = "body"
  /\ UNCHANGED <<outboundVars, reply, response, header, declared, seen>>

\* net/http ends a body that is not declared, and breaks the connection after one
\* that is shorter than declared.
Return ==
  /\ stage = "body"
  /\ seen' = IF declared \in {Undeclared, copied} THEN "complete" ELSE "broken"
  /\ stage' = "answered"
  /\ UNCHANGED <<outboundVars, reply, response, header, declared, copied>>

Respond ==
  Do \/ BadGatewayReply \/ CopyHeaders \/ WriteHeader \/ CopyBody \/ Return

-----------------------------------------------------------------------------
(* Properties.                                                             *)

\* Is what the request accepts told to the backend by the client, or configured?
EncodingChosen ==
  AcceptKey \in (asked.keys \cup backend.setHeaders) \ backend.delHeaders

\* An answer looks complete to the client if the backend's reply is, and a reply
\* that is cut breaks off for the client too, if the backend declared its length and
\* the body is passed on as it came (backends.go:112-130).  Otherwise it
\* looks complete: nothing is said of a length that the backend did not declare, or
\* that the library removed because it, and not the client, asked for gzip.
CutBodyNoticed ==
  stage = "answered" =>
    /\ seen = "502" <=> ~Dialable(url.host) \/ reply = NoReply
    /\ seen # "502" =>
         (seen = "broken" <=>
            ~reply.whole /\ reply.length # Undeclared /\ (reply.gzip => EncodingChosen))

-----------------------------------------------------------------------------
(* What one would expect, and the code does not do.                        *)

\* No reply that is cut looks complete.
CutBodyNeverComplete == seen = "complete" => reply.whole
=============================================================================
