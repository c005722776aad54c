--------------------------- MODULE BackendProofs ----------------------------
(***************************************************************************)
(* Proofs about Backend, for any requests, hosts, names and certificates.  *)
(***************************************************************************)
EXTENDS Backend, TLAPS

\* The word that a store leaves for later is a word, and not the stored one.
LEMMA OtherWord ==
  ASSUME NEW word \in Words
  PROVE  /\ (CHOOSE w \in Words : w # word) \in Words
         /\ (CHOOSE w \in Words : w # word) # word
  BY DEF Words

\* Init gives every variable its type.
LEMMA InitType == Init => TypeOK
<1> SUFFICES ASSUME Init PROVE TypeOK
  OBVIOUS
<1> USE NamesAssumption
<1>1. backend \in Configs /\ backend \in Backends
  BY DEF Init
<1>2. serverName \in [Words -> Names]
  BY <1>1 DEF Init, Word, Backends, Names
<1> QED
  BY <1>1, <1>2 DEF Init, TypeOK, Phase

\* The type invariant is inductive.
LEMMA NextType == TypeOK /\ [Next]_vars => TypeOK'
<1> SUFFICES ASSUME TypeOK, [Next]_vars PROVE TypeOK'
  OBVIOUS
<1> USE NamesAssumption DEF TypeOK, Phase
<1>1. ASSUME NEW r \in Requests, NEW host \in Hosts \cup {NoName}, GetTarget(r, host)
      PROVE  TypeOK'
  BY <1>1 DEF GetTarget
<1>2. ASSUME NEW r \in Requests, NEW word \in Words, BeginSetName(r, word)
      PROVE  TypeOK'
  <2> DEFINE other == CHOOSE w \in Words : w # word
  <2>1. other \in Words
    BY OtherWord
  <2>2. other # "dial"
    BY <2>1 DEF Words
  <2>3. target[r] \in Names
    BY DEF Names
  <2>4. /\ pc' = [pc EXCEPT ![r] = other]
        /\ serverName' = [serverName EXCEPT ![word] = target[r]]
        /\ UNCHANGED <<backend, conns, target, conn, answer>>
    BY <1>2 DEF BeginSetName
  <2>5. disturbed' \in [Requests -> BOOLEAN]
    BY <1>2, ZenonT(20) DEF BeginSetName, Disturb
  <2> HIDE DEF other
  <2> QED
    BY <2>1, <2>2, <2>3, <2>4, <2>5
<1>3. ASSUME NEW r \in Requests, EndSetName(r)
      PROVE  TypeOK'
  <2>1. target[r] \in Names
    BY DEF Names
  <2>2. disturbed' \in [Requests -> BOOLEAN]
    BY <1>3, ZenonT(20) DEF EndSetName, Disturb
  <2> QED
    BY <1>3, <2>1, <2>2 DEF EndSetName
<1>4. ASSUME NEW r \in Requests, Do(r)
      PROVE  TypeOK'
  <2>1. CASE Reuse(r)
    BY <2>1 DEF Reuse
  <2>2. CASE Dial(r)
    BY <2>2 DEF Dial
  <2>3. CASE Handshake(r)
    <3>1. PICK loaded \in Loaded :
            LET c == [host |-> target[r],
                      name |-> IF backend.tls THEN NameSent(loaded, target[r]) ELSE NoName]
            IN  conns' = conns \cup {c} /\ conn' = [conn EXCEPT ![r] = c]
      BY <2>3 DEF Handshake
    <3>2. target[r] \in Hosts
      BY <2>3 DEF Handshake
    <3>3. loaded \in Names \cup {Torn}
      BY DEF Loaded, Words
    <3>4. NameSent(loaded, target[r]) \in Names \cup {Torn}
      BY <3>2, <3>3 DEF NameSent, Names
    <3>5. [host |-> target[r],
           name |-> IF backend.tls THEN NameSent(loaded, target[r]) ELSE NoName] \in Conns
      BY <3>2, <3>4 DEF Conns, Names
    <3> QED
      BY <2>3, <3>1, <3>5 DEF Handshake
  <2>4. CASE Fail(r)
    BY <2>4 DEF Fail
  <2>5. CASE Receive(r)
    BY <2>5 DEF Receive
  <2> QED
    BY <1>4, <2>1, <2>2, <2>3, <2>4, <2>5 DEF Do
<1>5. ASSUME NEW r \in Requests, BadGateway(r) \/ CopyResponse(r) \/ Return(r)
      PROVE  TypeOK'
  BY <1>5 DEF BadGateway, CopyResponse, Return, Answers
<1>6. CASE CloseConn
  BY <1>6 DEF CloseConn
<1>7. CASE UNCHANGED vars
  BY <1>7 DEF vars
<1> QED
  BY <1>1, <1>2, <1>3, <1>4, <1>5, <1>6, <1>7 DEF Next, ServeHTTP

\* Every variable keeps its type, and only well-formed targets are dialed.
THEOREM TypeCorrect == Spec => []TypeOK
  BY InitType, NextType, PTL DEF Spec

-----------------------------------------------------------------------------
(* A configured target: its name is there from the start, and stays.       *)

FixedName == IF backend.sni # NoSNI THEN backend.sni ELSE backend.target

\* No request is about to store a name, both words are the fixed one, and so is
\* whatever was sent.
FixedInv ==
  backend.tls /\ backend.target # NoName =>
    /\ \A r \in Requests : pc[r] \notin Words \cup {"name"}
    /\ serverName = Word(FixedName)
    /\ \A c \in conns : c.name = NameSent(FixedName, c.host)

\* FixedInv is inductive.
LEMMA FixedInductive == TypeOK /\ FixedInv /\ [Next]_vars => FixedInv'
<1> SUFFICES ASSUME TypeOK, FixedInv, [Next]_vars,
                    backend'.tls, backend'.target # NoName
             PROVE  /\ \A r \in Requests : pc'[r] \notin Words \cup {"name"}
                    /\ serverName' = Word(FixedName)
                    /\ \A c \in conns' : c.name = NameSent(FixedName, c.host)
                    /\ backend' = backend
  BY DEF FixedInv, FixedName
<1>1. backend' = backend
  BY DEF Next, vars, ServeHTTP, Do, GetTarget, BeginSetName, EndSetName, Reuse, Dial,
         Handshake, Fail, Receive, BadGateway, CopyResponse, Return, CloseConn
<1>2. /\ \A r \in Requests : pc[r] \notin Words \cup {"name"}
      /\ serverName = Word(FixedName)
      /\ \A c \in conns : c.name = NameSent(FixedName, c.host)
      /\ ~NeedsName
  BY <1>1 DEF FixedInv, NeedsName
<1> USE <1>1, <1>2 DEF TypeOK
<1>3. ASSUME NEW r \in Requests, NEW host \in Hosts \cup {NoName}, GetTarget(r, host)
      PROVE  /\ \A q \in Requests : pc'[q] \notin Words \cup {"name"}
             /\ UNCHANGED <<serverName, conns>>
  BY <1>3 DEF GetTarget, Words
<1>4. ASSUME NEW r \in Requests, ~Handshake(r), Do(r)
      PROVE  /\ \A q \in Requests : pc'[q] \notin Words \cup {"name"}
             /\ serverName' = serverName /\ conns' \subseteq conns
  BY <1>4 DEF Do, Reuse, Dial, Fail, Receive, Words
<1>5. ASSUME NEW r \in Requests, Handshake(r)
      PROVE  /\ \A q \in Requests : pc'[q] \notin Words \cup {"name"}
             /\ serverName' = serverName
             /\ \A c \in conns' : c.name = NameSent(FixedName, c.host)
  <2>1. Loaded = {FixedName}
    BY DEF Loaded, Word, Words
  <2>2. \A c \in conns' : c \in conns
          \/ c = [host |-> target[r], name |-> NameSent(FixedName, target[r])]
    BY <1>5, <2>1 DEF Handshake
  <2>3. \A c \in conns' : c.name = NameSent(FixedName, c.host)
    BY <2>2
  <2> QED
    BY <1>5, <2>3 DEF Handshake, Words
<1>6. ASSUME NEW r \in Requests, BadGateway(r) \/ CopyResponse(r) \/ Return(r)
      PROVE  /\ \A q \in Requests : pc'[q] \notin Words \cup {"name"}
             /\ UNCHANGED <<serverName, conns>>
  BY <1>6 DEF BadGateway, CopyResponse, Return, Words
<1>7. ASSUME NEW r \in Requests
      PROVE  ~EndSetName(r) /\ \A word \in Words : ~BeginSetName(r, word)
  BY DEF EndSetName, BeginSetName
<1>8. CASE CloseConn \/ UNCHANGED vars
  BY <1>8 DEF CloseConn, vars
<1> QED
  BY <1>3, <1>4, <1>5, <1>6, <1>7, <1>8 DEF Next, ServeHTTP

\* With a configured target every handshake sends the configured name, however
\* many requests there are and whatever hosts their paths select.
THEOREM FixedNameIsSent == Spec => []FixedNameSent
<1>1. Init => FixedInv
  BY DEF Init, FixedInv, FixedName, Words
<1>2. FixedInv => FixedNameSent
  BY DEF FixedInv, FixedNameSent, FixedName
<1> QED
  BY <1>1, <1>2, FixedInductive, TypeCorrect, PTL DEF Spec

-----------------------------------------------------------------------------
(* No configured target: the race over the name.                           *)

\* A request that nobody disturbed since its first store finds its own name in
\* the words it has stored.
UndisturbedInv ==
  NeedsName => \A r \in Requests : ~disturbed[r] =>
    /\ pc[r] \in {"do", "dial"} => serverName = Word(target[r])
    /\ pc[r] \in Words => \A w \in Words \ {pc[r]} : serverName[w] = target[r]

\* A step that stores nothing keeps it, if it moves requests only from "do" to
\* "dial", or to where they do not need the name.
LEMMA NotStored ==
  ASSUME UndisturbedInv, UNCHANGED <<backend, serverName>>,
         \A r \in Requests :
           \/ pc'[r] = pc[r] /\ target'[r] = target[r] /\ disturbed'[r] = disturbed[r]
           \/ /\ pc[r] = "do" /\ pc'[r] = "dial"
              /\ target'[r] = target[r] /\ disturbed'[r] = disturbed[r]
           \/ NeedsName => pc'[r] \notin Words \cup {"do", "dial"}
  PROVE  UndisturbedInv'
  BY DEF UndisturbedInv, NeedsName, Words

\* A store disturbs everybody else.
LEMMA Disturbs ==
  ASSUME TypeOK, NEW r \in Requests, Disturb(r),
         \A q \in Requests \ {r} : pc'[q] = pc[q]
  PROVE  \A q \in Requests \ {r} :
           ~disturbed'[q] => pc'[q] \notin Words \cup {"do", "dial"}
  BY DEF Disturb, TypeOK

\* UndisturbedInv is inductive.
LEMMA UndisturbedInductive == TypeOK /\ UndisturbedInv /\ [Next]_vars => UndisturbedInv'
<1> SUFFICES ASSUME TypeOK, UndisturbedInv, [Next]_vars PROVE UndisturbedInv'
  OBVIOUS
<1>1. ASSUME NEW r \in Requests, NEW host \in Hosts \cup {NoName}, GetTarget(r, host)
      PROVE  UndisturbedInv'
  BY <1>1, NotStored DEF GetTarget, TypeOK, Words
<1>2. ASSUME NEW r \in Requests, NEW word \in Words, BeginSetName(r, word)
      PROVE  UndisturbedInv'
  <2> DEFINE other == CHOOSE w \in Words : w # word
  <2>1. other \in Words /\ other # word
    BY OtherWord
  <2>2. pc'[r] = other /\ serverName'[word] = target[r] /\ target' = target
    BY <1>2 DEF BeginSetName, TypeOK
  <2>3. \A w \in Words \ {other} : w = word
    BY <2>1 DEF Words
  <2>4. Disturb(r) /\ \A q \in Requests \ {r} : pc'[q] = pc[q]
    BY <1>2 DEF BeginSetName, TypeOK
  <2>5. \A q \in Requests \ {r} : ~disturbed'[q] => pc'[q] \notin Words \cup {"do", "dial"}
    BY <2>4, Disturbs
  <2>6. pc'[r] \notin {"do", "dial"}
    BY <2>1, <2>2 DEF Words
  <2> HIDE DEF other
  <2> QED
    BY <2>2, <2>3, <2>5, <2>6 DEF UndisturbedInv
<1>3. ASSUME NEW r \in Requests, EndSetName(r), NeedsName
      PROVE  UndisturbedInv'
  <2>1. Disturb(r) /\ \A q \in Requests \ {r} : pc'[q] = pc[q]
    BY <1>3 DEF EndSetName, TypeOK
  <2>2. \A q \in Requests \ {r} : ~disturbed'[q] => pc'[q] \notin Words \cup {"do", "dial"}
    BY <2>1, Disturbs
  <2>3. pc'[r] = "do" /\ pc'[r] \notin Words /\ target' = target
    BY <1>3 DEF EndSetName, TypeOK, Words
  <2>4. disturbed'[r] = disturbed[r]
    BY <1>3 DEF EndSetName, Disturb, TypeOK
  <2>5. ASSUME ~disturbed[r] PROVE serverName' = Word(target[r])
    <3>1. \A w \in Words \ {pc[r]} : serverName[w] = target[r]
      BY <1>3, <2>5 DEF UndisturbedInv, EndSetName
    <3>2. serverName' = [serverName EXCEPT ![pc[r]] = target[r]]
      BY <1>3 DEF EndSetName
    <3> QED
      BY <3>1, <3>2 DEF Word, TypeOK
  <2> QED
    BY <2>2, <2>3, <2>4, <2>5 DEF UndisturbedInv
<1>4. ASSUME NEW r \in Requests, Do(r)
      PROVE  UndisturbedInv'
  BY <1>4, NotStored DEF Do, Reuse, Dial, Handshake, Fail, Receive, TypeOK, Words
<1>5. ASSUME NEW r \in Requests, BadGateway(r) \/ CopyResponse(r) \/ Return(r)
      PROVE  UndisturbedInv'
  BY <1>5, NotStored DEF BadGateway, CopyResponse, Return, TypeOK, Words
<1>6. CASE CloseConn \/ UNCHANGED vars
  BY <1>6, NotStored DEF CloseConn, vars
<1>7. ASSUME NEW r \in Requests, EndSetName(r), ~NeedsName
      PROVE  UndisturbedInv'
  BY <1>7 DEF UndisturbedInv, EndSetName, NeedsName
<1> QED
  BY <1>1, <1>2, <1>3, <1>4, <1>5, <1>6, <1>7 DEF Next, ServeHTTP

\* Without a configured target, a request sends its own target's name unless
\* another one stores a word of its name in between.
THEOREM UndisturbedNameIsSent == Spec => []UndisturbedNameSent
<1>1. Init => UndisturbedInv
  BY DEF Init, UndisturbedInv, Words
<1>2. UndisturbedInv => UndisturbedNameSent
  BY DEF UndisturbedInv, UndisturbedNameSent, Loaded, Word, Words
<1> QED
  BY <1>1, <1>2, UndisturbedInductive, TypeCorrect, PTL DEF Spec

-----------------------------------------------------------------------------
(* Verified certificates contain the race.                                 *)

Verifies == backend.tls /\ ~backend.noVerify

\* Where r's connection goes, and that its certificate has the name it was made with.
OwnConn(r) ==
  /\ conn[r] \in Conns
  /\ conn[r].host = target[r]
  /\ Verifies => conn[r].name \in Certs[target[r]]

\* All connections were verified; a request that was sent or answered by the
\* backend has one to its target, and an answer ends the request.
AnswerInv ==
  /\ Verifies => \A c \in conns : c.name \in Certs[c.host]
  /\ \A r \in Requests :
       /\ pc[r] \in {"sent", "copy"} => OwnConn(r)
       /\ answer[r] = "response" => OwnConn(r)
       /\ answer[r] # NoAnswer => pc[r] = "answered"

\* AnswerInv is inductive.
LEMMA AnswerInductive == TypeOK /\ AnswerInv /\ [Next]_vars => AnswerInv'
<1> SUFFICES ASSUME TypeOK, AnswerInv, [Next]_vars PROVE AnswerInv'
  OBVIOUS
<1> USE DEF AnswerInv, OwnConn, Verifies, TypeOK, NoAnswer
<1>1. ASSUME NEW r \in Requests, NEW host \in Hosts \cup {NoName}, GetTarget(r, host)
      PROVE  AnswerInv'
  BY <1>1 DEF GetTarget
<1>2. ASSUME NEW r \in Requests,
             EndSetName(r) \/ \E word \in Words : BeginSetName(r, word)
      PROVE  AnswerInv'
  <2>1. /\ \A q \in Requests : pc'[q] = pc[q] \/ pc'[q] \in Words \cup {"do"}
        /\ \A q \in Requests : answer[q] # NoAnswer => pc'[q] = pc[q]
        /\ UNCHANGED <<backend, conns, target, conn, answer>>
    BY <1>2, OtherWord DEF EndSetName, BeginSetName, Words
  <2> QED
    BY <2>1 DEF Words
<1>3. ASSUME NEW r \in Requests, Reuse(r) \/ Dial(r) \/ Fail(r) \/ Receive(r)
      PROVE  AnswerInv'
  <2>1. CASE Reuse(r)
    <3>1. PICK c \in conns : c.host = target[r] /\ conn' = [conn EXCEPT ![r] = c]
      BY <2>1 DEF Reuse
    <3>2. OwnConn(r)'
      BY <2>1, <3>1 DEF Reuse
    <3> QED
      BY <2>1, <3>1, <3>2 DEF Reuse
  <2>2. CASE Dial(r)
    BY <2>2 DEF Dial
  <2>3. CASE Fail(r)
    BY <2>3 DEF Fail
  <2>4. CASE Receive(r)
    BY <2>4 DEF Receive
  <2> QED
    BY <1>3, <2>1, <2>2, <2>3, <2>4
<1>4. ASSUME NEW r \in Requests, Handshake(r)
      PROVE  AnswerInv'
  <2>1. PICK c : /\ c.host = target[r]
                 /\ backend.tls => Accepts(c.host, c.name)
                 /\ conns' = conns \cup {c}
                 /\ conn' = [conn EXCEPT ![r] = c]
    BY <1>4 DEF Handshake
  <2>2. Verifies => c.name \in Certs[c.host]
    BY <2>1 DEF Accepts
  <2>3. c \in Conns
    BY <2>1, NextType
  <2>4. OwnConn(r)'
    BY <1>4, <2>1, <2>2, <2>3 DEF Handshake
  <2> QED
    BY <1>4, <2>1, <2>2, <2>4 DEF Handshake
<1>5. ASSUME NEW r \in Requests, BadGateway(r) \/ CopyResponse(r) \/ Return(r)
      PROVE  AnswerInv'
  <2>1. CASE BadGateway(r)
    BY <2>1 DEF BadGateway
  <2>2. CASE CopyResponse(r)
    BY <2>2 DEF CopyResponse
  <2>3. CASE Return(r)
    BY <2>3 DEF Return
  <2> QED
    BY <1>5, <2>1, <2>2, <2>3
<1>6. CASE CloseConn \/ UNCHANGED vars
  BY <1>6 DEF CloseConn, vars
<1> QED
  BY <1>1, <1>2, <1>3, <1>4, <1>5, <1>6 DEF Next, ServeHTTP, Do

\* Where certificates are verified and name one host each, the race over the
\* name costs answers but never mixes them up.
THEOREM AnswersComeFromTarget == Spec => []AnsweredByTarget
<1>1. Init => AnswerInv
  BY DEF Init, AnswerInv, NoAnswer
<1>2. TypeOK /\ AnswerInv => AnsweredByTarget
  BY DEF AnswerInv, AnsweredByTarget, OwnConn, Verifies, Conns, TypeOK
<1> QED
  BY <1>1, <1>2, AnswerInductive, TypeCorrect, PTL DEF Spec
=============================================================================
