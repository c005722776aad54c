------------------------- MODULE EdgeListenerProofs -------------------------
(***************************************************************************)
(* Theorems about EdgeListener, for all labels, sites, hosts and numbers   *)
(* of requests.                                                            *)
(***************************************************************************)
EXTENDS EdgeListener, HostTrieProofs

-----------------------------------------------------------------------------
(* Types.                                                                  *)

\* What AddSite's local variables are at each point of the attach loop.
WriterOK ==
  /\ <<>> \in DOMAIN trie
  /\ pc \in {"range", "ready"} => hostComponents = <<>>
  /\ pc \notin {"range", "ready"} => Reverse(hostComponents) \in sites \ todo
  /\ pc = "insert" => depth < Len(hostComponents)
  /\ pc = "set" => depth = Len(hostComponents)
  /\ pc = "ready" => todo = {}

TypeInv == TypeOK /\ WriterOK

LEMMA SiteIsHostName ==
  ASSUME TypeOK, NEW s \in sites
  PROVE  s \in Seq(Label) /\ s # <<>>
BY SitesAssumption DEF TypeOK, HostName

LEMMA InitTypeInv == Init => TypeInv
<1> SUFFICES ASSUME Init PROVE TypeInv
  OBVIOUS
<1>1. <<>> \in Seq(Label) /\ Len(<<>>) = 0
  BY EmptySeq
<1>2. DOMAIN trie = {<<>>} /\ trie[<<>>] = <<>>
  BY DEF Init, EmptyTrie, NoBackend
<1>3. IdleRequest \in RequestState
  BY <1>1 DEF IdleRequest, RequestState, NoBackend
<1>4. TypeOK
  BY <1>1, <1>2, <1>3 DEF Init, TypeOK, EmptyTrie, IdleRequest, NoBackend
<1>5. WriterOK
  BY <1>1, <1>2 DEF Init, WriterOK
<1> QED BY <1>4, <1>5 DEF TypeInv

\* The part of TypeOK about requests survives as long as the tree only grows.
LEMMA MainTypeInv == TypeInv /\ Main => TypeInv'
<1> SUFFICES ASSUME TypeInv, Main PROVE TypeInv'
  OBVIOUS
<1> USE DEF TypeInv
<1>0. UNCHANGED <<sites, alive, req>>
  BY DEF Main
<1>1. CASE \E host \in todo : NextSite(host)
  <2> PICK host \in todo : NextSite(host)
    BY <1>1
  <2>1. host \in sites /\ host \in Seq(Label)
    BY SiteIsHostName DEF TypeOK
  <2>2. hostComponents' \in Seq(Label) /\ Reverse(hostComponents') = host
    BY <2>1, ReverseProperties DEF NextSite, HostComponents
  <2>3. Len(hostComponents') \in Nat
    BY <2>2, LenProperties
  <2>4. TypeOK'
    BY <1>0, <2>2, <2>3 DEF NextSite, TypeOK
  <2>5. WriterOK'
    BY <1>0, <2>1, <2>2 DEF NextSite, WriterOK
  <2> QED BY <2>4, <2>5
<1>2. CASE Descend
  <2>1. Len(hostComponents) \in Nat
    BY LenProperties DEF TypeOK
  <2> QED BY <1>0, <1>2, <2>1 DEF Descend, TypeOK, WriterOK
<1>3. CASE BeginInsert
  BY <1>0, <1>3 DEF BeginInsert, TypeOK, WriterOK
<1>4. CASE EndInsert
  <2>1. depth \in 0..(Len(hostComponents) - 1) /\ Len(hostComponents) \in Nat
    BY <1>4, LenProperties DEF EndInsert, TypeOK, WriterOK
  <2>2. writer \in Seq(Label) /\ nextLabel \in Label
    BY <2>1, PrefixStep DEF TypeOK, writer, nextLabel
  <2>3. Append(writer, nextLabel) \in Seq(Label) /\ <<>> \in Seq(Label)
    BY <2>2, AppendProperties, EmptySeq
  <2>4. /\ DOMAIN trie' = DOMAIN trie \cup {Append(writer, nextLabel)}
        /\ DOMAIN trie' \subseteq Seq(Label)
        /\ trie' \in [DOMAIN trie' -> Seq(Label)]
    BY <1>4, <2>3 DEF EndInsert, AddSubtree, NoBackend, TypeOK
  <2>5. TypeOK'
    BY <1>0, <1>4, <2>1, <2>4 DEF EndInsert, TypeOK
  <2>6. WriterOK'
    BY <1>0, <1>4, <2>4 DEF EndInsert, WriterOK
  <2> QED BY <2>5, <2>6
<1>5. CASE BeginSetBackend
  BY <1>0, <1>5 DEF BeginSetBackend, TypeOK, WriterOK
<1>6. CASE EndSetBackend
  <2>1. Reverse(hostComponents) \in Seq(Label) /\ <<>> \in Seq(Label) /\ Len(<<>>) = 0
    BY ReverseProperties, EmptySeq DEF TypeOK
  <2>2. /\ DOMAIN trie' = DOMAIN trie
        /\ trie' \in [DOMAIN trie' -> Seq(Label)]
    BY <1>6, <2>1 DEF EndSetBackend, SetBackend, TypeOK
  <2>3. TypeOK'
    BY <1>0, <1>6, <2>1, <2>2 DEF EndSetBackend, TypeOK
  <2>4. WriterOK'
    BY <1>0, <1>6, <2>2 DEF EndSetBackend, WriterOK
  <2> QED BY <2>3, <2>4
<1>7. CASE StartupComplete
  BY <1>0, <1>7 DEF StartupComplete, TypeOK, WriterOK
<1> QED BY <1>1, <1>2, <1>3, <1>4, <1>5, <1>6, <1>7 DEF Main

\* What a request's next lookup reads.
LEMMA LookupType ==
  ASSUME TypeInv, NEW r \in Requests, LooksUp(r)
  PROVE  /\ req[r].i \in Nat /\ Len(req[r].host) \in Nat
         /\ req[r].i + 1 \in 1..Len(req[r].host)
         /\ req[r].host[req[r].i + 1] \in Label
         /\ Key(r) \in Label
<1>1. req[r] \in RequestState /\ req[r].i < Len(req[r].host)
  BY DEF TypeInv, TypeOK, LooksUp, AtComponent
<1>2. req[r].i \in Nat /\ req[r].host \in Seq(Label)
  BY <1>1 DEF RequestState
<1>3. Len(req[r].host) \in Nat
  BY <1>2, LenProperties
<1>4. req[r].i + 1 \in 1..Len(req[r].host)
  BY <1>1, <1>2, <1>3
<1>5. req[r].host[req[r].i + 1] \in Label
  BY <1>2, <1>4, ElementOfSeq
<1> QED BY <1>2, <1>3, <1>4, <1>5, LabelAssumption DEF Key

\* A request step that only replaces one request keeps TypeInv if the new
\* request has its type.
LEMMA OneRequestTypeInv ==
  ASSUME TypeInv, NEW r \in Requests, NEW q,
         req' = [req EXCEPT ![r] = q],
         UNCHANGED <<sites, mainVars, alive>>,
         q \in RequestState, q.currentMatcher \in DOMAIN trie,
         q.i <= Len(q.host), q.st = "wildcard" => q.i < Len(q.host)
  PROVE  TypeInv'
<1>1. UNCHANGED <<sites, todo, pc, hostComponents, depth, trie, alive>>
  BY DEF mainVars
<1>2. req' \in [Requests -> RequestState]
  BY DEF TypeInv, TypeOK
<1>3. \A s \in Requests : req'[s] = IF s = r THEN q ELSE req[s]
  BY DEF TypeInv, TypeOK
<1>4. \A s \in Requests : /\ req'[s].currentMatcher \in DOMAIN trie'
                         /\ req'[s].i <= Len(req'[s].host)
                         /\ req'[s].st = "wildcard" => req'[s].i < Len(req'[s].host)
  BY <1>1, <1>3 DEF TypeInv, TypeOK
<1>5. TypeOK'
  BY <1>1, <1>2, <1>4 DEF TypeInv, TypeOK
<1>6. WriterOK'
  BY <1>1 DEF TypeInv, WriterOK
<1> QED BY <1>5, <1>6 DEF TypeInv

LEMMA HandleTypeInv == ASSUME TypeInv, NEW r \in Requests, Handle(r) PROVE TypeInv'
<1>0. /\ UNCHANGED <<sites, mainVars, alive>>
      /\ req \in [Requests -> RequestState] /\ req[r] \in RequestState
      /\ req[r].currentMatcher \in DOMAIN trie
      /\ req[r].i <= Len(req[r].host)
      /\ req[r].st = "wildcard" => req[r].i < Len(req[r].host)
  BY DEF Handle, TypeInv, TypeOK
<1>t. req[r].raced \/ HasKey(r) \in BOOLEAN
  BY <1>0 DEF RequestState, HasKey, Found
<1>1. CASE Hit(r)
  <2> DEFINE n == req[r].i + 1
             q == [req[r] EXCEPT !.st = "exact",
                                 !.currentMatcher = Append(@, Key(r)),
                                 !.wasWildCard = (req[r].st = "wildcard"),
                                 !.i = n]
  <2>1. LooksUp(r) /\ HasKey(r) /\ req' = [req EXCEPT ![r] = q]
    BY <1>0, <1>1 DEF Hit
  <2>2. Append(req[r].currentMatcher, Key(r)) \in Seq(Label) \cap DOMAIN trie
    BY <1>0, <2>1 DEF HasKey, Found, TypeInv, TypeOK
  <2>n. n \in Nat /\ n <= Len(req[r].host)
    BY <2>1, LookupType
  <2> HIDE DEF n
  <2>3. q \in RequestState /\ q.currentMatcher \in DOMAIN trie
    BY <1>0, <2>2, <2>n DEF RequestState
  <2>4. q.i <= Len(q.host) /\ q.st = "exact"
    BY <1>0, <2>n DEF RequestState
  <2> HIDE DEF q
  <2> QED BY <1>0, <2>1, <2>3, <2>4, OneRequestTypeInv
<1>2. CASE TryWildcard(r)
  <2> DEFINE q == [req[r] EXCEPT !.st = "wildcard", !.raced = @ \/ HasKey(r)]
  <2>1. LooksUp(r) /\ req' = [req EXCEPT ![r] = q]
    BY <1>0, <1>2 DEF TryWildcard, LooksUp
  <2>2. q \in RequestState /\ q.currentMatcher \in DOMAIN trie
    BY <1>0, <1>t DEF RequestState
  <2>3. q.i < Len(q.host) /\ q.i <= Len(q.host)
    BY <1>0, <2>1, LookupType DEF RequestState
  <2> HIDE DEF q
  <2> QED BY <1>0, <2>1, <2>2, <2>3, OneRequestTypeInv
<1>3. CASE SkipComponent(r)
  <2> DEFINE n == req[r].i + 1
             q == [req[r] EXCEPT !.st = "exact", !.i = n, !.raced = @ \/ HasKey(r)]
  <2>1. LooksUp(r) /\ req' = [req EXCEPT ![r] = q]
    BY <1>0, <1>3 DEF SkipComponent, LooksUp
  <2>n. n \in Nat /\ n <= Len(req[r].host)
    BY <2>1, LookupType
  <2> HIDE DEF n
  <2>2. q \in RequestState /\ q.currentMatcher \in DOMAIN trie
    BY <1>0, <1>t, <2>n DEF RequestState
  <2>3. q.i <= Len(q.host) /\ q.st = "exact"
    BY <1>0, <2>n DEF RequestState
  <2> HIDE DEF q
  <2> QED BY <1>0, <2>1, <2>2, <2>3, OneRequestTypeInv
<1>4. CASE Stop(r)
  <2> DEFINE q == [req[r] EXCEPT !.st = "return", !.raced = @ \/ HasKey(r)]
  <2>1. req' = [req EXCEPT ![r] = q]
    BY <1>0, <1>4 DEF Stop
  <2>2. /\ q \in RequestState /\ q.currentMatcher \in DOMAIN trie
        /\ q.i <= Len(q.host) /\ q.st = "return"
    BY <1>0, <1>t DEF RequestState
  <2> HIDE DEF q
  <2> QED BY <1>0, <2>1, <2>2, OneRequestTypeInv
<1>5. CASE Return(r)
  <2> DEFINE b == trie[req[r].currentMatcher]
             q == [req[r] EXCEPT !.backend = b,
                     !.st = IF b = NoBackend THEN "badGateway" ELSE "dispatched"]
  <2>1. req' = [req EXCEPT ![r] = q]
    BY <1>0, <1>5 DEF Return
  <2>2. b \in Seq(Label)
    BY <1>0 DEF TypeInv, TypeOK
  <2>3. /\ q \in RequestState /\ q.currentMatcher \in DOMAIN trie
        /\ q.i <= Len(q.host) /\ q.st # "wildcard"
    BY <1>0, <2>2 DEF RequestState
  <2> HIDE DEF q
  <2> QED BY <1>0, <2>1, <2>3, OneRequestTypeInv
<1>6. CASE Panic(r)
  <2> DEFINE q == [req[r] EXCEPT !.st = "aborted"]
  <2>1. req' = [req EXCEPT ![r] = q]
    BY <1>0, <1>6 DEF Panic
  <2>2. /\ q \in RequestState /\ q.currentMatcher \in DOMAIN trie
        /\ q.i <= Len(q.host) /\ q.st # "wildcard"
    BY <1>0 DEF RequestState
  <2> HIDE DEF q
  <2> QED BY <1>0, <2>1, <2>2, OneRequestTypeInv
<1> QED BY <1>1, <1>2, <1>3, <1>4, <1>5, <1>6 DEF Handle

LEMMA ClientTypeInv == ASSUME TypeInv, NEW r \in Requests, Client(r) PROVE TypeInv'
<1>0. /\ UNCHANGED <<sites, mainVars, alive>>
      /\ req \in [Requests -> RequestState] /\ req[r] \in RequestState
      /\ req[r].currentMatcher \in DOMAIN trie
  BY DEF Client, TypeInv, TypeOK
<1>3. <<>> \in Seq(Label) /\ Len(<<>>) = 0 /\ <<>> \in DOMAIN trie
      /\ IdleRequest \in RequestState
  BY EmptySeq DEF TypeInv, WriterOK, IdleRequest, RequestState, NoBackend
<1>1. ASSUME NEW host \in Hosts, Accept(r, host) PROVE TypeInv'
  <2> DEFINE all == Attached = sites
             own == host \in Attached
             q == [IdleRequest EXCEPT !.st = "exact", !.host = HostComponents(host),
                                      !.settled = all, !.attachedOwn = own]
  <2>1. req' = [req EXCEPT ![r] = q]
    BY <1>1 DEF Accept
  <2>2. HostComponents(host) \in Seq(Label) /\ Len(HostComponents(host)) \in Nat
    BY HostsAssumption, ReverseProperties, LenProperties DEF HostName, HostComponents
  <2>3. all \in BOOLEAN /\ own \in BOOLEAN
    OBVIOUS
  <2> HIDE DEF all, own
  <2>4. q \in RequestState
    BY <1>3, <2>2, <2>3 DEF RequestState
  <2>5. q.currentMatcher = <<>> /\ q.i = 0 /\ q.st = "exact" /\ q.host = HostComponents(host)
    BY DEF IdleRequest
  <2>6. q.i <= Len(q.host)
    BY <2>2, <2>5
  <2> HIDE DEF q
  <2> QED BY <1>0, <1>3, <2>1, <2>4, <2>5, <2>6, OneRequestTypeInv
<1>2. ASSUME Finish(r) PROVE TypeInv'
  <2>1. req' = [req EXCEPT ![r] = IdleRequest]
    BY <1>2 DEF Finish
  <2>3. /\ IdleRequest \in RequestState /\ IdleRequest.currentMatcher \in DOMAIN trie
        /\ IdleRequest.i <= Len(IdleRequest.host) /\ IdleRequest.st # "wildcard"
    BY <1>3 DEF IdleRequest
  <2> QED BY <1>0, <2>1, <2>3, OneRequestTypeInv
<1> QED BY <1>1, <1>2 DEF Client

LEMMA TypeInvStep == TypeInv /\ [Next]_vars => TypeInv'
<1> SUFFICES ASSUME TypeInv, [Next]_vars PROVE TypeInv'
  OBVIOUS
<1>1. CASE Main
  BY <1>1, MainTypeInv
<1>2. ASSUME NEW r \in Requests, Handle(r) PROVE TypeInv'
  BY <1>2, HandleTypeInv
<1>3. ASSUME NEW r \in Requests, Client(r) PROVE TypeInv'
  BY <1>3, ClientTypeInv
<1>4. ASSUME NEW r \in Requests, FatalError(r) PROVE TypeInv'
  BY <1>4 DEF FatalError, mainVars, TypeInv, TypeOK, WriterOK
<1>5. CASE UNCHANGED vars
  BY <1>5 DEF vars, mainVars, TypeInv, TypeOK, WriterOK
<1> QED BY <1>1, <1>2, <1>3, <1>4, <1>5 DEF Next, Dead

\* Every variable keeps its type: AddSite never leaves its domain names behind,
\* and no request walks past the end of its host or off the tree.
THEOREM TypeCorrect == Spec => []TypeOK
<1>1. TypeInv => TypeOK
  BY DEF TypeInv
<1> QED BY InitTypeInv, TypeInvStep, <1>1, PTL DEF Spec

\* TypeOK with what is known of the main goroutine: the rest builds on it.
THEOREM TypeInvHolds == Spec => []TypeInv
BY InitTypeInv, TypeInvStep, PTL DEF Spec
-----------------------------------------------------------------------------
(* The tree.                                                               *)

\* Where AddSite stands, and one step further.
LEMMA WriterProperties ==
  ASSUME TypeInv
  PROVE  /\ writer \in Seq(Label)
         /\ depth = 0 => writer = <<>>
         /\ depth = Len(hostComponents) => writer = hostComponents
         /\ depth < Len(hostComponents) =>
              /\ Append(writer, nextLabel) \in Seq(Label)
              /\ SubSeq(hostComponents, 1, depth + 1) = Append(writer, nextLabel)
              /\ Prefixes(Append(writer, nextLabel)) =
                   Prefixes(writer) \cup {Append(writer, nextLabel)}
<1>1. hostComponents \in Seq(Label) /\ depth \in 0..Len(hostComponents)
      /\ Len(hostComponents) \in Nat
  BY LenProperties DEF TypeInv, TypeOK
<1>2. writer \in Seq(Label)
  BY <1>1, PrefixesOfPrefix DEF writer
<1>3. /\ depth = 0 => writer = <<>>
      /\ depth = Len(hostComponents) => writer = hostComponents
  BY <1>1, PrefixesProperties DEF writer
<1>4. ASSUME depth < Len(hostComponents)
      PROVE  /\ Append(writer, nextLabel) \in Seq(Label)
             /\ SubSeq(hostComponents, 1, depth + 1) = Append(writer, nextLabel)
             /\ Prefixes(Append(writer, nextLabel)) =
                  Prefixes(writer) \cup {Append(writer, nextLabel)}
  <2>1. depth \in 0..(Len(hostComponents) - 1)
    BY <1>1, <1>4
  <2>2. /\ nextLabel \in Label
        /\ SubSeq(hostComponents, 1, depth + 1) = Append(writer, nextLabel)
    BY <1>1, <2>1, PrefixStep DEF writer, nextLabel
  <2>3. Append(writer, nextLabel) \in Seq(Label)
    BY <1>2, <2>2, AppendProperties
  <2>4. Prefixes(SubSeq(hostComponents, 1, depth + 1)) =
          Prefixes(writer) \cup {SubSeq(hostComponents, 1, depth + 1)}
    BY <1>1, <2>1, PrefixesProperties DEF writer
  <2> QED BY <2>2, <2>3, <2>4
<1> QED BY <1>2, <1>3, <1>4

LEMMA InitTrieMatches == Init => TrieMatchesAttached
<1> SUFFICES ASSUME Init PROVE TrieMatchesAttached
  OBVIOUS
<1>1. Attached = {} /\ DOMAIN trie = {<<>>} /\ trie[<<>>] = NoBackend
  BY DEF Init, Attached, EmptyTrie
<1>2. <<>> \in Seq(Label) /\ writer = <<>> /\ Prefixes(<<>>) = {<<>>}
  BY EmptySeq, PrefixesProperties DEF Init, writer
<1> QED BY <1>1, <1>2 DEF TrieMatchesAttached, NodesOf

LEMMA MainTrieMatches ==
  ASSUME TypeInv, TrieMatchesAttached, Main
  PROVE  TrieMatchesAttached'
<1> USE DEF TrieMatchesAttached
<1>0. /\ sites' = sites
      /\ \A s \in sites : s \in Seq(Label) /\ s # <<>>
      /\ todo \subseteq sites /\ hostComponents \in Seq(Label)
      /\ depth \in 0..Len(hostComponents) /\ DOMAIN trie \subseteq Seq(Label)
  BY SiteIsHostName DEF Main, TypeInv, TypeOK
<1>e. Reverse(<<>>) = <<>> /\ Len(<<>>) = 0
  BY DEF Reverse
<1>w. SubSeq(<<>>, 1, 0) = <<>> /\ Prefixes(<<>>) = {<<>>}
  BY EmptySeq, PrefixesProperties
<1>1. CASE \E host \in todo : NextSite(host)
  <2> PICK host \in todo : NextSite(host)
    BY <1>1
  <2>1. hostComponents = <<>> /\ depth = 0 /\ writer = <<>>
    BY <1>0, <1>e, WriterProperties DEF NextSite, TypeInv, WriterOK
  <2>2. hostComponents' \in Seq(Label) /\ Reverse(hostComponents') = host
    BY <1>0, ReverseProperties DEF NextSite, HostComponents
  <2>3. Attached' = Attached
    BY <1>0, <1>e, <2>1, <2>2 DEF Attached, NextSite
  <2>4. writer' = <<>>
    BY <2>2, PrefixesProperties DEF NextSite, writer
  <2> QED BY <2>1, <2>3, <2>4 DEF NextSite
<1>2. CASE Descend
  <2>1. writer' = Append(writer, nextLabel) /\ writer' \in DOMAIN trie
        /\ Prefixes(writer') = Prefixes(writer) \cup {writer'}
    BY <1>2, WriterProperties DEF Descend, Found, writer
  <2>2. Attached' = Attached /\ trie' = trie
    BY <1>0, <1>2 DEF Attached, Descend
  <2> QED BY <2>1, <2>2
<1>3. CASE BeginInsert
  BY <1>0, <1>3 DEF BeginInsert, Attached, writer
<1>4. CASE EndInsert
  <2> DEFINE new == Append(writer, nextLabel)
  <2>0. depth < Len(hostComponents)
    BY <1>4 DEF EndInsert, TypeInv, WriterOK
  <2>1. writer' = new /\ Prefixes(new) = Prefixes(writer) \cup {new} /\ new \in Seq(Label)
    BY <1>4, <2>0, WriterProperties DEF EndInsert, writer
  <2>2. Attached' = Attached
    BY <1>0, <1>4 DEF Attached, EndInsert
  <2>3. DOMAIN trie' = DOMAIN trie \cup {new}
    BY <1>4 DEF EndInsert, AddSubtree
  <2>4. \A n \in DOMAIN trie' : trie'[n] = IF n \in DOMAIN trie THEN trie[n] ELSE NoBackend
    BY <1>4 DEF EndInsert, AddSubtree
  <2>5. new \notin DOMAIN trie => Reverse(new) \notin Attached
    BY <2>1, NodeOfSite
  <2> HIDE DEF new
  <2>6. DOMAIN trie' = NodesOf(Attached') \cup Prefixes(writer')
    BY <2>1, <2>2, <2>3
  <2>7. \A n \in DOMAIN trie' :
          trie'[n] = IF Reverse(n) \in Attached' THEN Reverse(n) ELSE NoBackend
    BY <2>2, <2>3, <2>4, <2>5
  <2> QED BY <2>6, <2>7
<1>5. CASE BeginSetBackend
  BY <1>0, <1>5 DEF BeginSetBackend, Attached, writer
<1>6. CASE EndSetBackend
  <2> DEFINE site == Reverse(hostComponents)
  <2>1. writer = hostComponents /\ site \in sites \ todo
    BY <1>6, WriterProperties DEF EndSetBackend, TypeInv, WriterOK
  <2>2. HostComponents(site) = hostComponents
    BY <1>0, ReverseProperties DEF HostComponents
  <2>3. Attached' = Attached \cup {site}
    BY <1>0, <1>6, <1>e, <2>1 DEF Attached, EndSetBackend
  <2>4. writer' = <<>>
    BY <1>6, <1>w DEF EndSetBackend, writer
  <2>5. NodesOf(Attached') = NodesOf(Attached) \cup Prefixes(writer)
    BY <2>1, <2>2, <2>3, NodesOfUnion
  <2>6. DOMAIN trie' = DOMAIN trie
    BY <1>6 DEF EndSetBackend, SetBackend
  <2>7. writer \in DOMAIN trie
    BY <1>0, <2>1, PrefixesProperties
  <2>8. \A n \in DOMAIN trie : trie'[n] = IF n = hostComponents THEN site ELSE trie[n]
    BY <1>6, <2>1, <2>7 DEF EndSetBackend, SetBackend
  <2>9. \A n \in DOMAIN trie : Reverse(n) = site => n = hostComponents
    BY <1>0, <2>2, ReverseProperties DEF HostComponents
  <2> HIDE DEF site
  <2>10. DOMAIN trie' = NodesOf(Attached') \cup Prefixes(writer')
    BY <1>w, <2>4, <2>5, <2>6 DEF NodesOf
  <2>11. \A n \in DOMAIN trie' :
          trie'[n] = IF Reverse(n) \in Attached' THEN Reverse(n) ELSE NoBackend
    BY <2>3, <2>6, <2>8, <2>9 DEF site
  <2> QED BY <2>10, <2>11
<1>7. CASE StartupComplete
  BY <1>0, <1>7 DEF StartupComplete, Attached, writer
<1> QED BY <1>1, <1>2, <1>3, <1>4, <1>5, <1>6, <1>7 DEF Main

LEMMA TrieMatchesStep ==
  TypeInv /\ TrieMatchesAttached /\ [Next]_vars => TrieMatchesAttached'
<1> SUFFICES ASSUME TypeInv, TrieMatchesAttached, [Next]_vars
             PROVE  TrieMatchesAttached'
  OBVIOUS
<1>1. CASE Main
  BY <1>1, MainTrieMatches
<1>2. CASE UNCHANGED <<sites, mainVars>>
  BY <1>2 DEF mainVars, TrieMatchesAttached, Attached, writer
<1> QED BY <1>1, <1>2 DEF Next, Handle, Client, FatalError, Dead, vars

\* At every moment of the startup the tree is the one that the attached sites
\* determine, plus the way to the current one: the order in which Go ranges
\* over the sites leaves no trace.
THEOREM TrieCorrect == Spec => []TrieMatchesAttached
BY InitTrieMatches, TypeInvHolds, TrieMatchesStep, PTL DEF Spec

\* AddSite never finds a backend where it puts its own, so that its warning is
\* indeed never logged for the sites Server has checked.
THEOREM NeverOverridden == Spec => []NoOverride
<1>1. ASSUME TypeInv, TrieMatchesAttached PROVE NoOverride
  <2> SUFFICES ASSUME pc = "set" PROVE trie[writer] = NoBackend
    BY DEF NoOverride
  <2>1. writer = hostComponents /\ hostComponents \in Seq(Label)
    BY <1>1, WriterProperties DEF TypeInv, TypeOK, WriterOK
  <2>2. writer \in DOMAIN trie
    BY <1>1, <2>1, PrefixesProperties DEF TrieMatchesAttached
  <2>3. Reverse(writer) \notin Attached
    BY <2>1 DEF Attached
  <2> QED BY <1>1, <2>2, <2>3 DEF TrieMatchesAttached
<1> QED BY <1>1, TypeInvHolds, TrieCorrect, PTL
-----------------------------------------------------------------------------
(* A request for an attached host.                                         *)

\* AddSite only inserts matchers that are not there.
InsertsNew == pc = "insert" => ~Found(trie, writer, nextLabel)

\* A request that found its own site attached walks that site's path, as long
\* as no lookup misses a key that is there.
OwnPath(r) ==
  req[r].attachedOwn /\ ~req[r].raced =>
    /\ Reverse(req[r].host) \in Attached
    /\ req[r].st \in {"exact", "dispatched"}
    /\ req[r].currentMatcher = SubSeq(req[r].host, 1, req[r].i)
    /\ req[r].st = "dispatched" => req[r].backend = Reverse(req[r].host)

OwnInv == InsertsNew /\ \A r \in Requests : OwnPath(r)
TrieInv == TypeInv /\ TrieMatchesAttached

LEMMA TrieInvHolds == Spec => []TrieInv
BY TypeInvHolds, TrieCorrect, PTL DEF TrieInv

LEMMA AttachedGrows == TypeInv /\ Main => Attached \subseteq Attached'
<1> SUFFICES ASSUME TypeInv, Main PROVE Attached \subseteq Attached'
  OBVIOUS
<1>0. /\ sites' = sites
      /\ \A s \in sites : s \in Seq(Label) /\ s # <<>>
      /\ Reverse(<<>>) = <<>>
  BY SiteIsHostName DEF Main, TypeInv, Reverse
<1>1. CASE \E host \in todo : NextSite(host)
  <2> PICK host \in todo : NextSite(host)
    BY <1>1
  <2>1. host \in Seq(Label) /\ Reverse(hostComponents') = host
    BY <1>0, ReverseProperties DEF NextSite, HostComponents, TypeInv, TypeOK
  <2> QED BY <1>0, <2>1 DEF Attached, NextSite
<1>2. CASE EndSetBackend
  BY <1>0, <1>2 DEF Attached, EndSetBackend
<1> QED BY <1>0, <1>1, <1>2
        DEF Main, Descend, BeginInsert, EndInsert, BeginSetBackend, StartupComplete, Attached

LEMMA InsertsNewStep == TypeInv /\ InsertsNew /\ [Next]_vars => InsertsNew'
<1> SUFFICES ASSUME TypeInv, InsertsNew, [Next]_vars PROVE InsertsNew'
  OBVIOUS
<1>1. CASE UNCHANGED mainVars
  BY <1>1 DEF mainVars, InsertsNew, writer, nextLabel
<1>2. CASE Main
  BY <1>2 DEF Main, NextSite, Descend, BeginInsert, EndInsert, BeginSetBackend,
              EndSetBackend, StartupComplete, InsertsNew, writer, nextLabel
<1> QED BY <1>1, <1>2 DEF Next, Handle, Client, FatalError, Dead, vars

\* Only the request that moves needs attention.
LEMMA OwnPathOthers ==
  ASSUME TypeInv, NEW r \in Requests, NEW q, NEW s \in Requests, s # r, OwnPath(s),
         req' = [req EXCEPT ![r] = q], UNCHANGED <<sites, mainVars>>
  PROVE  OwnPath(s)'
<1>1. req'[s] = req[s] /\ Attached' = Attached
  BY DEF TypeInv, TypeOK, mainVars, Attached
<1> QED BY <1>1 DEF OwnPath

\* A step of matchSite keeps what was true on arrival and never unmarks a race.
LEMMA HandleHistory ==
  ASSUME TypeInv, NEW r \in Requests, Handle(r)
  PROVE  /\ req'[r].attachedOwn = req[r].attachedOwn
         /\ req[r].raced => req'[r].raced
<1>0. req \in [Requests -> RequestState] /\ req[r] \in RequestState
  BY DEF TypeInv, TypeOK
<1>1. CASE Hit(r)
  BY <1>0, <1>1 DEF Hit, RequestState
<1>2. CASE TryWildcard(r)
  BY <1>0, <1>2 DEF TryWildcard, RequestState
<1>3. CASE SkipComponent(r)
  BY <1>0, <1>3 DEF SkipComponent, RequestState
<1>4. CASE Stop(r)
  BY <1>0, <1>4 DEF Stop, RequestState
<1>5. CASE Return(r)
  BY <1>0, <1>5 DEF Return, RequestState
<1>6. CASE Panic(r)
  BY <1>0, <1>6 DEF Panic, RequestState
<1> QED BY <1>1, <1>2, <1>3, <1>4, <1>5, <1>6 DEF Handle

LEMMA HandleOwnPath ==
  ASSUME TrieInv, InsertsNew, NEW r \in Requests, Handle(r), OwnPath(r)
  PROVE  OwnPath(r)'
<1>0. /\ Attached' = Attached
      /\ req \in [Requests -> RequestState] /\ req[r] \in RequestState
      /\ req[r].host \in Seq(Label) /\ Len(req[r].host) \in Nat
      /\ req[r].i \in 0..Len(req[r].host)
  BY LenProperties DEF Handle, TrieInv, TypeInv, TypeOK, RequestState, mainVars, Attached
<1> SUFFICES ASSUME req'[r].attachedOwn, ~req'[r].raced PROVE OwnPath(r)'
  BY DEF OwnPath
<1> DEFINE host == req[r].host
           i == req[r].i
<1>1. req[r].attachedOwn /\ ~req[r].raced
  BY HandleHistory DEF TrieInv
<1>2. /\ Reverse(host) \in Attached
      /\ req[r].st \in {"exact", "dispatched"}
      /\ req[r].currentMatcher = SubSeq(host, 1, i)
  BY <1>1 DEF OwnPath
<1>3. \A k \in 0..Len(host) : SubSeq(host, 1, k) \in DOMAIN trie
  <2>1. HostComponents(Reverse(host)) = host
    BY <1>0, ReverseProperties DEF HostComponents
  <2>2. Prefixes(host) \subseteq DOMAIN trie
    BY <1>2, <2>1 DEF TrieInv, TrieMatchesAttached, NodesOf
  <2> QED BY <2>2 DEF Prefixes
<1>4. AtComponent(r) => /\ Key(r) = host[i + 1]
                        /\ SubSeq(host, 1, i + 1) = Append(SubSeq(host, 1, i), host[i + 1])
                        /\ HasKey(r)
  <2> SUFFICES ASSUME AtComponent(r)
               PROVE  /\ Key(r) = host[i + 1]
                      /\ SubSeq(host, 1, i + 1) = Append(SubSeq(host, 1, i), host[i + 1])
                      /\ HasKey(r)
    OBVIOUS
  <2>1. i \in 0..(Len(host) - 1) /\ i + 1 \in 0..Len(host) /\ Key(r) = host[i + 1]
    BY <1>0 DEF AtComponent, Key
  <2>2. SubSeq(host, 1, i + 1) = Append(SubSeq(host, 1, i), host[i + 1])
    BY <1>0, <2>1, PrefixStep
  <2>3. HasKey(r)
    BY <1>2, <1>3, <2>1, <2>2 DEF HasKey, Found
  <2> QED BY <2>1, <2>2, <2>3
<1>5. CASE Hit(r)
  <2>1. AtComponent(r)
    BY <1>2, <1>5 DEF Hit, LooksUp
  <2>2. /\ req'[r].st = "exact" /\ req'[r].host = host /\ req'[r].i = i + 1
        /\ req'[r].currentMatcher = Append(req[r].currentMatcher, Key(r))
    BY <1>0, <1>5 DEF Hit, RequestState
  <2> QED BY <1>0, <1>2, <1>4, <2>1, <2>2 DEF OwnPath
<1>6. ~TryWildcard(r)
  <2>1. TryWildcard(r) => AtComponent(r) /\ (req'[r].raced <=> req[r].raced \/ HasKey(r))
    BY <1>0 DEF TryWildcard, RequestState
  <2> QED BY <1>4, <2>1
<1>7. ~SkipComponent(r) /\ ~Stop(r)
  BY <1>2 DEF SkipComponent, Stop
<1>8. AtReturn(r) => req[r].currentMatcher = host
  BY <1>0, <1>2, SubSeqFull DEF AtReturn
<1>9. CASE Return(r)
  <2>1. trie[host] = Reverse(host) /\ Reverse(host) # NoBackend
    <3>1. host \in DOMAIN trie
      <4>1. Len(host) \in 0..Len(host) /\ SubSeq(host, 1, Len(host)) = host
        BY <1>0, SubSeqFull
      <4> QED BY <1>3, <4>1
    <3>2. Reverse(host) \in sites
      BY <1>2 DEF Attached
    <3> QED BY <1>2, <3>1, <3>2, SiteIsHostName
            DEF TrieInv, TypeInv, TrieMatchesAttached, NoBackend
  <2>2. /\ req'[r].st = "dispatched" /\ req'[r].backend = trie[host]
        /\ req'[r].host = host /\ req'[r].i = i
        /\ req'[r].currentMatcher = req[r].currentMatcher
    BY <1>0, <1>8, <1>9, <2>1 DEF Return, RequestState
  <2> QED BY <1>0, <1>2, <2>1, <2>2 DEF OwnPath
<1>10. ~Panic(r)
  <2>1. ~(RacesInsert(r) /\ Key(r) = nextLabel)
    BY <1>2, <1>4 DEF RacesInsert, LooksUp, HasKey, InsertsNew
  <2>2. ~(pc = "set" /\ AtReturn(r) /\ req[r].currentMatcher = writer)
    <3> SUFFICES ASSUME pc = "set", AtReturn(r), req[r].currentMatcher = writer PROVE FALSE
      OBVIOUS
    <3>1. writer = hostComponents
      BY WriterProperties DEF TrieInv, TypeInv, WriterOK
    <3>2. Reverse(hostComponents) \in Attached
      BY <1>2, <1>8, <3>1
    <3> QED BY <3>2 DEF Attached
  <2> QED BY <2>1, <2>2 DEF Panic
<1> QED BY <1>5, <1>6, <1>7, <1>9, <1>10 DEF Handle

LEMMA ClientOwnPath ==
  ASSUME TrieInv, NEW r \in Requests, Client(r)
  PROVE  OwnPath(r)'
<1>0. /\ Attached' = Attached
      /\ req \in [Requests -> RequestState]
  BY DEF Client, TrieInv, TypeInv, TypeOK, mainVars, Attached
<1>1. ASSUME NEW host \in Hosts, Accept(r, host) PROVE OwnPath(r)'
  <2>1. /\ req'[r].attachedOwn = (host \in Attached) /\ req'[r].st = "exact"
        /\ req'[r].host = HostComponents(host) /\ req'[r].i = 0
        /\ req'[r].currentMatcher = <<>>
    BY <1>0, <1>1 DEF Accept, IdleRequest
  <2>2. /\ HostComponents(host) \in Seq(Label) /\ Reverse(HostComponents(host)) = host
    BY HostsAssumption, ReverseProperties DEF HostName, HostComponents
  <2>3. SubSeq(HostComponents(host), 1, 0) = <<>>
    BY <2>2, PrefixesProperties
  <2> QED BY <1>0, <2>1, <2>2, <2>3 DEF OwnPath
<1>2. ASSUME Finish(r) PROVE OwnPath(r)'
  <2>1. ~req'[r].attachedOwn
    BY <1>0, <1>2 DEF Finish, IdleRequest
  <2> QED BY <2>1 DEF OwnPath
<1> QED BY <1>1, <1>2 DEF Client

LEMMA OwnInvStep == TrieInv /\ OwnInv /\ [Next]_vars => OwnInv'
<1> SUFFICES ASSUME TrieInv, OwnInv, [Next]_vars PROVE OwnInv'
  OBVIOUS
<1>0. InsertsNew'
  BY InsertsNewStep DEF TrieInv, OwnInv
<1>1. CASE Main
  <2>1. req' = req /\ Attached \subseteq Attached'
    BY <1>1, AttachedGrows DEF Main, TrieInv
  <2> QED BY <1>0, <2>1 DEF OwnInv, OwnPath
<1>2. ASSUME NEW r \in Requests, Handle(r) PROVE OwnInv'
  <2>1. PICK q : req' = [req EXCEPT ![r] = q]
    BY <1>2 DEF Handle, Hit, TryWildcard, SkipComponent, Stop, Return, Panic, TrieInv, TypeInv, TypeOK
  <2>2. UNCHANGED <<sites, mainVars>>
    BY <1>2 DEF Handle
  <2>3. \A s \in Requests \ {r} : OwnPath(s)'
    BY <2>1, <2>2, OwnPathOthers DEF OwnInv, TrieInv
  <2>4. OwnPath(r)'
    BY <1>2, HandleOwnPath DEF OwnInv
  <2> QED BY <1>0, <2>3, <2>4 DEF OwnInv
<1>3. ASSUME NEW r \in Requests, Client(r) PROVE OwnInv'
  <2>1. PICK q : req' = [req EXCEPT ![r] = q]
    BY <1>3 DEF Client, Accept, Finish
  <2>2. UNCHANGED <<sites, mainVars>>
    BY <1>3 DEF Client
  <2>3. \A s \in Requests \ {r} : OwnPath(s)'
    BY <2>1, <2>2, OwnPathOthers DEF OwnInv, TrieInv
  <2>4. OwnPath(r)'
    BY <1>3, ClientOwnPath
  <2> QED BY <1>0, <2>3, <2>4 DEF OwnInv
<1>4. CASE UNCHANGED <<sites, mainVars, req>>
  BY <1>0, <1>4 DEF OwnInv, OwnPath, Attached, mainVars
<1> QED BY <1>1, <1>2, <1>3, <1>4 DEF Next, FatalError, Dead, vars

\* A request for a host whose own site is attached when it arrives is served by
\* that site, whatever is attached meanwhile, unless the runtime hides a key
\* from it.
THEOREM AttachedHostIsServed == Spec => []AttachedHostWins
<1>1. Init => OwnInv
  BY DEF Init, OwnInv, InsertsNew, OwnPath, IdleRequest
<1>2. OwnInv => AttachedHostWins
  BY DEF OwnInv, OwnPath, AttachedHostWins
<1> QED BY <1>1, <1>2, OwnInvStep, TrieInvHolds, PTL DEF Spec
-----------------------------------------------------------------------------
(* Every request.                                                          *)

\* Where a cursor stands after k components: its labels stand for some of
\* them, the last one for the last of them unless it is a wildcard.
CursorStands(node, components, k, wild) ==
  \E pos \in [1..Len(node) -> 1..k] :
    /\ StandsFor(node, components, pos)
    /\ wild => Len(node) > 0 /\ node[Len(node)] = Wildcard
    /\ ~wild /\ Len(node) > 0 => pos[Len(node)] = k
    /\ ~wild /\ Len(node) = 0 => k = 0

\* Behind a wildcard, components are passed over.
LEMMA CursorSkips ==
  ASSUME NEW node \in Seq(Label), NEW components, NEW k \in Nat,
         CursorStands(node, components, k, TRUE)
  PROVE  CursorStands(node, components, k + 1, TRUE)
<1>1. PICK pos \in [1..Len(node) -> 1..k] :
        /\ StandsFor(node, components, pos)
        /\ Len(node) > 0 /\ node[Len(node)] = Wildcard
  BY DEF CursorStands
<1>2. pos \in [1..Len(node) -> 1..(k + 1)]
  OBVIOUS
<1> QED BY <1>1, <1>2 DEF CursorStands

\* A match takes the cursor one label down and one component on.
LEMMA CursorAdvances ==
  ASSUME NEW node \in Seq(Label), NEW components, NEW k \in Nat,
         NEW wild \in BOOLEAN, NEW label \in Label, NEW wild2 \in BOOLEAN,
         CursorStands(node, components, k, wild),
         IF wild2 THEN label = Wildcard ELSE label = components[k + 1]
  PROVE  CursorStands(Append(node, label), components, k + 1, wild2)
<1>1. PICK pos \in [1..Len(node) -> 1..k] :
        /\ StandsFor(node, components, pos)
        /\ wild => Len(node) > 0 /\ node[Len(node)] = Wildcard
        /\ ~wild /\ Len(node) > 0 => pos[Len(node)] = k
        /\ ~wild /\ Len(node) = 0 => k = 0
  BY DEF CursorStands
<1> DEFINE n == Len(node)
           longer == Append(node, label)
           pos2 == [j \in 1..(n + 1) |-> IF j = n + 1 THEN k + 1 ELSE pos[j]]
<1>2. /\ n \in Nat /\ Len(longer) = n + 1
      /\ \A j \in 1..n : longer[j] = node[j]
      /\ longer[n + 1] = label
  BY LenProperties, AppendProperties
<1>3. /\ pos2 \in [1..(n + 1) -> 1..(k + 1)]
      /\ pos2[n + 1] = k + 1
      /\ \A j \in 1..n : pos2[j] = pos[j] /\ pos[j] \in 1..k
  BY <1>2
<1> HIDE DEF pos2, longer, n
<1>4. \A j \in 1..Len(longer) : longer[j] \in {components[pos2[j]], Wildcard}
  <2> TAKE j \in 1..Len(longer)
  <2>1. CASE j \in 1..n
    BY <1>1, <1>2, <1>3, <2>1 DEF StandsFor, n
  <2>2. CASE j = n + 1
    BY <1>2, <1>3, <2>2
  <2> QED BY <1>2, <2>1, <2>2
<1>5. Len(longer) > 0 => pos2[1] = 1
  <2>1. CASE n = 0
    BY <1>1, <1>2, <1>3, <2>1 DEF n
  <2>2. CASE n > 0
    BY <1>1, <1>2, <1>3, <2>2 DEF StandsFor, n
  <2> QED BY <1>2, <2>1, <2>2
<1>6. ASSUME NEW j \in 1..(Len(longer) - 1)
      PROVE  /\ pos2[j] < pos2[j + 1]
             /\ pos2[j + 1] # pos2[j] + 1 => longer[j] = Wildcard
  <2>1. CASE j < n
    <3>1. j \in 1..n /\ j + 1 \in 1..n /\ j \in 1..(Len(node) - 1)
      BY <1>2, <2>1 DEF n
    <3> QED BY <1>1, <1>2, <1>3, <3>1 DEF StandsFor
  <2>2. CASE j = n
    BY <1>1, <1>2, <1>3, <2>2 DEF n
  <2> QED BY <1>2, <2>1, <2>2
<1>7. StandsFor(longer, components, pos2)
  BY <1>4, <1>5, <1>6 DEF StandsFor
<1>8. /\ wild2 => Len(longer) > 0 /\ longer[Len(longer)] = Wildcard
      /\ ~wild2 /\ Len(longer) > 0 => pos2[Len(longer)] = k + 1
      /\ ~wild2 /\ Len(longer) = 0 => k + 1 = 0
  BY <1>2, <1>3
<1>9. pos2 \in [1..Len(longer) -> 1..(k + 1)]
  BY <1>2, <1>3
<1> QED BY <1>7, <1>8, <1>9 DEF CursorStands, longer

\* A cursor at the root has passed nothing.
LEMMA CursorStarts ==
  ASSUME NEW components
  PROVE  CursorStands(<<>>, components, 0, FALSE)
<1>1. ASSUME NEW node, Len(node) = 0
      PROVE  CursorStands(node, components, 0, FALSE)
  <2> DEFINE pos == [j \in 1..0 |-> j]
  <2>1. pos \in [1..Len(node) -> 1..0]
    BY <1>1
  <2>2. StandsFor(node, components, pos)
    BY <1>1 DEF StandsFor
  <2> HIDE DEF pos
  <2>3. \A wild : wild = FALSE =>
          /\ StandsFor(node, components, pos)
          /\ wild => Len(node) > 0 /\ node[Len(node)] = Wildcard
          /\ ~wild /\ Len(node) > 0 => pos[Len(node)] = 0
          /\ ~wild /\ Len(node) = 0 => 0 = 0
    BY <1>1, <2>2
  <2> QED BY <2>1, <2>3, Zenon DEF CursorStands
<1> QED BY <1>1, EmptySeq

\* What a request has matched so far, and what it got.
Covered(r) ==
  /\ CursorStands(req[r].currentMatcher, req[r].host, req[r].i, req[r].wasWildCard)
  /\ req[r].st = "dispatched" =>
       /\ req[r].backend \in Attached
       /\ req[r].currentMatcher = HostComponents(req[r].backend)

LEMMA HandleCovered ==
  ASSUME TrieInv, NEW r \in Requests, Handle(r), Covered(r)
  PROVE  Covered(r)'
<1>0. /\ Attached' = Attached
      /\ req \in [Requests -> RequestState] /\ req[r] \in RequestState
      /\ req[r].currentMatcher \in Seq(Label) /\ req[r].i \in Nat
      /\ req[r].currentMatcher \in DOMAIN trie
      /\ req[r].wasWildCard \in BOOLEAN
  BY DEF Handle, TrieInv, TypeInv, TypeOK, RequestState, mainVars, Attached
<1>1. CASE Hit(r)
  <2> DEFINE wild == req[r].st = "wildcard"
  <2>1. /\ req'[r].currentMatcher = Append(req[r].currentMatcher, Key(r))
        /\ req'[r].host = req[r].host /\ req'[r].i = req[r].i + 1
        /\ req'[r].st = "exact"
    BY <1>0, <1>1 DEF Hit, RequestState
  <2>2. req'[r].wasWildCard = wild
    BY <1>0, <1>1 DEF Hit, RequestState
  <2>3. Key(r) \in Label
    BY <1>1, LookupType DEF Hit, TrieInv
  <2>4. IF wild THEN Key(r) = Wildcard ELSE Key(r) = req[r].host[req[r].i + 1]
    BY <1>1 DEF Hit, LooksUp, AtComponent, Key
  <2>5. wild \in BOOLEAN
    OBVIOUS
  <2> HIDE DEF wild
  <2>6. CursorStands(req'[r].currentMatcher, req'[r].host, req'[r].i, wild)
    BY <1>0, <2>1, <2>3, <2>4, <2>5, CursorAdvances DEF Covered
  <2> QED BY <2>1, <2>2, <2>6 DEF Covered
<1>2. CASE TryWildcard(r) \/ Stop(r) \/ Panic(r)
  <2>1. /\ req'[r].currentMatcher = req[r].currentMatcher
        /\ req'[r].host = req[r].host /\ req'[r].i = req[r].i
        /\ req'[r].st # "dispatched"
    BY <1>0, <1>2 DEF TryWildcard, Stop, Panic, RequestState
  <2>2. req'[r].wasWildCard = req[r].wasWildCard
    BY <1>0, <1>2 DEF TryWildcard, Stop, Panic, RequestState
  <2> QED BY <2>1, <2>2 DEF Covered
<1>3. CASE SkipComponent(r)
  <2>1. /\ req'[r].currentMatcher = req[r].currentMatcher
        /\ req'[r].host = req[r].host /\ req'[r].i = req[r].i + 1
        /\ req'[r].st = "exact"
    BY <1>0, <1>3 DEF SkipComponent, RequestState
  <2>2. req'[r].wasWildCard = TRUE /\ req[r].wasWildCard = TRUE
    BY <1>0, <1>3 DEF SkipComponent, RequestState
  <2>3. CursorStands(req[r].currentMatcher, req[r].host, req[r].i, TRUE)
    BY <2>2 DEF Covered
  <2>4. CursorStands(req[r].currentMatcher, req[r].host, req[r].i + 1, TRUE)
    BY <1>0, <2>3, CursorSkips
  <2> QED BY <2>1, <2>2, <2>4 DEF Covered
<1>4. CASE Return(r)
  <2> DEFINE node == req[r].currentMatcher
             b == trie[node]
  <2>1. /\ req'[r].currentMatcher = node
        /\ req'[r].host = req[r].host /\ req'[r].i = req[r].i
        /\ req'[r].backend = b
        /\ req'[r].st = "dispatched" => b # NoBackend
    BY <1>0, <1>4 DEF Return, RequestState
  <2>2. req'[r].wasWildCard = req[r].wasWildCard
    BY <1>0, <1>4 DEF Return, RequestState
  <2>3. b # NoBackend => b \in Attached /\ b = Reverse(node)
    BY <1>0 DEF TrieInv, TrieMatchesAttached
  <2>4. HostComponents(Reverse(node)) = node
    BY <1>0, ReverseProperties DEF HostComponents
  <2> HIDE DEF b, node
  <2> QED BY <1>0, <2>1, <2>2, <2>3, <2>4 DEF Covered, node
<1> QED BY <1>1, <1>2, <1>3, <1>4 DEF Handle

LEMMA ClientCovered ==
  ASSUME TrieInv, NEW r \in Requests, Client(r)
  PROVE  Covered(r)'
<1>0. req \in [Requests -> RequestState]
  BY DEF TrieInv, TypeInv, TypeOK
<1>1. /\ req'[r].currentMatcher = <<>> /\ req'[r].i = 0
      /\ req'[r].st # "dispatched" /\ req'[r].wasWildCard = FALSE
  <2>1. ASSUME NEW host \in Hosts, Accept(r, host)
        PROVE  /\ req'[r].currentMatcher = <<>> /\ req'[r].i = 0
               /\ req'[r].st = "exact" /\ req'[r].wasWildCard = FALSE
    BY <1>0, <2>1 DEF Accept, IdleRequest
  <2>2. CASE Finish(r)
    <3>1. req'[r] = IdleRequest
      BY <1>0, <2>2 DEF Finish
    <3> QED BY <3>1 DEF IdleRequest
  <2> QED BY <2>1, <2>2 DEF Client
<1>3. CursorStands(<<>>, req'[r].host, 0, FALSE)
  BY CursorStarts
<1> QED BY <1>1, <1>3 DEF Covered

LEMMA CoveredStep ==
  TrieInv /\ (\A r \in Requests : Covered(r)) /\ [Next]_vars
    => (\A r \in Requests : Covered(r))'
<1> SUFFICES ASSUME TrieInv, \A r \in Requests : Covered(r), [Next]_vars,
                    NEW s \in Requests
             PROVE  Covered(s)'
  OBVIOUS
<1>1. CASE Main
  <2>1. req' = req /\ Attached \subseteq Attached'
    BY <1>1, AttachedGrows DEF Main, TrieInv
  <2> QED BY <2>1 DEF Covered
<1>2. ASSUME NEW r \in Requests, Handle(r) \/ Client(r) PROVE Covered(s)'
  <2>1. CASE s = r
    BY <1>2, <2>1, HandleCovered, ClientCovered
  <2>2. CASE s # r
    <3>1. req'[s] = req[s]
      BY <1>2, <2>2 DEF Handle, Hit, TryWildcard, SkipComponent, Stop, Return, Panic,
                        Client, Accept, Finish, TrieInv, TypeInv, TypeOK
    <3>2. Attached' = Attached
      BY <1>2 DEF Handle, Client, mainVars, Attached
    <3> QED BY <3>1, <3>2 DEF Covered
  <2> QED BY <2>1, <2>2
<1>3. CASE UNCHANGED <<sites, mainVars, req>>
  BY <1>3 DEF Covered, Attached, mainVars
<1> QED BY <1>1, <1>2, <1>3 DEF Next, FatalError, Dead, vars

\* However sites are attached around it, a request is never handed to a site
\* that is not attached or does not cover the components that were matched.
THEOREM DispatchIsCovered == Spec => []DispatchCovered
<1>1. Init => \A r \in Requests : Covered(r)
  <2> SUFFICES ASSUME Init, NEW r \in Requests PROVE Covered(r)
    OBVIOUS
  <2>1. req[r] = IdleRequest
    BY DEF Init
  <2>2. /\ req[r].currentMatcher = <<>> /\ req[r].i = 0
        /\ req[r].st # "dispatched" /\ req[r].wasWildCard = FALSE
    BY <2>1 DEF IdleRequest
  <2>3. CursorStands(<<>>, req[r].host, 0, FALSE)
    BY CursorStarts
  <2> QED BY <2>2, <2>3 DEF Covered
<1>2. TrieInv /\ (\A r \in Requests : Covered(r)) => DispatchCovered
  <2> SUFFICES ASSUME TrieInv, NEW r \in Requests, Covered(r), req[r].st = "dispatched"
               PROVE  /\ req[r].backend \in Attached
                      /\ \E k \in 0..Len(req[r].host) :
                           Covers(HostComponents(req[r].backend), req[r].host, k)
    BY DEF DispatchCovered
  <2>1. req[r].i \in 0..Len(req[r].host)
    BY LenProperties DEF TrieInv, TypeInv, TypeOK, RequestState
  <2>2. Covers(req[r].currentMatcher, req[r].host, req[r].i)
    BY DEF Covered, CursorStands, Covers
  <2> QED BY <2>1, <2>2 DEF Covered
<1> QED BY <1>1, <1>2, CoveredStep, TrieInvHolds, PTL DEF Spec

-----------------------------------------------------------------------------
(* Requests that arrive after the last site.                               *)

\* A settled request's cursor is the one of the walk that is undisturbed.
RoutedAlone(r) ==
  LET walk == Cursor(trie, req[r].host)
      end == walk[Len(req[r].host)].node
      here == [node |-> req[r].currentMatcher, wasWildCard |-> req[r].wasWildCard,
               stopped |-> FALSE]
  IN  req[r].settled =>
        /\ Attached = sites
        /\ req[r].st \in {"exact", "wildcard"} => walk[req[r].i] = here
        /\ req[r].st = "wildcard" =>
             ~Found(trie, req[r].currentMatcher, req[r].host[req[r].i + 1])
        /\ req[r].st = "return" => end = req[r].currentMatcher
        /\ req[r].st \in {"dispatched", "badGateway"} => req[r].backend = trie[end]
        /\ req[r].st # "aborted"

RouteInv == TrieInv /\ \A r \in Requests : RoutedAlone(r)

\* Once all sites are attached, the main goroutine has nothing to write, and the
\* tree is the one of all sites.
LEMMA AllAttached ==
  ASSUME TrieInv, Attached = sites
  PROVE  pc \in {"range", "ready"} /\ todo = {} /\ hostComponents = <<>> /\ trie = TrieOf(sites)
<1>1. pc \in {"range", "ready"}
  <2>1. Reverse(hostComponents) \notin sites
    BY DEF Attached
  <2> QED
    BY <2>1 DEF TrieInv, TypeInv, TypeOK, WriterOK
<1>2. todo = {}
  BY DEF Attached, TrieInv, TypeInv, TypeOK
<1>3. hostComponents = <<>>
  BY <1>1 DEF TrieInv, TypeInv, WriterOK
<1>4. writer = <<>> /\ Prefixes(<<>>) = {<<>>}
  <2>1. depth = 0
    BY <1>3 DEF TrieInv, TypeInv, TypeOK
  <2> QED
    BY <1>3, <2>1, WriterProperties, PrefixesProperties DEF TrieInv, TypeInv, TypeOK
<1>5. DOMAIN trie = NodesOf(sites)
  BY <1>4 DEF TrieInv, TrieMatchesAttached, NodesOf
<1>6. trie = [n \in DOMAIN trie |-> trie[n]]
  BY DEF TrieInv, TypeInv, TypeOK
<1>7. \A n \in DOMAIN trie : trie[n] = IF Reverse(n) \in sites THEN Reverse(n) ELSE NoBackend
  BY DEF TrieInv, TrieMatchesAttached
<1> QED
  BY <1>1, <1>2, <1>3, <1>5, <1>6, <1>7 DEF TrieOf

\* So a request is then never disturbed.
LEMMA NoRaceWhenAttached ==
  ASSUME TrieInv, Attached = sites, NEW r \in Requests
  PROVE  ~RacesInsert(r) /\ (CanMiss(r) <=> ~HasKey(r)) /\ ~Panic(r)
BY AllAttached DEF RacesInsert, CanMiss, Panic

\* What a request is made of.
LEMMA RequestType ==
  ASSUME TrieInv, NEW r \in Requests
  PROVE  /\ req \in [Requests -> RequestState] /\ req[r] \in RequestState
         /\ req[r].host \in Seq(Label) /\ Len(req[r].host) \in Nat
         /\ req[r].i \in 0..Len(req[r].host)
         /\ req[r].wasWildCard \in BOOLEAN
         /\ req[r].currentMatcher \in Seq(Label) /\ req[r].currentMatcher \in DOMAIN trie
         /\ req[r].st = "wildcard" => req[r].i < Len(req[r].host)
BY LenProperties DEF TrieInv, TypeInv, TypeOK, RequestState

\* The next cursor of a walk that has not stopped.
LEMMA NextCursor ==
  ASSUME TrieInv, NEW r \in Requests, LooksUp(r),
         Cursor(trie, req[r].host)[req[r].i] =
           [node |-> req[r].currentMatcher, wasWildCard |-> req[r].wasWildCard, stopped |-> FALSE]
  PROVE  LET walk == Cursor(trie, req[r].host)
             node == req[r].currentMatcher
             label == req[r].host[req[r].i + 1]
             next == walk[req[r].i + 1]
             Cur(n, w, s) == [node |-> n, wasWildCard |-> w, stopped |-> s]
         IN  /\ Found(trie, node, label) => next = Cur(Append(node, label), FALSE, FALSE)
             /\ ~Found(trie, node, label) /\ Found(trie, node, Wildcard) =>
                  next = Cur(Append(node, Wildcard), TRUE, FALSE)
             /\ ~Found(trie, node, label) /\ ~Found(trie, node, Wildcard) =>
                  next = Cur(node, req[r].wasWildCard, ~req[r].wasWildCard)
<1>1. /\ req[r].host \in Seq(Label) /\ req[r].wasWildCard \in BOOLEAN
      /\ req[r].i + 1 \in 1..Len(req[r].host) /\ (req[r].i + 1) - 1 = req[r].i
  BY RequestType, LookupType DEF TrieInv
<1>2. Cursor(trie, req[r].host)[req[r].i + 1] =
        MatchLabel(trie, Cursor(trie, req[r].host)[req[r].i], req[r].host[req[r].i + 1])
  BY <1>1, CursorUnfolds
<1> DEFINE node == req[r].currentMatcher
           label == req[r].host[req[r].i + 1]
           wild == req[r].wasWildCard
           next == Cursor(trie, req[r].host)[req[r].i + 1]
<1>3. next = MatchLabel(trie, [node |-> node, wasWildCard |-> wild, stopped |-> FALSE], label)
  BY <1>2
<1>4. wild \in BOOLEAN
  BY <1>1
<1> HIDE DEF node, label, wild, next
<1>5. /\ Found(trie, node, label) =>
           next = [node |-> Append(node, label), wasWildCard |-> FALSE, stopped |-> FALSE]
      /\ ~Found(trie, node, label) /\ Found(trie, node, Wildcard) =>
           next = [node |-> Append(node, Wildcard), wasWildCard |-> TRUE, stopped |-> FALSE]
      /\ ~Found(trie, node, label) /\ ~Found(trie, node, Wildcard) =>
           next = [node |-> node, wasWildCard |-> wild, stopped |-> ~wild]
  BY <1>3, <1>4 DEF MatchLabel
<1> QED
  BY <1>5 DEF node, label, wild, next

LEMMA HandleRouted ==
  ASSUME TrieInv, NEW r \in Requests, Handle(r), RoutedAlone(r)
  PROVE  RoutedAlone(r)'
<1> DEFINE host == req[r].host
           i == req[r].i
           node == req[r].currentMatcher
           wild == req[r].wasWildCard
           walk == Cursor(trie, host)
<1>0. /\ sites' = sites /\ trie' = trie /\ Attached' = Attached
      /\ req \in [Requests -> RequestState] /\ req[r] \in RequestState
      /\ host \in Seq(Label) /\ Len(host) \in Nat /\ i \in 0..Len(host) /\ wild \in BOOLEAN
  BY RequestType DEF Handle, mainVars, Attached
<1>1. req'[r].settled = req[r].settled /\ req'[r].host = host
  BY <1>0 DEF Handle, Hit, TryWildcard, SkipComponent, Stop, Return, Panic, RequestState
<1> SUFFICES ASSUME req[r].settled PROVE RoutedAlone(r)'
  BY <1>1 DEF RoutedAlone
<1>2. /\ Attached = sites
      /\ req[r].st \in {"exact", "wildcard"} =>
           walk[i] = [node |-> node, wasWildCard |-> wild, stopped |-> FALSE]
      /\ req[r].st = "wildcard" => ~Found(trie, node, host[i + 1])
      /\ req[r].st = "return" => walk[Len(host)].node = node
  BY DEF RoutedAlone
<1>3. ~Panic(r) /\ (CanMiss(r) <=> ~HasKey(r))
  BY <1>2, NoRaceWhenAttached
<1>4. LooksUp(r) => req[r].st \in {"exact", "wildcard"} /\ i + 1 \in 1..Len(host)
  BY LookupType DEF LooksUp, AtComponent, TrieInv
<1>5. CASE Hit(r)
  <2>1. /\ req'[r].st = "exact" /\ req'[r].i = i + 1
        /\ req'[r].currentMatcher = Append(node, Key(r))
    BY <1>0, <1>5 DEF Hit, RequestState
  <2>2. req'[r].wasWildCard = (req[r].st = "wildcard")
    BY <1>0, <1>5 DEF Hit, RequestState
  <2>3. walk[i + 1] = [node |-> Append(node, Key(r)), wasWildCard |-> (req[r].st = "wildcard"),
                       stopped |-> FALSE]
    <3>1. CASE req[r].st = "exact"
      BY <1>2, <1>4, <1>5, <3>1, NextCursor DEF Hit, Key, HasKey
    <3>2. CASE req[r].st = "wildcard"
      BY <1>2, <1>4, <1>5, <3>2, NextCursor DEF Hit, Key, HasKey
    <3> QED
      BY <1>4, <1>5, <3>1, <3>2 DEF Hit
  <2> QED
    BY <1>0, <1>1, <1>2, <2>1, <2>2, <2>3 DEF RoutedAlone
<1>6. CASE TryWildcard(r)
  <2>1. /\ req'[r].st = "wildcard" /\ req'[r].i = i /\ req'[r].currentMatcher = node
        /\ req'[r].wasWildCard = wild
    BY <1>0, <1>6 DEF TryWildcard, RequestState
  <2>2. req[r].st = "exact" /\ ~Found(trie, node, host[i + 1])
    BY <1>3, <1>6 DEF TryWildcard, AtComponent, HasKey, Key
  <2> QED
    BY <1>0, <1>1, <1>2, <2>1, <2>2 DEF RoutedAlone
<1>7. CASE SkipComponent(r)
  <2>1. /\ req'[r].st = "exact" /\ req'[r].i = i + 1 /\ req'[r].currentMatcher = node
        /\ req'[r].wasWildCard = wild /\ wild = TRUE
    BY <1>0, <1>7 DEF SkipComponent, RequestState
  <2>2. req[r].st = "wildcard" /\ LooksUp(r) /\ ~Found(trie, node, Wildcard)
    BY <1>3, <1>7 DEF SkipComponent, LooksUp, HasKey, Key
  <2>3. walk[i + 1] = [node |-> node, wasWildCard |-> wild, stopped |-> FALSE]
    BY <1>2, <2>1, <2>2, NextCursor
  <2> QED
    BY <1>0, <1>1, <1>2, <2>1, <2>3 DEF RoutedAlone
<1>8. CASE Stop(r)
  <2>1. /\ req'[r].st = "return" /\ req'[r].currentMatcher = node /\ wild = FALSE
    BY <1>0, <1>8 DEF Stop, RequestState
  <2>2. req[r].st = "wildcard" /\ LooksUp(r) /\ ~Found(trie, node, Wildcard)
    BY <1>3, <1>8 DEF Stop, LooksUp, HasKey, Key
  <2>3. walk[i + 1] = [node |-> node, wasWildCard |-> FALSE, stopped |-> TRUE]
    BY <1>2, <2>1, <2>2, NextCursor
  <2>4. i + 1 \in 0..Len(host)
    BY <1>0, <1>4, <2>2
  <2>5. walk[Len(host)].node = node
    BY <1>0, <2>3, <2>4, StoppedStays
  <2> QED
    BY <1>0, <1>1, <1>2, <2>1, <2>5 DEF RoutedAlone
<1>9. CASE Return(r)
  <2>1. /\ req'[r].st \in {"dispatched", "badGateway"} /\ req'[r].backend = trie[node]
    BY <1>0, <1>9 DEF Return, RequestState
  <2>2. walk[Len(host)].node = node
    BY <1>2, <1>9 DEF Return, AtReturn
  <2> QED
    BY <1>0, <1>1, <1>2, <2>1, <2>2 DEF RoutedAlone
<1> QED
  BY <1>3, <1>5, <1>6, <1>7, <1>8, <1>9 DEF Handle

LEMMA ClientRouted ==
  ASSUME TrieInv, NEW r \in Requests, Client(r)
  PROVE  RoutedAlone(r)'
<1>0. /\ sites' = sites /\ trie' = trie /\ Attached' = Attached
      /\ req \in [Requests -> RequestState]
  BY RequestType DEF Client, mainVars, Attached
<1>1. ASSUME NEW host \in Hosts, Accept(r, host) PROVE RoutedAlone(r)'
  <2>1. HostComponents(host) \in Seq(Label)
    BY HostsAssumption, ReverseProperties DEF HostName, HostComponents
  <2>2. /\ req'[r].st = "exact" /\ req'[r].host = HostComponents(host) /\ req'[r].i = 0
        /\ req'[r].currentMatcher = <<>> /\ req'[r].wasWildCard = FALSE
    BY <1>0, <1>1 DEF Accept, IdleRequest
  <2>3. req'[r].settled => Attached = sites
    BY <1>0, <1>1 DEF Accept, IdleRequest
  <2>4. Cursor(trie, HostComponents(host))[0] =
          [node |-> <<>>, wasWildCard |-> FALSE, stopped |-> FALSE]
    BY <2>1, CursorUnfolds DEF CursorStart
  <2> QED
    BY <1>0, <2>2, <2>3, <2>4 DEF RoutedAlone
<1>2. CASE Finish(r)
  <2>1. req'[r].settled = FALSE
    BY <1>0, <1>2 DEF Finish, IdleRequest
  <2> QED
    BY <2>1 DEF RoutedAlone
<1> QED
  BY <1>1, <1>2 DEF Client

LEMMA RoutedStep ==
  TrieInv /\ (\A r \in Requests : RoutedAlone(r)) /\ [Next]_vars
    => (\A r \in Requests : RoutedAlone(r))'
<1> SUFFICES ASSUME TrieInv, \A r \in Requests : RoutedAlone(r), [Next]_vars,
                    NEW s \in Requests
             PROVE  RoutedAlone(s)'
  OBVIOUS
<1>1. CASE Main
  <2>1. req' = req /\ sites' = sites
    BY <1>1 DEF Main
  <2>2. CASE Attached = sites
    <3>1. trie' = trie /\ todo' = todo /\ hostComponents' = hostComponents
      BY <1>1, <2>2, AllAttached
         DEF Main, Descend, BeginInsert, EndInsert, BeginSetBackend, EndSetBackend,
             StartupComplete
    <3> QED
      BY <2>1, <3>1 DEF RoutedAlone, Attached
  <2>3. CASE Attached # sites
    BY <2>1, <2>3 DEF RoutedAlone
  <2> QED
    BY <2>2, <2>3
<1>2. ASSUME NEW r \in Requests, Handle(r) \/ Client(r) PROVE RoutedAlone(s)'
  <2>1. CASE s = r
    BY <1>2, <2>1, HandleRouted, ClientRouted
  <2>2. CASE s # r
    <3>1. req'[s] = req[s]
      BY <1>2, <2>2 DEF Handle, Hit, TryWildcard, SkipComponent, Stop, Return, Panic,
                        Client, Accept, Finish, TrieInv, TypeInv, TypeOK
    <3>2. sites' = sites /\ trie' = trie /\ Attached' = Attached
      BY <1>2 DEF Handle, Client, mainVars, Attached
    <3> QED
      BY <3>1, <3>2 DEF RoutedAlone
  <2> QED
    BY <2>1, <2>2
<1>3. CASE UNCHANGED <<sites, mainVars, req>>
  BY <1>3 DEF RoutedAlone, Attached, mainVars
<1> QED
  BY <1>1, <1>2, <1>3 DEF Next, FatalError, Dead, vars

LEMMA RouteInvHolds == Spec => []RouteInv
<1>1. Init => \A r \in Requests : RoutedAlone(r)
  <2> SUFFICES ASSUME Init, NEW r \in Requests PROVE RoutedAlone(r)
    OBVIOUS
  <2>1. req[r].settled = FALSE
    BY DEF Init, IdleRequest
  <2> QED
    BY <2>1 DEF RoutedAlone
<1> QED
  BY <1>1, RoutedStep, TrieInvHolds, PTL DEF Spec, RouteInv

\* What the walk of a settled request returns is the route of the configuration.
LEMMA RouteIs ==
  ASSUME TrieInv, Attached = sites, NEW r \in Requests
  PROVE  Route(sites, Reverse(req[r].host)) =
           trie[Cursor(trie, req[r].host)[Len(req[r].host)].node]
<1>1. HostComponents(Reverse(req[r].host)) = req[r].host
  BY RequestType, ReverseProperties DEF HostComponents
<1>2. TrieOf(sites) = trie
  BY AllAttached
<1> QED
  BY <1>1, <1>2 DEF Route, MatchSite

\* A request that arrives after the last site is answered as the configuration
\* says, whatever order the sites were attached in, and never dropped.
THEOREM RoutingIsSettled == Spec => []SettledRouting
<1>1. RouteInv => SettledRouting
  <2> SUFFICES ASSUME RouteInv, NEW r \in Requests, req[r].settled
               PROVE  /\ req[r].st # "aborted"
                      /\ req[r].st \in {"dispatched", "badGateway"} =>
                           req[r].backend = Route(sites, Reverse(req[r].host))
    BY DEF SettledRouting
  <2>1. RoutedAlone(r) /\ TrieInv
    BY DEF RouteInv
  <2> QED
    BY <2>1, RouteIs DEF RoutedAlone
<1> QED
  BY <1>1, RouteInvHolds, PTL

-----------------------------------------------------------------------------
(* The table of sites.                                                     *)

\* What the table says of a request.
AskedOf(q) ==
  [st |-> IF q.st \in {"exact", "wildcard", "return"} THEN "pending" ELSE q.st,
   host |-> Reverse(q.host), backend |-> q.backend, settled |-> q.settled]

\* A goroutine without a request has forgotten the last one.
IdleInv == \A r \in Requests : req[r].st = "idle" => req[r] = IdleRequest

\* The operators of the table are those of the tree.
LEMMA TableOperators ==
  /\ \A hosts, host : Table!Route(hosts, host) = Route(hosts, host)
  /\ \A host : Table!HostComponents(host) = HostComponents(host)
  /\ \A node, components, k : Table!Covers(node, components, k) = Covers(node, components, k)
  /\ Table!NoBackend = NoBackend
<1>1. ASSUME NEW hosts, NEW host PROVE Table!Route(hosts, host) = Route(hosts, host)
  BY DEF Route, MatchSite, HostComponents, Cursor, MatchLabel, Found, TrieOf, NodesOf, NoBackend,
         Reverse, Prefixes, Table!Reverse, Table!Prefixes,
         Table!Route, Table!MatchSite, Table!HostComponents, Table!Cursor, Table!MatchLabel,
         Table!Found, Table!TrieOf, Table!NodesOf, Table!NoBackend
<1>2. (\A host : Table!HostComponents(host) = HostComponents(host)) /\ Table!NoBackend = NoBackend
  BY DEF HostComponents, NoBackend, Reverse,
         Table!HostComponents, Table!NoBackend, Table!Reverse
<1>3. ASSUME NEW node, NEW components, NEW k
      PROVE  Table!Covers(node, components, k) = Covers(node, components, k)
  BY DEF Covers, StandsFor, Table!Covers, Table!StandsFor
<1> QED
  BY <1>1, <1>2, <1>3

\* A step that the table does not see.
LEMMA TableStutters ==
  ASSUME sites' = sites, alive' = alive, Attached' = Attached,
         \A r \in Requests : AskedOf(req[r])' = AskedOf(req[r])
  PROVE  UNCHANGED Table!vars
BY DEF Table!vars, AskedOf

\* A step that the table sees as one of request r, by what changes of it.
LEMMA TableAsked ==
  ASSUME NEW r \in Requests, req \in [Requests -> RequestState],
         \A s \in Requests \ {r} : req'[s] = req[s]
  PROVE  LET asked == [s \in Requests |-> AskedOf(req[s])]
         IN  asked' = [asked EXCEPT ![r] = AskedOf(req'[r])]
BY DEF AskedOf

LEMMA RecordIs ==
  ASSUME NEW st, NEW host, NEW backend, NEW settled,
         NEW q \in [st : {st}, host : {host}, backend : {backend}, settled : {settled}]
  PROVE  q = [st |-> st, host |-> host, backend |-> backend, settled |-> settled]
OBVIOUS

Answered(a, b, st) == [a EXCEPT !.backend = b, !.st = st]
Arrived(a, host, settled) == [a EXCEPT !.st = "pending", !.host = host, !.settled = settled]

LEMMA AskedAnswered ==
  ASSUME NEW q, NEW w, NEW b, NEW st, st \notin {"exact", "wildcard", "return"},
         w.st = st, w.backend = b, w.host = q.host, w.settled = q.settled
  PROVE  AskedOf(w) = Answered(AskedOf(q), b, st)
<1> DEFINE c == Answered(AskedOf(q), b, st)
           h == Reverse(q.host)
           s == q.settled
<1>1. AskedOf(w) = [st |-> st, host |-> h, backend |-> b, settled |-> s]
  BY DEF AskedOf
<1>2. c \in [st : {st}, host : {h}, backend : {b}, settled : {s}]
  BY DEF AskedOf, Answered
<1>3. c = [st |-> st, host |-> h, backend |-> b, settled |-> s]
  <2> HIDE DEF c, h, s
  <2> QED
    BY <1>2, RecordIs
<1> QED
  BY <1>1, <1>3

LEMMA AskedArrived ==
  ASSUME NEW q, NEW w, NEW host, NEW settled, w.st = "exact", w.backend = q.backend,
         Reverse(w.host) = host, w.settled = settled
  PROVE  AskedOf(w) = Arrived(AskedOf(q), host, settled)
<1> DEFINE c == Arrived(AskedOf(q), host, settled)
           b == q.backend
<1>1. AskedOf(w) = [st |-> "pending", host |-> host, backend |-> b, settled |-> settled]
  BY DEF AskedOf
<1>2. c \in [st : {"pending"}, host : {host}, backend : {b}, settled : {settled}]
  BY DEF AskedOf, Arrived
<1>3. c = [st |-> "pending", host |-> host, backend |-> b, settled |-> settled]
  <2> HIDE DEF c, b
  <2> QED
    BY <1>2, RecordIs
<1> QED
  BY <1>1, <1>3

LEMMA InitTable == Init => Table!Init
<1> SUFFICES ASSUME Init PROVE Table!Init
  OBVIOUS
<1>1. Attached = {}
  BY DEF Init, Attached
<1>2. Reverse(<<>>) = <<>>
  BY DEF Reverse
<1>3. \A r \in Requests : req[r] = IdleRequest
  BY DEF Init
<1> QED
  BY <1>1, <1>2, <1>3 DEF Init, IdleRequest, Table!Init, Table!NotAsked, Table!NoBackend, NoBackend

\* A site appears when its backend has been set, and not before.
LEMMA MainTable ==
  ASSUME TrieInv, Main
  PROVE  Table!Next \/ UNCHANGED Table!vars
<1>0. /\ alive' = alive /\ sites' = sites /\ req' = req /\ alive
      /\ \A r \in Requests : AskedOf(req[r])' = AskedOf(req[r])
  BY DEF Main, AskedOf
<1>1. /\ Reverse(<<>>) = <<>>
      /\ <<>> \notin sites
  BY SiteIsHostName DEF TrieInv, TypeInv, Reverse
<1>2. ASSUME NEW host \in todo, NextSite(host) PROVE UNCHANGED Table!vars
  <2>1. host \in sites /\ host \in Seq(Label)
    BY SiteIsHostName DEF TrieInv, TypeInv, TypeOK
  <2>2. Reverse(HostComponents(host)) = host
    BY <2>1, ReverseProperties DEF HostComponents
  <2>3. /\ hostComponents = <<>> /\ hostComponents' = HostComponents(host)
        /\ todo' = todo \ {host}
    BY <1>2 DEF NextSite, TrieInv, TypeInv, WriterOK
  <2>4. Attached' = Attached
    BY <1>0, <1>1, <2>1, <2>2, <2>3 DEF Attached
  <2> QED
    BY <1>0, <2>4, TableStutters
<1>3. CASE Descend \/ BeginInsert \/ EndInsert \/ BeginSetBackend \/ StartupComplete
  <2>1. Attached' = Attached
    BY <1>0, <1>3 DEF Descend, BeginInsert, EndInsert, BeginSetBackend, StartupComplete, Attached
  <2> QED
    BY <1>0, <2>1, TableStutters
<1>4. CASE EndSetBackend
  <2> DEFINE site == Reverse(hostComponents)
  <2>1. site \in sites \ todo /\ site \notin Attached
    BY <1>4 DEF EndSetBackend, TrieInv, TypeInv, WriterOK, Attached
  <2>2. Attached' = Attached \cup {site}
    BY <1>0, <1>1, <1>4, <2>1 DEF EndSetBackend, Attached
  <2>3. Table!Attach(site)
    BY <1>0, <2>2 DEF Table!Attach, AskedOf
  <2> QED
    BY <2>1, <2>3 DEF Table!Next
<1> QED
  BY <1>2, <1>3, <1>4 DEF Main

\* A walk is one step of the table: its last, with an answer that the table allows.
LEMMA HandleTable ==
  ASSUME RouteInv, NEW r \in Requests, Covered(r), Handle(r)
  PROVE  Table!Next \/ UNCHANGED Table!vars
<1> DEFINE asked == [s \in Requests |-> AskedOf(req[s])]
           host == req[r].host
           node == req[r].currentMatcher
<1>0. /\ alive' = alive /\ sites' = sites /\ trie' = trie /\ Attached' = Attached /\ alive
      /\ req \in [Requests -> RequestState] /\ req[r] \in RequestState
      /\ host \in Seq(Label) /\ req[r].i \in 0..Len(host)
      /\ node \in Seq(Label) /\ node \in DOMAIN trie
  BY RequestType DEF Handle, mainVars, Attached, RouteInv
<1>1. \A s \in Requests \ {r} : req'[s] = req[s] /\ AskedOf(req[s])' = AskedOf(req[s])
  BY <1>0 DEF Handle, Hit, TryWildcard, SkipComponent, Stop, Return, Panic, AskedOf
<1>2. CASE Hit(r) \/ TryWildcard(r) \/ SkipComponent(r) \/ Stop(r)
  <2>1. /\ req[r].st \in {"exact", "wildcard"} /\ req'[r].st \in {"exact", "wildcard", "return"}
        /\ req'[r].host = host /\ req'[r].backend = req[r].backend
        /\ req'[r].settled = req[r].settled
    BY <1>0, <1>2 DEF Hit, TryWildcard, SkipComponent, Stop, LooksUp, AtComponent, RequestState
  <2>2. AskedOf(req[r])' = AskedOf(req[r])
    BY <2>1 DEF AskedOf
  <2> QED
    BY <1>0, <1>1, <2>2, TableStutters
<1>3. CASE Return(r)
  <2> PICK b : b = trie[node]
    OBVIOUS
  <2>1. /\ req[r].st \in {"exact", "return"}
        /\ req'[r].st = IF b = NoBackend THEN "badGateway" ELSE "dispatched"
        /\ req'[r].host = host /\ req'[r].backend = b /\ req'[r].settled = req[r].settled
    BY <1>0, <1>3 DEF Return, AtReturn, RequestState
  <2>2. b \in Attached \cup {NoBackend} /\ (b # NoBackend => b = Reverse(node))
    BY <1>0 DEF RouteInv, TrieInv, TrieMatchesAttached
  <2>3. req[r].settled => b = Route(sites, Reverse(host))
    <3> SUFFICES ASSUME req[r].settled PROVE b = Route(sites, Reverse(host))
      OBVIOUS
    <3>1. RoutedAlone(r) /\ RoutedAlone(r)' /\ TrieInv
      BY <1>0, HandleRouted DEF RouteInv
    <3>2. Attached = sites /\ b = trie[Cursor(trie, host)[Len(host)].node]
      BY <1>0, <2>1, <3>1 DEF RoutedAlone
    <3> QED
      BY <3>1, <3>2, RouteIs
  <2>4. b # NoBackend => \E k \in 0..Len(host) : Covers(HostComponents(b), host, k)
    <3>1. HostComponents(Reverse(node)) = node
      BY <1>0, ReverseProperties DEF HostComponents
    <3>2. Covers(node, host, req[r].i)
      BY DEF Covered, CursorStands, Covers
    <3> QED
      BY <1>0, <2>2, <3>1, <3>2
  <2>5. HostComponents(Reverse(host)) = host
    BY <1>0, ReverseProperties DEF HostComponents
  <2> DEFINE st == IF b = NoBackend THEN "badGateway" ELSE "dispatched"
  <2>6. AskedOf(req'[r]) = Answered(AskedOf(req[r]), b, st)
    <3> PICK q, w : q = req[r] /\ w = req'[r]
      OBVIOUS
    <3>1. /\ st \notin {"exact", "wildcard", "return"} /\ w.st = st
          /\ w.host = q.host /\ w.backend = b /\ w.settled = q.settled
      BY <2>1
    <3> HIDE DEF st
    <3>2. AskedOf(w) = Answered(AskedOf(q), b, st)
      BY <3>1, AskedAnswered
    <3> QED
      BY <3>2
  <2>7. asked' = [asked EXCEPT ![r].backend = b, ![r].st = st]
    <3>1. asked' = [asked EXCEPT ![r] = Answered(asked[r], b, st)]
      BY <1>0, <1>1, <2>6, TableAsked
    <3>2. asked = [s \in Requests |-> asked[s]]
      OBVIOUS
    <3> HIDE DEF asked, st
    <3> QED
      BY <3>1, <3>2 DEF Answered
  <2>8. /\ asked[r].st = "pending" /\ asked[r].settled = req[r].settled
        /\ asked[r].host = Reverse(host)
    BY <2>1 DEF AskedOf
  <2>9. Table!Answer(r, b)
    BY <1>0, <2>3, <2>4, <2>5, <2>7, <2>8, TableOperators
       DEF Table!Answer, Table!MayServe, AskedOf
  <2>10. b \in Attached \cup {Table!NoBackend}
    BY <2>2, TableOperators
  <2>11. \E backend \in Attached \cup {Table!NoBackend} : Table!Answer(r, backend)
    BY <2>9, <2>10
  <2> QED
    BY <2>11 DEF Table!Next
<1>4. CASE Panic(r)
  <2>1. ~req[r].settled
    BY <1>4, NoRaceWhenAttached DEF RouteInv, RoutedAlone
  <2>2. /\ req[r].st \in {"exact", "wildcard", "return"} /\ req'[r].st = "aborted"
        /\ req'[r].host = host /\ req'[r].backend = req[r].backend
        /\ req'[r].settled = req[r].settled
    BY <1>0, <1>4 DEF Panic, RacesInsert, LooksUp, AtComponent, AtReturn, RequestState
  <2>3. asked' = [asked EXCEPT ![r].st = "aborted"]
    BY <1>0, <1>1, <2>2 DEF AskedOf
  <2>4. Table!Abort(r)
    BY <1>0, <2>1, <2>2, <2>3 DEF Table!Abort, AskedOf
  <2> QED
    BY <2>4 DEF Table!Next
<1> QED
  BY <1>2, <1>3, <1>4 DEF Handle

LEMMA ClientTable ==
  ASSUME RouteInv, IdleInv, NEW r \in Requests, Client(r)
  PROVE  Table!Next \/ UNCHANGED Table!vars
<1> DEFINE asked == [s \in Requests |-> AskedOf(req[s])]
<1>0. /\ alive' = alive /\ sites' = sites /\ Attached' = Attached /\ alive
      /\ req \in [Requests -> RequestState]
  BY RequestType DEF Client, mainVars, Attached, RouteInv
<1>1. \A s \in Requests \ {r} : req'[s] = req[s]
  BY <1>0 DEF Client, Accept, Finish
<1>2. ASSUME NEW host \in Hosts, Accept(r, host) PROVE Table!Next
  <2>1. Reverse(HostComponents(host)) = host
    BY HostsAssumption, ReverseProperties DEF HostName, HostComponents
  <2>2. /\ req[r].st = "idle" /\ req[r].backend = NoBackend
        /\ req'[r].st = "exact" /\ req'[r].host = HostComponents(host)
        /\ req'[r].backend = NoBackend
    BY <1>0, <1>2 DEF Accept, IdleRequest, IdleInv
  <2> PICK all \in BOOLEAN : all = (Attached = sites)
    OBVIOUS
  <2>3. req'[r].settled = all
    BY <1>0, <1>2 DEF Accept, IdleRequest
  <2>4. asked' = [asked EXCEPT ![r].st = "pending", ![r].host = host,
                               ![r].settled = (Attached = sites)]
    <3>1. AskedOf(req'[r]) =
            Arrived(AskedOf(req[r]), host, all)
      <4> PICK q, w : q = req[r] /\ w = req'[r]
        OBVIOUS
      <4>1. /\ w.st = "exact" /\ w.backend = q.backend /\ Reverse(w.host) = host
        BY <2>1, <2>2
      <4>2. w.settled = all
        BY <2>3
      <4>3. AskedOf(w) = Arrived(AskedOf(q), host, all)
        BY <4>1, <4>2, AskedArrived
      <4> QED
        BY <4>3
    <3>2. asked' = [asked EXCEPT ![r] = Arrived(asked[r], host, all)]
      <4> QED
        BY <1>0, <1>1, <3>1, TableAsked
    <3>3. asked = [s \in Requests |-> asked[s]]
      OBVIOUS
    <3> HIDE DEF asked
    <3>4. asked' = [asked EXCEPT ![r].st = "pending", ![r].host = host, ![r].settled = all]
      BY <3>2, <3>3 DEF Arrived
    <3> QED
      BY <3>4
  <2>5. Table!Ask(r, host)
    BY <1>0, <2>2, <2>4 DEF Table!Ask, AskedOf
  <2> QED
    BY <2>5 DEF Table!Next
<1>3. CASE Finish(r)
  <2>1. req[r].st \in {"dispatched", "badGateway", "aborted"} /\ req'[r] = IdleRequest
    BY <1>0, <1>3 DEF Finish
  <2>2. asked' = [asked EXCEPT ![r] = Table!NotAsked]
    <3>1. AskedOf(IdleRequest) = Table!NotAsked
      <4>1. Reverse(<<>>) = <<>>
        BY DEF Reverse
      <4> QED
        BY <4>1 DEF AskedOf, IdleRequest, NoBackend, Table!NotAsked, Table!NoBackend
    <3> QED
      BY <1>0, <1>1, <2>1, <3>1
  <2>3. Table!Release(r)
    BY <1>0, <2>1, <2>2 DEF Table!Release, AskedOf
  <2> QED
    BY <2>3 DEF Table!Next
<1> QED
  BY <1>2, <1>3 DEF Client

\* The process dies of a race, and only then.
LEMMA FatalTable ==
  ASSUME RouteInv, NEW r \in Requests, FatalError(r)
  PROVE  Table!Next
<1>1. /\ alive /\ alive' = FALSE /\ sites' = sites /\ Attached' = Attached /\ req' = req
      /\ RacesInsert(r)
  BY DEF FatalError, mainVars, Attached
<1>2. Attached # sites
  BY <1>1, NoRaceWhenAttached DEF RouteInv
<1>3. req[r].st \in {"exact", "wildcard"} /\ ~req[r].settled
  BY <1>1, <1>2 DEF RacesInsert, LooksUp, AtComponent, RouteInv, RoutedAlone
<1>4. Table!Crash
  BY <1>1, <1>2, <1>3 DEF Table!Crash
<1> QED
  BY <1>4 DEF Table!Next

LEMMA IdleStep == RouteInv /\ IdleInv /\ [Next]_vars => IdleInv'
<1> SUFFICES ASSUME RouteInv, IdleInv, [Next]_vars, NEW s \in Requests, req'[s].st = "idle"
             PROVE  req'[s] = IdleRequest
  BY DEF IdleInv
<1>0. req \in [Requests -> RequestState] /\ req[s] \in RequestState
  BY RequestType DEF RouteInv
<1>1. ASSUME NEW r \in Requests, Handle(r) PROVE req'[s] = IdleRequest
  <2>1. s # r
    BY <1>0, <1>1 DEF Handle, Hit, TryWildcard, SkipComponent, Stop, Return, Panic, RequestState
  <2>2. req'[s] = req[s]
    BY <1>0, <1>1, <2>1 DEF Handle, Hit, TryWildcard, SkipComponent, Stop, Return, Panic
  <2> QED
    BY <2>2 DEF IdleInv
<1>2. ASSUME NEW r \in Requests, Client(r) PROVE req'[s] = IdleRequest
  <2>1. CASE s = r
    <3>1. ASSUME NEW host \in Hosts, Accept(r, host) PROVE FALSE
      <4>1. req'[r].st = "exact"
        BY <1>0, <3>1 DEF Accept, IdleRequest
      <4> QED
        BY <4>1, <2>1
    <3>2. Finish(r)
      BY <1>2, <3>1 DEF Client
    <3> QED
      BY <1>0, <2>1, <3>2 DEF Finish
  <2>2. CASE s # r
    <3>1. req'[s] = req[s]
      BY <1>0, <1>2, <2>2 DEF Client, Accept, Finish
    <3> QED
      BY <3>1 DEF IdleInv
  <2> QED
    BY <2>1, <2>2
<1>3. CASE req' = req
  BY <1>3 DEF IdleInv
<1> QED
  BY <1>1, <1>2, <1>3 DEF Next, Main, FatalError, Dead, vars

TableInv == RouteInv /\ IdleInv /\ \A r \in Requests : Covered(r)

LEMMA CoveredHolds == Spec => [](\A r \in Requests : Covered(r))
<1>1. Init => \A r \in Requests : Covered(r)
  <2> SUFFICES ASSUME Init, NEW r \in Requests PROVE Covered(r)
    OBVIOUS
  <2>1. /\ req[r].currentMatcher = <<>> /\ req[r].i = 0
        /\ req[r].st # "dispatched" /\ req[r].wasWildCard = FALSE
    BY DEF Init, IdleRequest
  <2>2. CursorStands(<<>>, req[r].host, 0, FALSE)
    BY CursorStarts
  <2> QED
    BY <2>1, <2>2 DEF Covered
<1> QED
  BY <1>1, CoveredStep, TrieInvHolds, PTL DEF Spec

LEMMA TableInvHolds == Spec => []TableInv
<1>1. Init => IdleInv
  BY DEF Init, IdleInv
<1> QED
  BY <1>1, IdleStep, RouteInvHolds, CoveredHolds, PTL DEF Spec, TableInv

LEMMA TableStep == TableInv /\ [Next]_vars => [Table!Next]_(Table!vars)
<1> SUFFICES ASSUME TableInv, [Next]_vars PROVE Table!Next \/ UNCHANGED Table!vars
  OBVIOUS
<1>1. CASE Main
  BY <1>1, MainTable DEF TableInv, RouteInv
<1>2. ASSUME NEW r \in Requests, Handle(r) PROVE Table!Next \/ UNCHANGED Table!vars
  BY <1>2, HandleTable DEF TableInv
<1>3. ASSUME NEW r \in Requests, Client(r) PROVE Table!Next \/ UNCHANGED Table!vars
  BY <1>3, ClientTable DEF TableInv
<1>4. ASSUME NEW r \in Requests, FatalError(r) PROVE Table!Next
  BY <1>4, FatalTable DEF TableInv
<1>5. CASE UNCHANGED vars
  <2>1. sites' = sites /\ alive' = alive /\ Attached' = Attached /\ req' = req
    BY <1>5 DEF vars, mainVars, Attached
  <2>2. \A r \in Requests : AskedOf(req[r])' = AskedOf(req[r])
    BY <2>1 DEF AskedOf
  <2> QED
    BY <2>1, <2>2, TableStutters
<1> QED
  BY <1>1, <1>2, <1>3, <1>4, <1>5 DEF Next, Dead

\* The tree, its walk and the race implement the table of sites, for all sites,
\* hosts and numbers of requests: each step is one of the table or is not seen.
THEOREM TreeImplementsTable == Spec => ImplementsSiteTable
<1> QED
  BY InitTable, TableStep, TableInvHolds, PTL DEF Spec, ImplementsSiteTable, Table!Spec

=============================================================================
