--------------------------- MODULE HandlerProofs ----------------------------
(***************************************************************************)
(* Theorems about Handler, for all sites, backends and requests: above all *)
(* that the walk of matchSite, which never looks back, ends at the best of *)
(* all walks (MatchSite).                                                  *)
(***************************************************************************)
EXTENDS Handler, HostTrieProofs

-----------------------------------------------------------------------------
(* The labels a walk follows.                                              *)

Kinds == {Nothing, Anything, Itself}

\* One component of a walk.
Follow(labels, kind, component) ==
  IF kind = Nothing THEN labels
  ELSE Append(labels, IF kind = Itself THEN component ELSE Wildcard)

LEMMA FollowType ==
  ASSUME NEW S, Wildcard \in S, NEW labels \in Seq(S), NEW kind, NEW component \in S
  PROVE  /\ Follow(labels, kind, component) \in Seq(S)
         /\ Follow(labels, kind, component) # labels =>
              \E label \in S : Follow(labels, kind, component) = Append(labels, label)
BY AppendProperties DEF Follow

IsFollowed(f, walk, components, n) ==
  f = [i \in 0..n |-> IF i = 0 THEN <<>> ELSE Follow(f[i - 1], walk[i], components[i])]

\* There are such labels for every number of components.
LEMMA FollowedExists ==
  ASSUME NEW walk, NEW components
  PROVE  \A n \in Nat : \E f : IsFollowed(f, walk, components, n)
<1> DEFINE Step(c, i) == Follow(c, walk[i], components[i])
           T == {n \in Nat : \E f : IsFollowed(f, walk, components, n)}
<1>1. 0 \in T
  <2> DEFINE c == [i \in 0..0 |-> <<>>]
  <2>1. \A i \in 0..0 : i = 0
    OBVIOUS
  <2>2. c = [i \in 0..0 |-> IF i = 0 THEN <<>> ELSE Step(c[i - 1], i)]
    BY <2>1
  <2>3. IsFollowed(c, walk, components, 0)
    BY <2>2 DEF IsFollowed
  <2> QED
    BY <2>3
<1>2. ASSUME NEW n \in T PROVE n + 1 \in T
  <2>1. PICK c : IsFollowed(c, walk, components, n)
    OBVIOUS
  <2>2. /\ c = [i \in 0..n |-> IF i = 0 THEN <<>> ELSE Step(c[i - 1], i)]
        /\ n \in Nat
    BY <2>1 DEF IsFollowed
  <2> HIDE DEF Step
  <2> DEFINE d == [i \in 0..n + 1 |-> IF i = n + 1 THEN Step(c[n], n + 1) ELSE c[i]]
  <2>3. \A i \in 0..n + 1 : d[i] = IF i = 0 THEN <<>> ELSE Step(d[i - 1], i)
    BY <2>2
  <2>4. d = [i \in 0..n + 1 |-> IF i = 0 THEN <<>> ELSE Step(d[i - 1], i)]
    BY <2>3
  <2> HIDE DEF d
  <2>5. IsFollowed(d, walk, components, n + 1)
    BY <2>4 DEF IsFollowed, Step
  <2>6. n + 1 \in Nat
    BY <2>2
  <2> QED
    BY <2>5, <2>6
<1>3. T = Nat
  <2> HIDE DEF T
  <2>1. T \in SUBSET Nat
    BY DEF T
  <2> QED
    BY <1>1, <1>2, <2>1, NatSetInduction
<1> QED
  BY <1>3

\* So Followed is what its recursion says.
LEMMA FollowedUnfolds ==
  ASSUME NEW K, NEW walk \in Seq(K), NEW components
  PROVE  /\ Followed(walk, components)[0] = <<>>
         /\ \A i \in 1..Len(walk) :
              Followed(walk, components)[i] =
                Follow(Followed(walk, components)[i - 1], walk[i], components[i])
<1> DEFINE n == Len(walk)
           c == Followed(walk, components)
           Step(f, i) == IF walk[i] = Nothing THEN f[i - 1]
                         ELSE Append(f[i - 1], IF walk[i] = Itself THEN components[i] ELSE Wildcard)
<1>1. n \in Nat
  OBVIOUS
<1>2. \E f : f = [i \in 0..n |-> IF i = 0 THEN <<>> ELSE Step(f, i)]
  <2>1. PICK f : IsFollowed(f, walk, components, n)
    <3> HIDE DEF n
    <3> QED
      BY <1>1, FollowedExists
  <2> QED
    BY <2>1 DEF IsFollowed, Follow
<1>3. c = [i \in 0..n |-> IF i = 0 THEN <<>> ELSE Step(c, i)]
  BY <1>2, Zenon DEF Followed
<1>4. \A i \in 1..n : Step(c, i) = Follow(c[i - 1], walk[i], components[i])
  BY DEF Follow
<1> HIDE DEF c, n, Step
<1>5. 0 \in 0..n /\ \A i \in 1..n : i \in 0..n /\ i # 0
  BY <1>1
<1>6. c[0] = <<>> /\ \A i \in 1..n : c[i] = Follow(c[i - 1], walk[i], components[i])
  BY <1>3, <1>4, <1>5
<1> QED
  BY <1>6 DEF c, n

\* They are labels, the ones behind each component continue those before it, and
\* walks that begin alike follow the same.
LEMMA FollowedProperties ==
  ASSUME NEW S, Wildcard \in S, NEW components \in Seq(S),
         NEW v \in Seq(Kinds), Len(v) <= Len(components)
  PROVE  /\ \A i \in 0..Len(v) : Followed(v, components)[i] \in Seq(S)
         /\ \A i \in 0..Len(v) :
              \E k \in 0..Len(Labels(v, components)) :
                Followed(v, components)[i] = SubSeq(Labels(v, components), 1, k)
<1> DEFINE n == Len(v)
           f == Followed(v, components)
<1>0. n \in Nat /\ n <= Len(components) /\ Len(components) \in Nat
  OBVIOUS
<1>1. \A i \in 1..n : f[i] = Follow(f[i - 1], v[i], components[i])
  BY FollowedUnfolds
<1>2. f[0] = <<>>
  BY FollowedUnfolds
<1>3. \A i \in 1..n : components[i] \in S
  BY <1>0
<1> HIDE DEF f, n
<1>4. \A i \in 0..n : f[i] \in Seq(S)
  <2> DEFINE T == {i \in Nat : i <= n => f[i] \in Seq(S)}
  <2>1. 0 \in T
    BY <1>2, EmptySeq
  <2>2. ASSUME NEW i \in T PROVE i + 1 \in T
    <3> SUFFICES ASSUME i + 1 <= n PROVE f[i + 1] \in Seq(S)
      OBVIOUS
    <3>1. f[i] \in Seq(S) /\ i + 1 \in 1..n /\ (i + 1) - 1 = i
      BY <1>0
    <3>2. f[i + 1] = Follow(f[i], v[i + 1], components[i + 1]) /\ components[i + 1] \in S
      BY <1>1, <1>3, <3>1
    <3> QED
      BY <3>1, <3>2, FollowType
  <2>3. T \in SUBSET Nat
    OBVIOUS
  <2> HIDE DEF T
  <2>4. T = Nat
    BY <2>1, <2>2, <2>3, NatSetInduction
  <2> QED
    BY <1>0, <2>4 DEF T
<1> DEFINE Inside(i) == \E k \in 0..Len(f[n]) : f[i] = SubSeq(f[n], 1, k)
<1>5. \A i \in 0..n : Inside(i)
  <2> DEFINE T == {j \in Nat : j <= n => Inside(n - j)}
  <2>1. 0 \in T
    <3>1. f[n] \in Seq(S) /\ n - 0 = n
      BY <1>0, <1>4
    <3>2. f[n] = SubSeq(f[n], 1, Len(f[n])) /\ Len(f[n]) \in 0..Len(f[n])
      BY <3>1, SubSeqFull, LenProperties
    <3> QED
      BY <3>1, <3>2
  <2>2. ASSUME NEW j \in T PROVE j + 1 \in T
    <3> SUFFICES ASSUME j + 1 <= n PROVE Inside(n - (j + 1))
      OBVIOUS
    <3> DEFINE i == n - j
    <3>1. i \in 1..n /\ n - (j + 1) = i - 1 /\ i - 1 \in 0..n /\ Inside(i)
      BY <1>0
    <3> HIDE DEF i
    <3>2. PICK k \in 0..Len(f[n]) : f[i] = SubSeq(f[n], 1, k)
      BY <3>1
    <3>3. f[i] \in Seq(S) /\ f[i - 1] \in Seq(S) /\ f[n] \in Seq(S) /\ n \in 0..n
      BY <1>0, <1>4, <3>1
    <3>4. CASE f[i] = f[i - 1]
      BY <3>1, <3>2, <3>4
    <3>5. CASE f[i] # f[i - 1]
      <4>1. PICK label \in S : f[i] = Append(f[i - 1], label)
        <5>1. f[i] = Follow(f[i - 1], v[i], components[i]) /\ components[i] \in S
          BY <1>1, <1>3, <3>1
        <5>2. PICK g, kind, component :
                g = f[i - 1] /\ kind = v[i] /\ component = components[i]
          OBVIOUS
        <5>3. /\ g \in Seq(S) /\ component \in S
              /\ f[i] = Follow(g, kind, component) /\ f[i] # g
          BY <3>3, <3>5, <5>1, <5>2
        <5>4. \E label \in S : f[i] = Append(g, label)
          BY <5>3, FollowType
        <5> QED
          BY <5>2, <5>4
      <4> DEFINE g == f[i - 1]
                 w == f[n]
      <4>2. Len(f[i]) = Len(g) + 1 /\ Len(g) \in Nat /\ Len(f[i]) = k
        <5>1. Len(f[i]) = Len(g) + 1 /\ Len(g) \in Nat
          BY <3>3, <4>1
        <5>2. Len(f[i]) = k
          BY <3>2, <3>3, PrefixesOfPrefix
        <5> QED
          BY <5>1, <5>2
      <4>3. k - 1 \in 0..(Len(w) - 1) /\ k - 1 \in 0..Len(w) /\ (k - 1) + 1 = k
        BY <3>3, <4>2
      <4>4. SubSeq(w, 1, k) = Append(SubSeq(w, 1, k - 1), w[k])
        BY <3>3, <4>3, PrefixStep
      <4>5. g = SubSeq(w, 1, k - 1)
        <5>1. SubSeq(w, 1, k - 1) \in Seq(S) /\ w[k] \in S
          BY <3>3, <4>3, PrefixStep
        <5> DEFINE u == SubSeq(w, 1, k - 1)
        <5>2. Append(g, label) = Append(u, w[k]) /\ u \in Seq(S) /\ g \in Seq(S)
          BY <3>2, <3>3, <4>1, <4>4, <5>1
        <5> HIDE DEF u
        <5>3. g = u
          BY <5>1, <5>2, AppendInjective
        <5> QED
          BY <5>3 DEF u
      <4> QED
        BY <3>1, <4>3, <4>5
    <3> QED
      BY <3>4, <3>5
  <2>3. T \in SUBSET Nat
    OBVIOUS
  <2> HIDE DEF T, Inside
  <2>4. T = Nat
    BY <2>1, <2>2, <2>3, NatSetInduction
  <2>5. ASSUME NEW i \in 0..n PROVE Inside(i)
    <3>1. n - i \in T /\ n - i <= n /\ n - (n - i) = i
      BY <1>0, <2>4
    <3>2. Inside(n - (n - i))
      BY <3>1 DEF T
    <3> QED
      BY <3>1, <3>2
  <2> QED
    BY <2>5
<1> QED
  BY <1>4, <1>5 DEF f, n, Labels

\* Walks that agree so far have followed the same labels.
LEMMA FollowedAlike ==
  ASSUME NEW S, NEW components \in Seq(S), NEW v \in Seq(Kinds), NEW w \in Seq(Kinds),
         NEW k \in Nat, k <= Len(v), k <= Len(w), \A i \in 1..k : v[i] = w[i]
  PROVE  Followed(v, components)[k] = Followed(w, components)[k]
<1> DEFINE f == Followed(v, components)
           g == Followed(w, components)
           T == {i \in Nat : i <= k => f[i] = g[i]}
<1>1. f[0] = <<>> /\ \A i \in 1..Len(v) : f[i] = Follow(f[i - 1], v[i], components[i])
  BY FollowedUnfolds
<1>2. g[0] = <<>> /\ \A i \in 1..Len(w) : g[i] = Follow(g[i - 1], w[i], components[i])
  BY FollowedUnfolds
<1>3. Len(v) \in Nat /\ Len(w) \in Nat
  OBVIOUS
<1> HIDE DEF f, g
<1>4. 0 \in T
  BY <1>1, <1>2
<1>5. ASSUME NEW i \in T PROVE i + 1 \in T
  <2> SUFFICES ASSUME i + 1 <= k PROVE f[i + 1] = g[i + 1]
    OBVIOUS
  <2>1. /\ i + 1 \in 1..Len(v) /\ i + 1 \in 1..Len(w) /\ i + 1 \in 1..k
        /\ (i + 1) - 1 = i /\ f[i] = g[i]
    BY <1>3
  <2> QED
    BY <1>1, <1>2, <2>1
<1>6. T \in SUBSET Nat
  OBVIOUS
<1> HIDE DEF T
<1>7. T = Nat
  BY <1>4, <1>5, <1>6, NatSetInduction
<1> QED
  BY <1>7 DEF T, f, g

LEMMA PrefixAgrees ==
  ASSUME NEW v \in Seq(Kinds), NEW w \in Seq(Kinds),
         NEW k \in Nat, k <= Len(v), k <= Len(w)
  PROVE  Prefix(v, k) = Prefix(w, k) <=> \A i \in 1..k : v[i] = w[i]
<1>1. k \in 0..Len(v) /\ k \in 0..Len(w)
  OBVIOUS
<1>2. ASSUME NEW u \in Seq(Kinds), k <= Len(u)
      PROVE  /\ Prefix(u, k) \in Seq(Kinds) /\ Len(Prefix(u, k)) = k
             /\ \A i \in 1..k : Prefix(u, k)[i] = u[i]
  <2>1. \A i \in 1..k : u[i] \in Kinds
    BY <1>2
  <2> QED
    BY <1>2, <2>1, SubSeqProperties DEF Prefix
<1>3. ASSUME \A i \in 1..k : v[i] = w[i] PROVE Prefix(v, k) = Prefix(w, k)
  <2>1. \A i \in 1..k : Prefix(v, k)[i] = Prefix(w, k)[i]
    BY <1>2, <1>3
  <2> QED
    BY <1>2, <2>1, SeqEqual
<1>4. ASSUME Prefix(v, k) = Prefix(w, k), NEW i \in 1..k PROVE v[i] = w[i]
  <2>1. Prefix(v, k)[i] = v[i] /\ Prefix(w, k)[i] = w[i]
    BY <1>2
  <2> QED
    BY <1>4, <2>1
<1> QED
  BY <1>3, <1>4

-----------------------------------------------------------------------------
(* The best walk.                                                          *)

\* What a walk is.
LEMMA WalkShape ==
  ASSUME NEW S, NEW hosts, NEW components \in Seq(S), NEW w
  PROVE  w \in Walks(hosts, components) <=>
           /\ w \in Seq(Kinds) /\ Len(w) <= Len(components)
           /\ \A i \in 1..Len(w) : w[i] = Nothing => LastOf(w, i - 1) # Itself
           /\ Labels(w, components) \in NodesOf(hosts)
<1> DEFINE n == Len(components)
           Shapes == UNION {[1..m -> {Nothing, Anything, Itself}] : m \in 0..n}
<1>1. n \in Nat
  OBVIOUS
<1> HIDE DEF n
<1>2. ASSUME NEW m \in 0..n, w \in [1..m -> Kinds]
      PROVE  w \in Seq(Kinds) /\ Len(w) = m /\ DOMAIN w = 1..m
  <2>1. m \in Nat
    BY <1>1
  <2> QED
    BY <1>2, <2>1
<1>3. w \in Shapes => w \in Seq(Kinds) /\ Len(w) <= n /\ DOMAIN w = 1..Len(w)
  BY <1>1, <1>2 DEF Kinds
<1>4. ASSUME w \in Seq(Kinds), Len(w) <= n PROVE w \in Shapes /\ DOMAIN w = 1..Len(w)
  <2>1. Len(w) \in 0..n /\ w \in [1..Len(w) -> Kinds]
    BY <1>1, <1>4, LenProperties
  <2> QED
    BY <2>1 DEF Kinds
<1>5. w \in Walks(hosts, components) <=>
        /\ w \in Shapes
        /\ \A i \in DOMAIN w : w[i] = Nothing => LastOf(w, i - 1) # Itself
        /\ Labels(w, components) \in NodesOf(hosts)
  BY DEF Walks, n
<1> HIDE DEF Shapes
<1> QED
  BY <1>3, <1>4, <1>5 DEF n

LEMMA BetterOneWay ==
  ASSUME NEW v \in Seq(Kinds), NEW w \in Seq(Kinds), Better(v, w), Better(w, v)
  PROVE  FALSE
<1>0. /\ Len(v) \in Nat /\ Len(w) \in Nat /\ DOMAIN v = 1..Len(v) /\ DOMAIN w = 1..Len(w)
      /\ \A i \in 1..Len(v) : v[i] \in Nat
      /\ \A i \in 1..Len(w) : w[i] \in Nat
  <2>1. Kinds \subseteq Nat
    BY DEF Kinds, Nothing, Anything, Itself
  <2> QED
    BY <2>1, LenProperties
<1>1. PICK i \in 1..Len(v) : /\ i <= Len(w) + 1 /\ Prefix(v, i - 1) = Prefix(w, i - 1)
                             /\ i \in 1..Len(w) => v[i] > w[i]
  BY <1>0 DEF Better
<1>2. PICK j \in 1..Len(w) : /\ j <= Len(v) + 1 /\ Prefix(w, j - 1) = Prefix(v, j - 1)
                             /\ j \in 1..Len(v) => w[j] > v[j]
  BY <1>0 DEF Better
<1>3. \A k \in 1..i - 1 : v[k] = w[k]
  <2>1. i - 1 \in Nat /\ i - 1 <= Len(v) /\ i - 1 <= Len(w)
    BY <1>0, <1>1
  <2> QED
    BY <1>1, <2>1, PrefixAgrees
<1>4. \A k \in 1..j - 1 : v[k] = w[k]
  <2>1. j - 1 \in Nat /\ j - 1 <= Len(v) /\ j - 1 <= Len(w)
    BY <1>0, <1>2
  <2> QED
    BY <1>2, <2>1, PrefixAgrees
<1>5. CASE i < j
  BY <1>0, <1>1, <1>2, <1>4, <1>5
<1>6. CASE j < i
  BY <1>0, <1>1, <1>2, <1>3, <1>6
<1>7. CASE i = j
  BY <1>0, <1>1, <1>2, <1>7
<1> QED
  BY <1>5, <1>6, <1>7

\* A walk that takes the best kind at every component and ends when none is left.
IsGreedy(g, hosts, components) ==
  LET node(j) == Followed(g, components)[j]
      nodes == NodesOf(hosts)
  IN  /\ g \in Walks(hosts, components)
      /\ \A j \in 1..Len(g) :
           /\ Append(node(j - 1), components[j]) \in nodes => g[j] = Itself
           /\ g[j] = Nothing => Append(node(j - 1), Wildcard) \notin nodes
      /\ Len(g) < Len(components) =>
           /\ Append(node(Len(g)), components[Len(g) + 1]) \notin nodes
           /\ Append(node(Len(g)), Wildcard) \notin nodes
           /\ LastOf(g, Len(g)) = Itself

\* The node that a walk has come to behind each component is one of the tree.
LEMMA FollowedInTree ==
  ASSUME NEW S, Wildcard \in S, NEW hosts \in SUBSET Seq(S), NEW components \in Seq(S),
         NEW w \in Walks(hosts, components), NEW i \in 0..Len(w)
  PROVE  Followed(w, components)[i] \in NodesOf(hosts)
<1>1. w \in Seq(Kinds) /\ Len(w) <= Len(components) /\ Labels(w, components) \in NodesOf(hosts)
  BY WalkShape
<1>2. PICK k \in 0..Len(Labels(w, components)) :
        Followed(w, components)[i] = SubSeq(Labels(w, components), 1, k)
  BY <1>1, FollowedProperties
<1> QED
  BY <1>1, <1>2, NodesAreClosed

LEMMA GreedyIsBetter ==
  ASSUME NEW S, Wildcard \in S, NEW hosts \in SUBSET Seq(S), NEW components \in Seq(S),
         NEW g, IsGreedy(g, hosts, components), NEW v \in Walks(hosts, components), v # g
  PROVE  Better(g, v)
<1> DEFINE n == Len(components)
           nodes == NodesOf(hosts)
           F(w) == Followed(w, components)
<1>0. /\ g \in Walks(hosts, components)
      /\ g \in Seq(Kinds) /\ v \in Seq(Kinds) /\ Len(g) <= n /\ Len(v) <= n
      /\ n \in Nat /\ Len(g) \in Nat /\ Len(v) \in Nat
      /\ DOMAIN g = 1..Len(g) /\ DOMAIN v = 1..Len(v)
  <2>1. g \in Walks(hosts, components)
    BY DEF IsGreedy
  <2>2. g \in Seq(Kinds) /\ v \in Seq(Kinds) /\ Len(g) <= n /\ Len(v) <= n
    BY <2>1, WalkShape
  <2> QED
    BY <2>1, <2>2, LenProperties
<1> DEFINE Differ == {i \in Nat \ {0} : i > Len(g) \/ i > Len(v) \/ v[i] # g[i]}
<1>1. PICK i \in Differ : \A k \in Differ : i <= k
  <2>1. Len(g) + 1 \in Differ
    BY <1>0
  <2>2. Differ \in SUBSET Nat
    OBVIOUS
  <2> HIDE DEF Differ
  <2> QED
    BY <2>1, <2>2, LeastNat
<1>2. /\ i \in Nat /\ i >= 1 /\ i - 1 \in Nat /\ i - 1 <= Len(g) /\ i - 1 <= Len(v)
      /\ \A k \in 1..i - 1 : v[k] = g[k]
  <2>1. i \in Nat \ {0} /\ \A k \in 1..i - 1 : k \notin Differ
    BY <1>1
  <2>2. \A k \in 1..i - 1 : k <= Len(g) /\ k <= Len(v) /\ v[k] = g[k]
    BY <1>0, <2>1
  <2>3. i - 1 = 0 \/ i - 1 \in 1..i - 1
    BY <2>1
  <2> QED
    BY <1>0, <2>1, <2>2, <2>3
<1>3. Prefix(g, i - 1) = Prefix(v, i - 1)
  BY <1>0, <1>2, PrefixAgrees
<1>4. i <= Len(g) \/ i <= Len(v)
  <2> SUFFICES ASSUME i > Len(g), i > Len(v) PROVE FALSE
    BY <1>0, <1>2
  <2>1. i - 1 = Len(g) /\ i - 1 = Len(v)
    BY <1>0, <1>2
  <2> QED
    BY <1>0, <1>2, <2>1, SeqEqual
\* What the other walk finds at i, the greedy one has found as well.
<1> DEFINE node == F(g)[i - 1]
<1>5. node = F(v)[i - 1]
  BY <1>0, <1>2, FollowedAlike
<1>6. ASSUME i <= Len(v)
      PROVE  /\ v[i] \in Kinds /\ i \in 1..Len(v)
             /\ v[i] = Itself => Append(node, components[i]) \in nodes
             /\ v[i] = Anything => Append(node, Wildcard) \in nodes
             /\ v[i] = Nothing => LastOf(v, i - 1) # Itself
  <2>1. i \in 1..Len(v) /\ i \in 0..Len(v)
    BY <1>0, <1>2, <1>6
  <2>2. F(v)[i] = Follow(F(v)[i - 1], v[i], components[i])
    BY <1>0, <2>1, FollowedUnfolds
  <2>3. F(v)[i] \in nodes
    BY <2>1, FollowedInTree
  <2>4. v[i] = Nothing => LastOf(v, i - 1) # Itself
    BY <2>1, WalkShape
  <2>5. v[i] \in Kinds
    BY <1>0, <2>1
  <2> HIDE DEF F, node, nodes
  <2>6. /\ v[i] = Itself => Append(node, components[i]) \in nodes
        /\ v[i] = Anything => Append(node, Wildcard) \in nodes
    BY <1>5, <2>2, <2>3 DEF Follow, Itself, Anything, Nothing
  <2> QED
    BY <2>1, <2>4, <2>5, <2>6
<1>7. CASE i <= Len(g)
  <2>1. i \in 1..Len(g) /\ i <= Len(v) + 1
    BY <1>0, <1>2, <1>7
  <2>2. /\ Append(node, components[i]) \in nodes => g[i] = Itself
        /\ g[i] = Nothing => Append(node, Wildcard) \notin nodes
    BY <2>1 DEF IsGreedy
  <2>3. ASSUME i \in 1..Len(v) PROVE g[i] > v[i]
    <3>1. g[i] \in Kinds /\ v[i] # g[i] /\ i <= Len(v)
      BY <1>0, <1>1, <2>1, <2>3
    <3> QED
      BY <1>6, <2>2, <3>1 DEF Kinds, Itself, Anything, Nothing
  <2> QED
    BY <1>0, <1>3, <2>1, <2>3 DEF Better
<1>8. CASE i > Len(g)
  <2>1. i - 1 = Len(g) /\ i <= Len(v) /\ Len(g) < n /\ Len(g) + 1 = i
    BY <1>0, <1>2, <1>4, <1>8
  <2>2. /\ Append(node, components[i]) \notin nodes
        /\ Append(node, Wildcard) \notin nodes
        /\ LastOf(g, i - 1) = Itself
    BY <2>1 DEF IsGreedy
  <2>3. LastOf(v, i - 1) = LastOf(g, i - 1)
    BY <1>2 DEF LastOf
  <2> QED
    BY <1>6, <2>1, <2>2, <2>3 DEF Kinds
<1> QED
  BY <1>0, <1>2, <1>7, <1>8

-----------------------------------------------------------------------------
(* The walk of matchSite is that walk.                                     *)

CursorSet(nodes) == [node : nodes, wasWildCard : BOOLEAN, stopped : BOOLEAN]

\* What one iteration makes of a cursor that has not stopped.
LabelMatched(nodes, cursor, next, own, wild) ==
  /\ own \in nodes =>
       next.node = own /\ next.wasWildCard = FALSE /\ next.stopped = FALSE
  /\ own \notin nodes /\ wild \in nodes =>
       next.node = wild /\ next.wasWildCard = TRUE /\ next.stopped = FALSE
  /\ own \notin nodes /\ wild \notin nodes =>
       /\ next.node = cursor.node /\ next.wasWildCard = cursor.wasWildCard
       /\ cursor.wasWildCard = TRUE => next.stopped = FALSE
       /\ cursor.wasWildCard = FALSE => next.stopped = TRUE

LEMMA MatchLabelCases ==
  ASSUME NEW hosts, NEW cursor \in CursorSet(NodesOf(hosts)), NEW label,
         cursor.stopped = FALSE,
         NEW next, next = MatchLabel(TrieOf(hosts), cursor, label),
         NEW own, own = Append(cursor.node, label),
         NEW wild, wild = Append(cursor.node, Wildcard)
  PROVE  LabelMatched(NodesOf(hosts), cursor, next, own, wild)
<1>1. DOMAIN TrieOf(hosts) = NodesOf(hosts)
  BY DEF TrieOf
<1> QED
  BY <1>1 DEF MatchLabel, Found, CursorSet, LabelMatched

\* The loop ends at the node to which a greedy walk leads.
LEMMA MatchSiteIsGreedy ==
  ASSUME NEW S, Wildcard \in S, NEW hosts \in SUBSET Seq(S), NEW components \in Seq(S)
  PROVE  \E g : /\ IsGreedy(g, hosts, components)
                /\ Labels(g, components) =
                     Cursor(TrieOf(hosts), components)[Len(components)].node
<1> DEFINE n == Len(components)
           nodes == NodesOf(hosts)
           t == TrieOf(hosts)
           c == Cursor(t, components)
<1>0. n \in Nat
  OBVIOUS
<1>1. <<>> \in nodes /\ DOMAIN t = nodes
  BY DEF NodesOf, TrieOf
<1>2. \A i \in 0..n : c[i] \in CursorSet(nodes)
  BY <1>1, CursorType DEF CursorSet
<1>3. /\ c[0] = CursorStart
      /\ \A i \in 1..n : c[i] = MatchLabel(t, c[i - 1], components[i])
  BY CursorUnfolds
\* m components are looked at before the loop stops.
<1> DEFINE Stops == {i \in Nat : i < n => c[i + 1].stopped}
<1>4. PICK m \in Stops : \A k \in Stops : m <= k
  <2>1. n \in Stops /\ Stops \in SUBSET Nat
    BY <1>0
  <2> HIDE DEF Stops
  <2> QED
    BY <2>1, LeastNat
<1>5. m \in Nat /\ m <= n
  <2>1. n \in Stops
    BY <1>0
  <2> QED
    BY <1>0, <1>4, <2>1
<1>6. \A i \in 0..m : c[i].stopped = FALSE
  <2> TAKE i \in 0..m
  <2>1. CASE i = 0
    BY <1>3, <2>1 DEF CursorStart
  <2>2. CASE i # 0
    <3>1. i - 1 \in Nat /\ i - 1 < m /\ i - 1 < n /\ (i - 1) + 1 = i /\ i \in 0..n
      BY <1>5, <2>2
    <3>2. i - 1 \notin Stops
      BY <1>4, <1>5, <3>1
    <3>3. ~c[i].stopped
      BY <3>1, <3>2
    <3> QED
      BY <1>2, <3>1, <3>3 DEF CursorSet
  <2> QED
    BY <2>1, <2>2
<1> DEFINE own(j) == Append(c[j - 1].node, components[j])
           wild(j) == Append(c[j - 1].node, Wildcard)
           g == [j \in 1..m |-> IF own(j) \in nodes THEN Itself
                                ELSE IF wild(j) \in nodes THEN Anything ELSE Nothing]
<1>7. g \in Seq(Kinds) /\ Len(g) = m
  BY <1>5 DEF Kinds
<1>8. ASSUME NEW j \in 1..m
      PROVE  /\ g[j] = Itself <=> own(j) \in nodes
             /\ g[j] = Anything <=> own(j) \notin nodes /\ wild(j) \in nodes
             /\ g[j] = Nothing <=> own(j) \notin nodes /\ wild(j) \notin nodes
             /\ g[j] = Itself => c[j].node = own(j) /\ c[j].wasWildCard = FALSE
             /\ g[j] = Anything => c[j].node = wild(j) /\ c[j].wasWildCard = TRUE
             /\ g[j] = Nothing => /\ c[j].node = c[j - 1].node
                                  /\ c[j - 1].wasWildCard = TRUE /\ c[j].wasWildCard = TRUE
  <2>1. /\ j \in 1..n /\ j \in 0..m /\ j - 1 \in 0..m /\ j - 1 \in 0..n /\ j \in 0..n
    BY <1>5
  <2>2. /\ c[j - 1] \in CursorSet(nodes) /\ c[j - 1].stopped = FALSE /\ c[j].stopped = FALSE
        /\ c[j] = MatchLabel(t, c[j - 1], components[j])
    BY <1>2, <1>3, <1>6, <2>1
  <2>3. c[j - 1].wasWildCard \in BOOLEAN
    BY <2>2 DEF CursorSet
  <2>4. g[j] = IF own(j) \in nodes THEN Itself
               ELSE IF wild(j) \in nodes THEN Anything ELSE Nothing
    OBVIOUS
  <2> PICK p, q, k, label : p = c[j - 1] /\ q = c[j] /\ k = g[j] /\ label = components[j]
    OBVIOUS
  <2>5. /\ p \in CursorSet(nodes) /\ p.stopped = FALSE /\ q.stopped = FALSE
        /\ q = MatchLabel(t, p, label) /\ p.wasWildCard \in BOOLEAN
    BY <2>2, <2>3
  <2> PICK o, w : o = Append(p.node, label) /\ w = Append(p.node, Wildcard)
    OBVIOUS
  <2>6. LabelMatched(nodes, p, q, o, w)
    BY <2>5, MatchLabelCases
  <2>7. k = IF o \in nodes THEN Itself ELSE IF w \in nodes THEN Anything ELSE Nothing
    BY <2>4
  <2>8. own(j) = o /\ wild(j) = w
    OBVIOUS
  <2> HIDE DEF c, g, t, nodes, own, wild
  <2>9. /\ k = Itself <=> o \in nodes
        /\ k = Anything <=> o \notin nodes /\ w \in nodes
        /\ k = Nothing <=> o \notin nodes /\ w \notin nodes
        /\ k = Itself => q.node = o /\ q.wasWildCard = FALSE
        /\ k = Anything => q.node = w /\ q.wasWildCard = TRUE
        /\ k = Nothing => q.node = p.node /\ p.wasWildCard = TRUE /\ q.wasWildCard = TRUE
    <3>1. CASE o \in nodes
      BY <2>5, <2>6, <2>7, <3>1 DEF LabelMatched, Itself, Anything, Nothing
    <3>2. CASE o \notin nodes /\ w \in nodes
      BY <2>5, <2>6, <2>7, <3>2 DEF LabelMatched, Itself, Anything, Nothing
    <3>3. CASE o \notin nodes /\ w \notin nodes
      BY <2>5, <2>6, <2>7, <3>3 DEF LabelMatched, Itself, Anything, Nothing
    <3> QED
      BY <3>1, <3>2, <3>3
  <2> QED
    BY <2>8, <2>9
<1> HIDE DEF Stops, c, g
<1>9. \A j \in 0..m : Followed(g, components)[j] = c[j].node
  <2> DEFINE F == Followed(g, components)
             T == {j \in Nat : j <= m => F[j] = c[j].node}
  <2>1. F[0] = <<>> /\ \A j \in 1..m : F[j] = Follow(F[j - 1], g[j], components[j])
    BY <1>7, FollowedUnfolds
  <2> HIDE DEF F
  <2>2. 0 \in T
    BY <1>3, <2>1 DEF CursorStart
  <2>3. ASSUME NEW i \in T PROVE i + 1 \in T
    <3> SUFFICES ASSUME i + 1 <= m PROVE F[i + 1] = c[i + 1].node
      OBVIOUS
    <3>1. F[i] = c[i].node /\ i + 1 \in 1..m /\ (i + 1) - 1 = i
      BY <1>5
    <3>2. F[i + 1] = Follow(F[i], g[i + 1], components[i + 1])
      BY <2>1, <3>1
    <3>3. g[i + 1] \in Kinds
      BY <1>7, <3>1
    <3> PICK k, p, q, label : /\ k = g[i + 1] /\ label = components[i + 1]
                              /\ p = c[i].node /\ q = c[i + 1].node
      OBVIOUS
    <3>4. /\ k = Itself => q = Append(p, label)
          /\ k = Anything => q = Append(p, Wildcard)
          /\ k = Nothing => q = p
      BY <1>8, <3>1
    <3>5. F[i + 1] = Follow(p, k, label)
      BY <3>1, <3>2
    <3>6. Follow(p, k, label) = q
      BY <3>3, <3>4 DEF Follow, Kinds, Itself, Anything, Nothing
    <3> QED
      BY <3>5, <3>6
  <2>4. T \in SUBSET Nat
    OBVIOUS
  <2> HIDE DEF T
  <2>5. T = Nat
    BY <2>2, <2>3, <2>4, NatSetInduction
  <2> QED
    BY <1>5, <2>5 DEF T, F
<1>10. \A j \in 0..m : LastOf(g, j) = Itself <=> c[j].wasWildCard = FALSE
  <2> TAKE j \in 0..m
  <2>1. CASE j = 0
    BY <1>3, <2>1 DEF LastOf, CursorStart
  <2>2. CASE j # 0
    <3>1. j \in 1..m /\ g[j] \in Kinds /\ LastOf(g, j) = g[j]
      BY <1>5, <1>7, <2>2 DEF LastOf
    <3> QED
      BY <1>8, <3>1 DEF Kinds, Itself, Anything, Nothing
  <2> QED
    BY <2>1, <2>2
<1>11. m < n =>
         /\ Append(c[m].node, components[m + 1]) \notin nodes
         /\ Append(c[m].node, Wildcard) \notin nodes
         /\ c[m].wasWildCard = FALSE
         /\ c[m + 1].node = c[m].node /\ c[m + 1].stopped = TRUE
  <2> SUFFICES ASSUME m < n
               PROVE  /\ Append(c[m].node, components[m + 1]) \notin nodes
                      /\ Append(c[m].node, Wildcard) \notin nodes
                      /\ c[m].wasWildCard = FALSE
                      /\ c[m + 1].node = c[m].node /\ c[m + 1].stopped = TRUE
    OBVIOUS
  <2>1. m + 1 \in 1..n /\ (m + 1) - 1 = m /\ m \in 0..m /\ m \in 0..n /\ m + 1 \in 0..n
    BY <1>0, <1>5
  <2>2. c[m + 1].stopped
    BY <1>4 DEF Stops
  <2>3. /\ c[m] \in CursorSet(nodes) /\ c[m].stopped = FALSE
        /\ c[m + 1] \in CursorSet(nodes)
        /\ c[m + 1] = MatchLabel(t, c[m], components[m + 1])
    BY <1>2, <1>3, <1>6, <2>1
  <2>4. c[m].wasWildCard \in BOOLEAN /\ c[m + 1].stopped = TRUE
    BY <2>2, <2>3 DEF CursorSet
  <2> PICK p, q, label : p = c[m] /\ q = c[m + 1] /\ label = components[m + 1]
    OBVIOUS
  <2>5. /\ p \in CursorSet(nodes) /\ p.stopped = FALSE /\ q.stopped = TRUE
        /\ q = MatchLabel(t, p, label) /\ p.wasWildCard \in BOOLEAN
    BY <2>3, <2>4
  <2> PICK o, w : o = Append(p.node, label) /\ w = Append(p.node, Wildcard)
    OBVIOUS
  <2>6. LabelMatched(nodes, p, q, o, w)
    BY <2>5, MatchLabelCases
  <2>7. o \notin nodes /\ w \notin nodes /\ p.wasWildCard = FALSE /\ q.node = p.node
    BY <2>5, <2>6 DEF LabelMatched
  <2> QED
    BY <2>4, <2>7
<1>12. c[n].node = c[m].node
  <2>1. CASE m = n
    BY <2>1
  <2>2. CASE m < n
    <3>1. m + 1 \in 0..n /\ c[m + 1] \in CursorSet(nodes) /\ c[m + 1].stopped = TRUE
      BY <1>0, <1>2, <1>5, <1>11, <2>2
    <3>2. /\ c[m + 1].wasWildCard \in BOOLEAN
          /\ c[m + 1] = [node |-> c[m + 1].node, wasWildCard |-> c[m + 1].wasWildCard,
                         stopped |-> TRUE]
      BY <3>1 DEF CursorSet
    <3>3. c[n].node = c[m + 1].node
      BY <3>1, <3>2, StoppedStays DEF c
    <3> QED
      BY <1>11, <2>2, <3>3
  <2> QED
    BY <1>0, <1>5, <2>1, <2>2
<1>13. Labels(g, components) = c[n].node
  BY <1>5, <1>7, <1>9, <1>12 DEF Labels
<1>14. g \in Walks(hosts, components)
  <2>1. c[n].node \in nodes
    BY <1>0, <1>2 DEF CursorSet
  <2>2. ASSUME NEW i \in 1..Len(g), g[i] = Nothing PROVE LastOf(g, i - 1) # Itself
    <3>1. i \in 1..m /\ i - 1 \in 0..m
      BY <1>5, <1>7
    <3> QED
      BY <1>8, <1>10, <2>2, <3>1
  <2> QED
    BY <1>5, <1>7, <1>13, <2>1, <2>2, WalkShape
<1>15. IsGreedy(g, hosts, components)
  <2>1. ASSUME NEW j \in 1..Len(g)
        PROVE  /\ Append(Followed(g, components)[j - 1], components[j]) \in nodes => g[j] = Itself
               /\ g[j] = Nothing => Append(Followed(g, components)[j - 1], Wildcard) \notin nodes
    <3>1. j \in 1..m /\ j - 1 \in 0..m /\ Followed(g, components)[j - 1] = c[j - 1].node
      BY <1>5, <1>7, <1>9
    <3> QED
      BY <1>8, <3>1
  <2>2. ASSUME Len(g) < n
        PROVE  /\ Append(Followed(g, components)[Len(g)], components[Len(g) + 1]) \notin nodes
               /\ Append(Followed(g, components)[Len(g)], Wildcard) \notin nodes
               /\ LastOf(g, Len(g)) = Itself
    <3>1. m < n /\ m \in 0..m /\ Followed(g, components)[m] = c[m].node
      BY <1>5, <1>7, <1>9, <2>2
    <3> QED
      BY <1>7, <1>10, <1>11, <3>1
  <2> QED
    BY <1>14, <2>1, <2>2 DEF IsGreedy
<1> QED
  BY <1>13, <1>15 DEF c

\* So matchSite, which only looks forward, finds the site of the best walk.
THEOREM MatchSiteIsBest ==
  ASSUME NEW S, Wildcard \in S, NEW hosts \in SUBSET Seq(S), NEW host \in Seq(S)
  PROVE  MatchSite(TrieOf(hosts), host) = BestSite(hosts, host)
<1> DEFINE components == HostComponents(host)
           walks == Walks(hosts, components)
<1>1. components \in Seq(S)
  BY ReverseProperties DEF HostComponents
<1> HIDE DEF components
<1>2. PICK g : /\ IsGreedy(g, hosts, components)
               /\ Labels(g, components) =
                    Cursor(TrieOf(hosts), components)[Len(components)].node
  BY <1>1, MatchSiteIsGreedy
<1>3. g \in walks /\ \A v \in walks : v # g => Better(g, v)
  BY <1>1, <1>2, GreedyIsBetter DEF IsGreedy
<1>4. ASSUME NEW w \in walks, \A v \in walks : v # w => Better(w, v) PROVE w = g
  <2> SUFFICES ASSUME w # g PROVE FALSE
    OBVIOUS
  <2>1. Better(w, g) /\ Better(g, w)
    BY <1>3, <1>4
  <2>2. w \in Seq(Kinds) /\ g \in Seq(Kinds)
    BY <1>1, <1>3, WalkShape
  <2> QED
    BY <2>1, <2>2, BetterOneWay
<1>5. BestWalk(hosts, components) = g
  <2> HIDE DEF walks
  <2>1. BestWalk(hosts, components) = CHOOSE w \in walks : \A v \in walks : v # w => Better(w, v)
    BY DEF BestWalk, walks
  <2> QED
    BY <1>3, <1>4, <2>1
<1> QED
  BY <1>2, <1>5 DEF MatchSite, BestSite, components

-----------------------------------------------------------------------------
(* The site of a request.                                                  *)

\* What the configuration and the client have written, and what is remembered of it.
Given ==
  /\ \A h \in DOMAIN written : IsName(h) /\ IsBackendConfig(written[h])
  /\ IsRequest(asked.request)
  /\ asked.keys \subseteq [name : HeaderNames, spelling : {"canonical"}]
  /\ asked.site = BestSite(DOMAIN written, Hostname(asked.request.host))
  /\ reply = NoReply \/ IsReply(reply)

LEMMA NameInSeq ==
  ASSUME NEW S, NEW name, IsName(name), Range(name) \subseteq S
  PROVE  name \in Seq(S) /\ name # <<>>
BY SeqMonotonic DEF IsName

\* matchSite finds the site that the client should get.
LEMMA BestIsMatched ==
  ASSUME Given
  PROVE  /\ Best = MatchSite(TrieOf(DOMAIN written), Hostname(asked.request.host))
         /\ Best \in DOMAIN written \cup {NoBackend}
         /\ NoBackend \notin DOMAIN written
<1> DEFINE text == asked.request.host
           hosts == DOMAIN written
           S == {Wildcard, Ported} \cup Range(text.name) \cup UNION {Range(h) : h \in hosts}
<1>1. Wildcard \in S /\ Ported \in S /\ Range(text.name) \subseteq S
      /\ \A h \in hosts : Range(h) \subseteq S
  OBVIOUS
<1>2. IsName(text.name) /\ \A h \in hosts : IsName(h)
  BY DEF Given, IsRequest, IsText
<1> HIDE DEF S
<1>3. text.name \in Seq(S) /\ text.name # <<>> /\ \A h \in hosts : h \in Seq(S) /\ h # <<>>
  BY <1>1, <1>2, NameInSeq
<1>4. Hostname(text) \in Seq(S)
  <2> PICK name : name = text.name
    OBVIOUS
  <2>1. Len(name) \in 1..Len(name)
    BY <1>3
  <2>2. [name EXCEPT ![Len(name)] = Ported] \in Seq(S)
    BY <1>1, <1>3, <2>1, ExceptSeq
  <2> QED
    BY <1>3, <2>2 DEF Hostname
<1> DEFINE c == HostComponents(Hostname(text))
           t == TrieOf(hosts)
<1>5. c \in Seq(S)
  BY <1>4, ReverseProperties DEF HostComponents
<1>6. hosts \in SUBSET Seq(S)
  BY <1>3
<1>7. MatchSite(t, Hostname(text)) = Best
  BY <1>1, <1>4, <1>6, MatchSiteIsBest DEF Given, Best
<1>8. MatchSite(t, Hostname(text)) \in hosts \cup {NoBackend}
  <2>1. <<>> \in DOMAIN t /\ DOMAIN t = NodesOf(hosts)
    BY DEF TrieOf, NodesOf
  <2>2. Len(c) \in 0..Len(c)
    BY <1>5
  <2>3. Cursor(t, c)[Len(c)].node \in NodesOf(hosts)
    <3> HIDE DEF t, c
    <3>1. Cursor(t, c)[Len(c)] \in [node : DOMAIN t, wasWildCard : BOOLEAN, stopped : BOOLEAN]
      BY <1>5, <2>1, <2>2, CursorType
    <3> QED
      BY <2>1, <3>1
  <2> PICK node \in NodesOf(hosts) : node = Cursor(t, c)[Len(c)].node
    BY <2>3
  <2>4. MatchSite(t, Hostname(text)) = t[node]
    BY DEF MatchSite
  <2>5. t[node] \in hosts \cup {NoBackend}
    BY DEF TrieOf
  <2> QED
    BY <2>4, <2>5
<1> QED
  BY <1>3, <1>7, <1>8 DEF NoBackend

-----------------------------------------------------------------------------
(* Sites and outcomes.                                                     *)

Ready == pc \notin {"configure", "refused"}
Served == Ready /\ pc \notin {"handler", "502"}

\* The listener's backends are as they are written, and a request is at the one
\* of its site.
SiteInv ==
  /\ pc \in {"configure", "refused", "handler", "502", "set", "delete", "target", "url",
             "sent", "panic"}
  /\ ~Ready => sites = <<>>
  /\ Ready => /\ sites = [h \in DOMAIN written |-> NewHTTPBackend(written[h])]
              /\ \A h \in DOMAIN written :
                   Unmarshals(written[h].target) /\ Selects(written[h].select)
  /\ pc = "refused" => Mistakes # {}
  /\ pc = "502" => Best = NoBackend
  /\ Served => /\ Best \in DOMAIN written /\ Best # NoBackend
               /\ backend = NewHTTPBackend(Chosen)
  /\ ~Served => backend = Nobody

\* What has become of the request, and where it goes.
RequestInv ==
  /\ pc \notin {"url", "sent"} => request = asked.request /\ target = Empty
  /\ pc = "panic" => backend.select = "path" /\ backend.index \notin 0..MaxInt - 1
  /\ pc \in {"url", "sent"} /\ backend.select = "path" => backend.index # MaxInt
  /\ pc \in {"url", "sent"} =>
       LET path == asked.request.path
           element == path[backend.index + 1]
       IN  \/ /\ backend.select = "" /\ request = asked.request
              /\ target = WithPort(IF backend.target # NoName THEN Text(backend.target, <<>>)
                                   ELSE asked.request.host, backend.port)
           \/ /\ backend.select = "path" /\ Len(path) < backend.index + 1
              /\ request = asked.request /\ target = Empty
           \/ /\ backend.select = "path" /\ backend.index \in 0..Len(path) - 1
              /\ request = [asked.request EXCEPT !.path = Join(RemoveAt(path, backend.index + 1))]
              /\ target = WithPort(element, IF backend.port # 0 THEN backend.port
                                            ELSE ParsePort(element))
  /\ pc = "sent" => url = [host |-> target, path |-> Rooted(request.path)]

\* The headers at each point of ServeHTTP.
HeaderInv ==
  LET received == [k \in asked.keys |-> "client"]
      set == [k \in asked.keys \cup backend.setHeaders |->
                IF k \in backend.setHeaders THEN "configured" ELSE "client"]
  IN  /\ ~Served \/ pc = "set" => headers = received
      /\ pc = "delete" => headers = set
      /\ pc \in {"target", "url", "sent", "panic"} =>
           headers = [k \in DOMAIN set \ backend.delHeaders |-> set[k]]

\* What resp holds after Do.
Read ==
  IF Unpacks THEN [length |-> Undeclared, body |-> reply.unpacked]
  ELSE [length |-> reply.length, body |-> reply.arrives]

Answerable == Dialable(url.host) /\ reply # NoReply

\* How much of the response the writer has at each stage.
AnswerInv ==
  /\ stage \in {"do", "response", "headers", "status", "body", "answered"}
  /\ stage # "do" => pc = "sent"
  /\ stage = "do" => response = NoResponse
  /\ stage \in {"do", "response"} => header = Undeclared
  /\ stage \in {"do", "response", "headers"} => declared = Undeclared
  /\ stage \in {"do", "response", "headers", "status"} => copied = 0
  /\ stage # "answered" => seen = "nothing"
  /\ stage \notin {"do", "answered"} => Answerable
  /\ stage = "answered" /\ ~Answerable =>
       /\ seen = "502" /\ response = NoResponse
       /\ header = Undeclared /\ declared = Undeclared /\ copied = 0
  /\ stage # "do" /\ Answerable => response = Read
  /\ stage \notin {"do", "response"} /\ Answerable => header = response.length
  /\ stage \notin {"do", "response", "headers"} /\ Answerable => declared = response.length
  /\ stage \in {"body", "answered"} /\ Answerable => copied = response.body
  /\ stage = "answered" /\ Answerable =>
       seen = IF declared \in {Undeclared, copied} THEN "complete" ELSE "broken"

HandlerInv == Given /\ SiteInv /\ RequestInv /\ HeaderInv /\ AnswerInv

\* The backend of a site, as NewHTTPBackend makes it.
LEMMA BackendShape ==
  ASSUME NEW w, IsBackendConfig(w), Unmarshals(w.target), Selects(w.select),
         NEW b, b = NewHTTPBackend(w)
  PROVE  /\ b.port \in 0..MaxPort /\ b.port = PortOf(w.target)
         /\ b.select \in {"", "path"} /\ b.select = w.select.name
         /\ b.index \in Int /\ b.index <= MaxInt /\ b.index = IndexOf(w)
         /\ b.target = HostOf(w.target)
         /\ b.setHeaders \subseteq Keys /\ b.delHeaders \subseteq Keys
         /\ b.setHeaders = w.setHeaders /\ b.delHeaders = w.delHeaders
<1>1. w.select.index # <<>> => w.select.index[1] \in Int /\ w.select.index[1] <= MaxInt
  <2> PICK index, S : index = w.select.index /\ S = -MaxInt - 1..MaxInt
    OBVIOUS
  <2>1. S \subseteq Int /\ \A i \in S : i <= MaxInt
    BY NumberAssumption
  <2>2. index # <<>> => index \in Seq(S)
    BY DEF IsBackendConfig
  <2>3. ASSUME NEW s \in Seq(S), s # <<>> PROVE s[1] \in S
    <3>1. 1 \in 1..Len(s)
      BY <2>3, EmptySeq
    <3> QED
      BY <3>1, ElementOfSeq
  <2> QED
    BY <2>1, <2>2, <2>3
<1>2. IndexOf(w) \in Int /\ IndexOf(w) <= MaxInt
  BY <1>1, NumberAssumption DEF IndexOf
<1>3. PortOf(w.target) \in 0..MaxPort
  BY DEF PortOf, Unmarshals, MaxPort
<1> QED
  BY <1>2, <1>3 DEF NewHTTPBackend, IsBackendConfig, Selects, IndexOf

LEMMA InitHandlerInv == Init => HandlerInv
<1> SUFFICES ASSUME Init PROVE HandlerInv
  OBVIOUS
<1>1. PICK family \in Families : \E s \in family :
        /\ written = s.sites
        /\ request = s.request
        /\ headers = [k \in [name : s.names, spelling : {"canonical"}] |-> "client"]
        /\ reply \in s.replies
  BY DEF Init
<1>2. PICK s \in family :
        /\ written = s.sites
        /\ request = s.request
        /\ headers = [k \in [name : s.names, spelling : {"canonical"}] |-> "client"]
        /\ reply \in s.replies
  BY <1>1
<1>3. /\ \A h \in DOMAIN s.sites : IsName(h) /\ IsBackendConfig(s.sites[h])
      /\ IsRequest(s.request) /\ s.names \subseteq HeaderNames
      /\ reply = NoReply \/ IsReply(reply)
  BY <1>2, FamiliesAssumption
<1>4. /\ pc = "configure" /\ sites = <<>> /\ backend = Nobody /\ target = Empty
      /\ asked.request = request /\ asked.keys = DOMAIN headers
      /\ asked.site = BestSite(DOMAIN written, Hostname(request.host))
  BY DEF Init
<1>5. asked.keys = [name : s.names, spelling : {"canonical"}]
  BY <1>2, <1>4
<1>6. Given
  <2>1. asked.keys \subseteq [name : HeaderNames, spelling : {"canonical"}]
    BY <1>3, <1>5
  <2> QED
    BY <1>2, <1>3, <1>4, <2>1 DEF Given
<1>7. SiteInv
  BY <1>4 DEF SiteInv, Ready, Served
<1>8. RequestInv
  BY <1>4 DEF RequestInv
<1>9. HeaderInv
  BY <1>2, <1>4, <1>5 DEF HeaderInv, Ready, Served
<1>10. AnswerInv
  BY DEF Init, AnswerInit, AnswerInv
<1> QED
  BY <1>6, <1>7, <1>8, <1>9, <1>10 DEF HandlerInv

\* What ServeHTTP does once the request is sent changes the answer only.
LEMMA RespondStep ==
  Respond => /\ pc = "sent" \/ stage # "do"
             /\ UNCHANGED <<outboundVars, reply>>
BY DEF Respond, Do, BadGatewayReply, CopyHeaders, WriteHeader, CopyBody, Return

LEMMA GivenStep == [Next]_vars => UNCHANGED <<written, asked, reply>>
BY RespondStep
   DEF Next, vars, outboundVars, answerVars, Refuse, Configure, BadGateway, Dispatch,
       ServeHTTP, SetHeaders, DeleteHeaders, GetTargetDefault, GetTargetNone, GetTargetPath,
       IndexPanics, BuildURL

\* A backend is refused if and only if it is mistaken.
LEMMA RefusedAreMistaken ==
  ASSUME NEW w, IsBackendConfig(w)
  PROVE  Unmarshals(w.target) /\ Selects(w.select) <=> ~Mistaken(w)
<1>1. MaxPort \in Nat
  BY DEF MaxPort
<1>2. ASSUME w.target # NotConfigured
      PROVE  Unmarshals(w.target) <=>
               Len(w.target.ports) = 1 /\ \A port \in Range(w.target.ports) :
                 ~(port = NotANumber \/ port > MaxPort)
  <2> PICK ports : ports = w.target.ports
    OBVIOUS
  <2>1. ports \in Seq(Nat \cup {NotANumber})
    BY <1>2 DEF IsBackendConfig, IsText
  <2>2. ASSUME Len(ports) = 1 PROVE Range(ports) = {ports[1]} /\ ports[1] \in Nat \cup {NotANumber}
    BY <2>1, <2>2 DEF Range
  <2>3. \A port \in Nat \cup {NotANumber} :
          port \in 0..MaxPort <=> ~(port = NotANumber \/ port > MaxPort)
    BY <1>1, NumberAssumption
  <2> QED
    BY <1>2, <2>2, <2>3 DEF Unmarshals, Splits
<1>3. Selects(w.select) <=>
        ~(\/ w.select.name \notin {"", "path"} \/ w.select.others
          \/ w.select.name = "" /\ w.select.index # <<>>)
  BY DEF Selects
<1> QED
  BY <1>2, <1>3 DEF Mistaken, Unmarshals

LEMMA SiteStep ==
  ASSUME Given, SiteInv, RequestInv, [Next]_vars
  PROVE  SiteInv'
<1>0. /\ written' = written /\ asked' = asked /\ Best' = Best /\ Chosen' = Chosen
  BY GivenStep DEF Best, Chosen
<1>00. Mistakes' = Mistakes
  BY <1>0 DEF Mistakes, Mistaken
<1>1. CASE Refuse
  <2>1. PICK h \in DOMAIN written : ~Unmarshals(written[h].target) \/ ~Selects(written[h].select)
    BY <1>1 DEF Refuse
  <2>2. h \in Mistakes
    BY <2>1, RefusedAreMistaken DEF Given, Mistakes
  <2> QED
    BY <1>0, <1>00, <1>1, <2>2 DEF Refuse, SiteInv, Ready, Served
<1>2. CASE Configure
  <2>1. /\ pc = "configure" /\ pc' = "handler" /\ backend' = backend
        /\ sites' = [h \in DOMAIN written |-> NewHTTPBackend(written[h])]
        /\ \A h \in DOMAIN written : Unmarshals(written[h].target) /\ Selects(written[h].select)
    BY <1>2 DEF Configure
  <2> QED
    BY <1>0, <2>1 DEF SiteInv, Ready, Served
<1>3. ASSUME pc = "handler" PROVE Matched = Best /\ DOMAIN sites = DOMAIN written
  <2>1. sites = [h \in DOMAIN written |-> NewHTTPBackend(written[h])]
    BY <1>3 DEF SiteInv, Ready
  <2>2. DOMAIN sites = DOMAIN written /\ request = asked.request
    BY <1>3, <2>1 DEF RequestInv
  <2> QED
    BY <2>2, BestIsMatched DEF Matched
<1>4. CASE BadGateway
  <2>1. /\ pc = "handler" /\ pc' = "502" /\ Best = NoBackend
        /\ sites' = sites /\ backend' = backend
    BY <1>3, <1>4 DEF BadGateway
  <2> QED
    BY <1>0, <2>1 DEF SiteInv, Ready, Served
<1>5. CASE Dispatch
  <2>1. /\ pc = "handler" /\ pc' = "set" /\ Best # NoBackend
        /\ sites' = sites /\ backend' = sites[Best]
    BY <1>3, <1>5 DEF Dispatch
  <2>2. Best \in DOMAIN written
    BY <2>1, BestIsMatched
  <2>3. backend' = NewHTTPBackend(Chosen)
    BY <2>1, <2>2 DEF SiteInv, Ready, Chosen
  <2> QED
    BY <1>0, <2>1, <2>2, <2>3 DEF SiteInv, Ready, Served
<1>6. CASE ServeHTTP /\ UNCHANGED <<written, sites>>
  <2>1. /\ pc \in {"set", "delete", "target", "url"}
        /\ pc' \in {"delete", "target", "url", "sent", "panic"}
        /\ sites' = sites /\ backend' = backend
    BY <1>6 DEF ServeHTTP, SetHeaders, DeleteHeaders, GetTargetDefault, GetTargetNone,
                GetTargetPath, IndexPanics, BuildURL
  <2> QED
    BY <1>0, <2>1 DEF SiteInv, Ready, Served
<1>7. CASE (Respond /\ UNCHANGED <<written, sites>>) \/ UNCHANGED vars
  <2>1. UNCHANGED <<outboundVars, written, sites>>
    BY <1>7, RespondStep DEF vars
  <2> QED
    BY <1>0, <1>00, <2>1 DEF outboundVars, SiteInv, Ready, Served
<1> QED
  BY <1>1, <1>2, <1>4, <1>5, <1>6, <1>7 DEF Next

\* A request at a backend: what the backend was written as.
LEMMA ServedShape ==
  ASSUME Given, SiteInv, Served
  PROVE  /\ backend.port \in 0..MaxPort /\ backend.port = PortOf(Chosen.target)
         /\ backend.select \in {"", "path"} /\ backend.select = Chosen.select.name
         /\ backend.index \in Int /\ backend.index <= MaxInt /\ backend.index = IndexOf(Chosen)
         /\ backend.target = HostOf(Chosen.target)
         /\ backend.setHeaders \subseteq Keys /\ backend.delHeaders \subseteq Keys
<1>1. /\ Best \in DOMAIN written /\ backend = NewHTTPBackend(Chosen)
      /\ Unmarshals(Chosen.target) /\ Selects(Chosen.select)
  BY DEF SiteInv, Served, Chosen
<1>2. IsBackendConfig(Chosen)
  BY <1>1 DEF Given, Chosen
<1> QED
  BY <1>1, <1>2, BackendShape

LEMMA RequestStep ==
  ASSUME Given, SiteInv, RequestInv, [Next]_vars
  PROVE  RequestInv'
<1>0. asked' = asked
  BY GivenStep
<1>00. /\ IsRequest(asked.request) /\ asked.request.path \in Seq(Range(asked.request.path))
       /\ Len(asked.request.path) \in Nat
  BY DEF Given, IsRequest, IsName
<1>1. ASSUME pc \notin {"url", "sent"}, pc' \notin {"url", "sent", "panic"},
             request' = request, target' = target
      PROVE  RequestInv'
  BY <1>0, <1>1 DEF RequestInv
<1>2. CASE Refuse
  BY <1>1, <1>2 DEF Refuse
<1>3. CASE Configure
  BY <1>1, <1>3 DEF Configure
<1>4. CASE BadGateway
  BY <1>1, <1>4 DEF BadGateway
<1>5. CASE Dispatch
  BY <1>1, <1>5 DEF Dispatch
<1>6. CASE SetHeaders
  BY <1>1, <1>6 DEF SetHeaders
<1>7. CASE DeleteHeaders
  BY <1>1, <1>7 DEF DeleteHeaders
<1>8. CASE GetTargetDefault
  <2>1. /\ pc = "target" /\ pc' = "url" /\ backend' = backend /\ request' = request
        /\ backend.select = "" /\ request = asked.request
        /\ target' = WithPort(IF backend.target # NoName THEN Text(backend.target, <<>>)
                              ELSE asked.request.host, backend.port)
    BY <1>8 DEF GetTargetDefault, RequestInv
  <2> QED
    BY <1>0, <2>1 DEF RequestInv
<1>9. CASE GetTargetNone
  <2>1. /\ pc = "target" /\ pc' = "url" /\ backend' = backend /\ request' = request
        /\ backend.select = "path" /\ request = asked.request
        /\ Len(asked.request.path) < Incremented(backend.index) /\ target' = Empty
    BY <1>9 DEF GetTargetNone, RequestInv
  <2>2. backend.index # MaxInt
    <3>1. Incremented(MaxInt) = -MaxInt - 1
      BY DEF Incremented
    <3> QED
      BY <1>00, <2>1, <3>1, NumberAssumption
  <2>3. Len(asked.request.path) < backend.index + 1
    BY <2>1, <2>2 DEF Incremented
  <2> QED
    BY <1>0, <2>1, <2>2, <2>3 DEF RequestInv
<1>10. CASE GetTargetPath
  <2> DEFINE path == asked.request.path
             element == path[backend.index + 1]
  <2>1. /\ pc = "target" /\ pc' = "url" /\ backend' = backend /\ request = asked.request
        /\ backend.select = "path" /\ backend.index \in 0..Len(path) - 1
        /\ request' = [asked.request EXCEPT !.path = Join(RemoveAt(path, backend.index + 1))]
        /\ target' = WithPort(element, IF backend.port # 0 THEN backend.port
                                       ELSE ParsePort(element))
    BY <1>10 DEF GetTargetPath, PathTarget, RestOfPath, RequestInv
  <2>2. backend.index # MaxInt
    <3> PICK n, k : n \in Nat /\ n = Len(path) /\ k = backend.index
      BY <1>00
    <3>1. n <= MaxInt /\ k \in 0..n - 1
      BY <1>00, <2>1 DEF IsRequest
    <3> QED
      BY <3>1, NumberAssumption
  <2> QED
    BY <1>0, <2>1, <2>2 DEF RequestInv
<1>11. CASE IndexPanics
  <2>1. /\ pc = "target" /\ pc' = "panic" /\ backend' = backend /\ request' = request
        /\ target' = target /\ backend.select = "path" /\ request = asked.request
        /\ Len(asked.request.path) >= Incremented(backend.index)
        /\ backend.index \notin 0..Len(asked.request.path) - 1
    BY <1>11 DEF IndexPanics, RequestInv
  <2>2. backend.index \in Int
    BY <2>1, ServedShape DEF Served, Ready
  <2>3. backend.index \notin 0..MaxInt - 1
    <3> PICK n \in Nat, k \in Int : n = Len(asked.request.path) /\ k = backend.index
      BY <1>00, <2>2
    <3>1. CASE k = MaxInt
      BY <3>1, NumberAssumption
    <3>2. CASE k # MaxInt
      <4>1. n >= k + 1 /\ k \notin 0..n - 1
        BY <2>1, <3>2 DEF Incremented
      <4> QED
        BY <4>1, NumberAssumption
    <3> QED
      BY <3>1, <3>2
  <2> QED
    BY <1>0, <2>1, <2>3 DEF RequestInv
<1>12. CASE BuildURL
  <2>1. /\ pc = "url" /\ pc' = "sent" /\ backend' = backend /\ request' = request
        /\ target' = target /\ url' = [host |-> target, path |-> Rooted(request.path)]
    BY <1>12 DEF BuildURL
  <2> QED
    BY <1>0, <2>1 DEF RequestInv
<1>13. CASE Respond \/ UNCHANGED vars
  <2>1. UNCHANGED outboundVars
    BY <1>13, RespondStep DEF vars
  <2> QED
    BY <1>0, <2>1 DEF outboundVars, RequestInv
<1> QED
  BY <1>2, <1>3, <1>4, <1>5, <1>6, <1>7, <1>8, <1>9, <1>10, <1>11, <1>12, <1>13
     DEF Next, ServeHTTP

LEMMA HeaderStep ==
  ASSUME Given, SiteInv, HeaderInv, [Next]_vars
  PROVE  HeaderInv'
<1> DEFINE received == [k \in asked.keys |-> "client"]
           set == [k \in asked.keys \cup backend.setHeaders |->
                     IF k \in backend.setHeaders THEN "configured" ELSE "client"]
<1>0. asked' = asked
  BY GivenStep
<1>1. ASSUME ~Served \/ pc = "set", ~Served' \/ pc' = "set", headers' = headers,
             pc' \notin {"delete", "target", "url", "sent", "panic"}
      PROVE  HeaderInv'
  BY <1>0, <1>1 DEF HeaderInv
<1>2. CASE Refuse
  BY <1>1, <1>2 DEF Refuse, Served, Ready
<1>3. CASE Configure
  BY <1>1, <1>3 DEF Configure, Served, Ready
<1>4. CASE BadGateway
  BY <1>1, <1>4 DEF BadGateway, Served, Ready
<1>5. CASE Dispatch
  BY <1>1, <1>5 DEF Dispatch, Served, Ready
<1>6. CASE SetHeaders
  <2>1. /\ pc = "set" /\ pc' = "delete" /\ backend' = backend /\ headers = received
        /\ headers' = [k \in DOMAIN headers \cup backend.setHeaders |->
                         IF k \in backend.setHeaders THEN "configured" ELSE headers[k]]
    BY <1>6 DEF SetHeaders, HeaderInv
  <2>2. headers' = set
    BY <2>1
  <2> QED
    BY <1>0, <2>1, <2>2 DEF HeaderInv, Served, Ready
<1>7. CASE DeleteHeaders
  <2>1. /\ pc = "delete" /\ pc' = "target" /\ backend' = backend /\ headers = set
        /\ headers' = [k \in DOMAIN headers \ backend.delHeaders |-> headers[k]]
    BY <1>7 DEF DeleteHeaders, HeaderInv
  <2>2. headers' = [k \in DOMAIN set \ backend.delHeaders |-> set[k]]
    BY <2>1
  <2> QED
    BY <1>0, <2>1, <2>2 DEF HeaderInv, Served, Ready
<1>8. CASE GetTargetDefault \/ GetTargetNone \/ GetTargetPath \/ IndexPanics \/ BuildURL
  <2>1. /\ pc \in {"target", "url"} /\ pc' \in {"url", "sent", "panic"}
        /\ backend' = backend /\ headers' = headers
    BY <1>8 DEF GetTargetDefault, GetTargetNone, GetTargetPath, IndexPanics, BuildURL
  <2>2. headers = [k \in DOMAIN set \ backend.delHeaders |-> set[k]]
    BY <2>1 DEF HeaderInv
  <2> QED
    BY <1>0, <2>1, <2>2 DEF HeaderInv, Served, Ready
<1>9. CASE Respond \/ UNCHANGED vars
  <2>1. UNCHANGED outboundVars
    BY <1>9, RespondStep DEF vars
  <2> QED
    BY <1>0, <2>1 DEF outboundVars, HeaderInv, Served, Ready
<1> QED
  BY <1>2, <1>3, <1>4, <1>5, <1>6, <1>7, <1>8, <1>9 DEF Next, ServeHTTP

LEMMA ReadType ==
  ASSUME Given, Answerable
  PROVE  /\ Read \in [length : Nat \cup {Undeclared}, body : Nat]
         /\ Read.length = IF Unpacks THEN Undeclared ELSE reply.length
         /\ Read.body = IF Unpacks THEN reply.unpacked ELSE reply.arrives
BY DEF Given, Answerable, Read, IsReply

LEMMA AnswerStep ==
  ASSUME Given, AnswerInv, [Next]_vars
  PROVE  AnswerInv'
<1>1. CASE Respond
  <2>0. UNCHANGED <<outboundVars, reply>>
    BY <1>1, RespondStep
  <2>1. Answerable' = Answerable /\ Read' = Read
    BY <2>0 DEF Answerable, Read, Unpacks, outboundVars
  <2>2. pc' = pc
    BY <2>0 DEF outboundVars
  <2>3. CASE Do
    BY <2>1, <2>2, <2>3 DEF Do, AnswerInv, Answerable, Read
  <2>4. CASE BadGatewayReply
    BY <2>1, <2>2, <2>4 DEF BadGatewayReply, AnswerInv, Answerable
  <2>5. CASE CopyHeaders
    BY <2>1, <2>2, <2>5 DEF CopyHeaders, AnswerInv
  <2>6. CASE WriteHeader
    BY <2>1, <2>2, <2>6 DEF WriteHeader, AnswerInv
  <2>7. CASE CopyBody
    BY <2>1, <2>2, <2>7 DEF CopyBody, AnswerInv
  <2>8. CASE Return
    BY <2>1, <2>2, <2>8 DEF Return, AnswerInv
  <2> QED
    BY <1>1, <2>3, <2>4, <2>5, <2>6, <2>7, <2>8 DEF Respond
<1>2. CASE \/ Refuse \/ Configure \/ BadGateway \/ Dispatch
           \/ ServeHTTP /\ UNCHANGED <<answerVars, written, sites>>
  <2>1. pc # "sent" /\ UNCHANGED answerVars
    BY <1>2 DEF Refuse, Configure, BadGateway, Dispatch, ServeHTTP, SetHeaders,
                DeleteHeaders, GetTargetDefault, GetTargetNone, GetTargetPath,
                IndexPanics, BuildURL
  <2>2. stage = "do"
    BY <2>1 DEF AnswerInv
  <2> QED
    BY <2>1, <2>2 DEF AnswerInv, answerVars
<1>3. CASE UNCHANGED vars
  BY <1>3 DEF vars, outboundVars, answerVars, AnswerInv, Answerable, Read, Unpacks
<1> QED
  BY <1>1, <1>2, <1>3 DEF Next

LEMMA HandlerInvHolds == Spec => []HandlerInv
<1>1. HandlerInv /\ [Next]_vars => HandlerInv'
  <2> SUFFICES ASSUME HandlerInv, [Next]_vars PROVE HandlerInv'
    OBVIOUS
  <2>1. Given'
    BY GivenStep DEF HandlerInv, Given
  <2> QED
    BY <2>1, SiteStep, RequestStep, HeaderStep, AnswerStep DEF HandlerInv
<1> QED
  BY <1>1, InitHandlerInv, PTL DEF Spec

-----------------------------------------------------------------------------
(* What a client gets.                                                     *)

\* With a mistake in any site, and only then, a configuration is refused and no
\* request is served; without one, a request gets to the backend that is written for
\* the site at the end of the best walk, or to 502 if there is none, and panics
\* if, and only if, the site's index can be in no path.
THEOREM OutcomeIsTheSites == Spec => []OutcomeFollowsSite
<1>1. ASSUME HandlerInv PROVE OutcomeFollowsSite
  <2> USE <1>1 DEF HandlerInv
  <2> DEFINE panics == Chosen.select.name = "path" /\ IndexOf(Chosen) \notin 0..MaxInt - 1
  <2>1. (pc = "502" => Best = NoBackend) /\ (pc = "refused" => Mistakes # {})
    BY DEF SiteInv
  <2>2. ASSUME Ready PROVE Mistakes = {}
    <3>1. ASSUME NEW h \in DOMAIN written PROVE ~Mistaken(written[h])
      BY <2>2, RefusedAreMistaken DEF Given, SiteInv
    <3> QED
      BY <3>1 DEF Mistakes
  <2>3. ASSUME Served PROVE Best # NoBackend /\ backend = NewHTTPBackend(Chosen)
    BY <2>3 DEF SiteInv
  <2>4. ASSUME Served
        PROVE  /\ backend.select = Chosen.select.name /\ backend.index = IndexOf(Chosen)
               /\ backend.index \in Int
    BY <2>4, ServedShape
  <2>5. pc = "panic" => panics
    BY <2>4 DEF Served, Ready, RequestInv
  <2>6. ASSUME pc = "sent" PROVE ~panics
    <3>1. Len(asked.request.path) \in Nat /\ Len(asked.request.path) <= MaxInt
      BY DEF Given, IsRequest, IsName
    <3> PICK n \in Nat, k \in Int : n = Len(asked.request.path) /\ k = backend.index
      BY <2>4, <2>6, <3>1 DEF Served, Ready
    <3>2. backend.select = "path" => k # MaxInt /\ (n < k + 1 \/ k \in 0..n - 1)
      BY <2>6 DEF RequestInv
    <3>3. backend.select = "path" => k \in 0..MaxInt - 1
      <4>1. k <= MaxInt
        BY <2>6, ServedShape DEF Served, Ready
      <4> QED
        BY <3>1, <3>2, <4>1, NumberAssumption
    <3> QED
      BY <2>4, <2>6, <3>3 DEF Served, Ready
  <2> QED
    BY <2>1, <2>2, <2>3, <2>5, <2>6 DEF OutcomeFollowsSite, Ready, Served
<1> QED
  BY <1>1, HandlerInvHolds, PTL

\* Whatever the client sent and the configuration sets and deletes: a reply that is cut
\* breaks off for the client exactly if its length was declared and the body was
\* passed on as it came, and every other one looks complete.
THEOREM CutBodiesAreNoticed == Spec => []CutBodyNoticed
<1>1. ASSUME HandlerInv PROVE CutBodyNoticed
  <2> USE <1>1 DEF HandlerInv
  <2> SUFFICES ASSUME stage = "answered"
               PROVE  /\ seen = "502" <=> ~Answerable
                      /\ seen # "502" =>
                           (seen = "broken" <=> ~reply.whole /\ reply.length # Undeclared
                                                /\ (reply.gzip => EncodingChosen))
    BY DEF CutBodyNoticed, Answerable
  <2>1. CASE ~Answerable
    BY <2>1 DEF AnswerInv
  <2>2. CASE Answerable
    <3>1. /\ declared = Read.length /\ copied = Read.body
          /\ seen = IF declared \in {Undeclared, copied} THEN "complete" ELSE "broken"
      BY <2>2 DEF AnswerInv
    <3>2. AcceptKey \in DOMAIN headers <=> EncodingChosen
      BY DEF AnswerInv, HeaderInv, EncodingChosen
    <3>3. IsReply(reply)
      BY <2>2 DEF Given, Answerable
    <3>4. Unpacks <=> reply.gzip /\ ~EncodingChosen
      BY <3>2 DEF Unpacks
    <3>5. CASE Unpacks
      <4>1. seen = "complete"
        BY <2>2, <3>1, <3>5, ReadType
      <4> QED
        BY <2>2, <3>4, <3>5, <4>1
    <3>6. CASE ~Unpacks
      <4>1. seen = IF reply.length \in {Undeclared, reply.arrives} THEN "complete" ELSE "broken"
        BY <2>2, <3>1, <3>6, ReadType
      <4>2. reply.length # Undeclared => (reply.whole <=> reply.arrives = reply.length)
        BY <3>3 DEF IsReply
      <4> QED
        BY <2>2, <3>3, <3>4, <3>6, <4>1, <4>2 DEF IsReply
    <3> QED
      BY <3>5, <3>6
  <2> QED
    BY <2>1, <2>2
<1> QED
  BY <1>1, HandlerInvHolds, PTL

\* Appending a port of sixteen bits to what precedes it.
LEMMA WithPortProperties ==
  ASSUME NEW text, NEW T, text.ports \in Seq(T), NEW port \in 0..MaxPort,
         NEW t, t = WithPort(text, port)
  PROVE  /\ t.name = text.name /\ t.ports = Append(text.ports, port)
         /\ t.ports # <<>> /\ Last(t.ports) = port
<1>1. t.name = text.name /\ t.ports = Append(text.ports, port)
  BY DEF WithPort, Text
<1>2. port \in Nat
  BY DEF MaxPort
<1> PICK ports : ports = text.ports
  OBVIOUS
<1>3. ports \in Seq(T \cup {port})
  BY SeqMonotonic
<1>4. /\ Append(ports, port) \in Seq(T \cup {port}) /\ Append(ports, port) # <<>>
      /\ Len(Append(ports, port)) = Len(ports) + 1
      /\ Append(ports, port)[Len(ports) + 1] = port
  BY <1>3, AppendProperties
<1> QED
  BY <1>1, <1>4 DEF Last

LEMMA ParsePortType ==
  ASSUME NEW text, IsText(text)
  PROVE  ParsePort(text) \in 0..MaxPort
<1>1. MaxPort \in Nat
  BY DEF MaxPort
<1>2. Splits(text) => text.ports[1] \in Nat \cup {NotANumber}
  BY DEF Splits, IsText
<1> QED
  BY <1>1, <1>2 DEF ParsePort

\* What a path's element at an index within the path is.
LEMMA ElementIsText ==
  ASSUME NEW r, IsRequest(r), NEW i \in 1..Len(r.path)
  PROVE  IsText(r.path[i])
<1>1. i \in DOMAIN r.path
  BY DEF IsRequest, IsName
<1>2. r.path[i] \in Range(r.path)
  BY <1>1 DEF Range
<1> QED
  BY <1>2 DEF IsRequest

\* The target of a request that was sent or is about to be.
LEMMA TargetShape ==
  ASSUME HandlerInv, pc \in {"url", "sent"}
  PROVE  \/ target = Empty
         \/ \E text, T : \E port \in 0..MaxPort :
              text.ports \in Seq(T) /\ target = WithPort(text, port)
<1> USE DEF HandlerInv
<1>0. Served
  BY DEF Served, Ready
<1>1. /\ backend.port \in 0..MaxPort /\ IsRequest(asked.request)
      /\ Len(asked.request.path) \in Nat
  <2>1. backend.port \in 0..MaxPort
    BY <1>0, ServedShape
  <2> QED
    BY <2>1 DEF Given, IsRequest, IsName
<1> DEFINE path == asked.request.path
           element == path[backend.index + 1]
           host == IF backend.target # NoName THEN Text(backend.target, <<>>)
                   ELSE asked.request.host
           own == IF backend.port # 0 THEN backend.port ELSE ParsePort(element)
<1>2. \/ target = WithPort(host, backend.port)
      \/ target = Empty
      \/ backend.index \in 0..Len(path) - 1 /\ target = WithPort(element, own)
  BY DEF RequestInv
<1>3. host.ports \in Seq(Nat \cup {NotANumber})
  BY <1>1 DEF Text, IsRequest, IsText
<1>4. ASSUME backend.index \in 0..Len(path) - 1
      PROVE  element.ports \in Seq(Nat \cup {NotANumber}) /\ own \in 0..MaxPort
  <2>1. backend.index + 1 \in 1..Len(path)
    BY <1>1, <1>4
  <2>2. IsText(element)
    BY <1>1, <2>1, ElementIsText
  <2> QED
    BY <1>1, <2>2, ParsePortType DEF IsText
<1> HIDE DEF host, element, own
<1> QED
  BY <1>1, <1>2, <1>3, <1>4

\* The stages, the sites, the backend, the headers and the lengths have their types,
\* and no target's port is wider than sixteen bits, whatever number stands in the path.
THEOREM TypeCorrect == Spec => []TypeOK
<1>1. ASSUME HandlerInv PROVE TypeOK
  <2> USE <1>1 DEF HandlerInv
  <2>1. /\ pc \in {"configure", "refused", "handler", "502", "set", "delete", "target", "url",
                   "sent", "panic"}
        /\ DOMAIN sites \subseteq DOMAIN written
        /\ \A h \in DOMAIN sites :
             sites[h] = NewHTTPBackend(written[h]) /\ Unmarshals(written[h].target)
             /\ Selects(written[h].select)
    BY DEF SiteInv
  <2>2. ASSUME NEW h \in DOMAIN sites
        PROVE  sites[h].port \in 0..MaxPort /\ sites[h].select \in {"", "path"}
    <3>1. h \in DOMAIN written
      BY <2>1
    <3>2. IsBackendConfig(written[h])
      BY <3>1 DEF Given
    <3> QED
      BY <2>1, <3>2, BackendShape
  <2>3. backend \in Range(sites) \cup {Nobody}
    <3>1. CASE Served
      <4>1. /\ Best \in DOMAIN written /\ backend = NewHTTPBackend(written[Best])
            /\ sites = [h \in DOMAIN written |-> NewHTTPBackend(written[h])]
        BY <3>1 DEF SiteInv, Served, Chosen
      <4>2. Best \in DOMAIN sites /\ backend = sites[Best]
        BY <4>1
      <4> QED
        BY <4>2 DEF Range
    <3> QED
      BY <3>1 DEF SiteInv
  <2>4. DOMAIN headers \subseteq Keys /\ Range(headers) \subseteq {"client", "configured"}
    <3>1. asked.keys \subseteq Keys
      BY DEF Given, Keys, Spellings
    <3>2. Served => backend.setHeaders \subseteq Keys
      BY ServedShape
    <3>3. \A k \in DOMAIN headers : k \in Keys /\ headers[k] \in {"client", "configured"}
      BY <2>1, <3>1, <3>2 DEF HeaderInv, Served, Ready
    <3> QED
      BY <3>3 DEF Range
  <2>5. target.ports # <<>> => Last(target.ports) \in 0..MaxPort
    <3>1. CASE target = Empty
      BY <3>1 DEF Empty, Text
    <3>2. CASE target # Empty
      <4>1. pc \in {"url", "sent"}
        BY <3>2 DEF RequestInv
      <4>2. PICK text, T : \E port \in 0..MaxPort :
              text.ports \in Seq(T) /\ target = WithPort(text, port)
        BY <3>2, <4>1, TargetShape
      <4> QED
        BY <4>2, WithPortProperties
    <3> QED
      BY <3>1, <3>2
  <2>6. /\ {response.length, header, declared} \subseteq Nat \cup {Undeclared}
        /\ response.body \in Nat /\ copied \in {0, response.body}
    <3>1. CASE response = NoResponse
      BY <3>1 DEF AnswerInv, NoResponse
    <3>2. CASE response # NoResponse
      <4>1. Answerable /\ response = Read
        BY <3>2 DEF AnswerInv
      <4> QED
        BY <4>1, ReadType DEF AnswerInv
    <3> QED
      BY <3>1, <3>2
  <2>7. /\ stage \in {"do", "response", "headers", "status", "body", "answered"}
        /\ stage # "do" => pc = "sent"
        /\ seen \in {"nothing", "502", "complete", "broken"}
        /\ seen # "nothing" <=> stage = "answered"
    BY DEF AnswerInv
  <2> QED
    BY <2>1, <2>2, <2>3, <2>4, <2>5, <2>6, <2>7 DEF TypeOK
<1> QED
  BY <1>1, HandlerInvHolds, PTL

\* A header that is configured in its canonical spelling reaches the backend as it
\* is configured, for every set of headers to set and to delete.
THEOREM HeadersAreAsConfigured == Spec => []HeadersAsConfigured
<1>1. ASSUME HandlerInv PROVE HeadersAsConfigured
  <2> SUFFICES ASSUME Sent, NEW name \in HeaderNames,
                      NEW key, key = [name |-> name, spelling |-> "canonical"],
                      \A k \in backend.setHeaders \cup backend.delHeaders :
                        k.name = name => k = key
               PROVE  {headers[k] : k \in {k \in DOMAIN headers : k.name = name}} =
                        IF key \in backend.delHeaders THEN {}
                        ELSE IF key \in backend.setHeaders THEN {"configured"}
                        ELSE IF key \in asked.keys THEN {"client"} ELSE {}
    BY DEF HeadersAsConfigured
  <2> DEFINE there == {k \in DOMAIN headers : k.name = name}
  <2>1. /\ DOMAIN headers = (asked.keys \cup backend.setHeaders) \ backend.delHeaders
        /\ \A k \in DOMAIN headers :
             headers[k] = IF k \in backend.setHeaders THEN "configured" ELSE "client"
    BY <1>1 DEF HandlerInv, HeaderInv, Sent
  <2>2. \A k \in asked.keys : k.name = name => k = key
    BY <1>1 DEF HandlerInv, Given
  <2>3. key.name = name
    OBVIOUS
  <2>4. there = IF key \in (asked.keys \cup backend.setHeaders) \ backend.delHeaders
                THEN {key} ELSE {}
    BY <2>1, <2>2, <2>3
  <2> HIDE DEF there
  <2>5. {headers[k] : k \in there} =
          IF key \in backend.delHeaders THEN {}
          ELSE IF key \in backend.setHeaders THEN {"configured"}
          ELSE IF key \in asked.keys THEN {"client"} ELSE {}
    <3>1. CASE key \in (asked.keys \cup backend.setHeaders) \ backend.delHeaders
      <4>1. {headers[k] : k \in there} = {headers[key]}
        BY <2>4, <3>1
      <4>2. headers[key] = IF key \in backend.setHeaders THEN "configured" ELSE "client"
        BY <2>1, <3>1
      <4> QED
        BY <3>1, <4>1, <4>2
    <3>2. CASE key \notin (asked.keys \cup backend.setHeaders) \ backend.delHeaders
      <4>1. {headers[k] : k \in there} = {}
        BY <2>4, <3>2
      <4> QED
        BY <3>2, <4>1
    <3> QED
      BY <3>1, <3>2
  <2> QED
    BY <2>5 DEF there
<1> QED
  BY <1>1, HandlerInvHolds, PTL

\* What can be dialed at all is dialed at the port that is written for the best
\* site, and at its target, the Host header, or the path's element at its index.
THEOREM DialsAreAsConfigured == Spec => []DialsAsConfigured
<1>1. ASSUME HandlerInv PROVE DialsAsConfigured
  <2> USE <1>1 DEF HandlerInv
  <2> SUFFICES ASSUME Sent, Dialable(url.host)
               PROVE  /\ url.host.ports = Chosen.target.ports
                      /\ url.host.name =
                           IF Chosen.select.name = "path"
                           THEN asked.request.path[IndexOf(Chosen) + 1].name
                           ELSE IF HostOf(Chosen.target) # NoName THEN Chosen.target.name
                           ELSE asked.request.host.name
    BY DEF DialsAsConfigured
  <2> DEFINE path == asked.request.path
             index == backend.index
             element == path[index + 1]
             host == IF backend.target # NoName THEN Text(backend.target, <<>>)
                     ELSE asked.request.host
             own == IF backend.port # 0 THEN backend.port ELSE ParsePort(element)
  <2>0. Served
    BY DEF Served, Ready, Sent
  <2>1. /\ backend.port \in 0..MaxPort /\ backend.port = PortOf(Chosen.target)
        /\ backend.select \in {"", "path"} /\ backend.select = Chosen.select.name
        /\ index = IndexOf(Chosen)
        /\ backend.target = HostOf(Chosen.target)
    BY <2>0, ServedShape
  <2>2. IsRequest(asked.request) /\ Len(path) \in Nat
    BY DEF Given, IsRequest, IsName
  <2>3. url.host = target
    <3>1. pc = "sent" /\ RequestInv
      BY DEF Sent
    <3>2. url = [host |-> target, path |-> Rooted(request.path)]
      BY ONLY <3>1 DEF RequestInv
    <3> QED
      BY ONLY <3>2
  <2>4. /\ Len(target.ports) = 1
        /\ target.ports[1] \in 1..MaxPort
    BY <2>3 DEF Dialable, Splits
  <2>5. \/ backend.select = "" /\ target = WithPort(host, backend.port)
        \/ target = Empty
        \/ backend.select = "path" /\ index \in 0..Len(path) - 1 /\ target = WithPort(element, own)
    <3>1. pc \in {"url", "sent"}
      BY DEF Sent
    <3>2. RequestInv
      OBVIOUS
    <3> QED
      BY ONLY <3>1, <3>2 DEF RequestInv
  <2>6. target # Empty
    BY <2>4 DEF Empty, Text
\* One port can only be the one that was appended.
  <2>7. ASSUME NEW text, text.ports \in Seq(Nat \cup {NotANumber}),
               NEW port \in 0..MaxPort, target = WithPort(text, port)
        PROVE  /\ target.name = text.name /\ target.ports = <<port>> /\ port # 0
               /\ text.ports = <<>>
    <3> PICK ports \in Seq(Nat \cup {NotANumber}) : ports = text.ports
      BY <2>7
    <3>1. target.name = text.name /\ target.ports = Append(ports, port)
      BY <2>7, WithPortProperties
    <3>2. port \in Nat
      BY DEF MaxPort
    <3>3. Len(ports) = 0 /\ Append(ports, port)[1] = port
      BY <2>4, <3>1, <3>2
    <3>4. ports = <<>>
      BY <3>3
    <3> QED
      BY <2>4, <3>1, <3>2, <3>3, <3>4
\* And it is the one that is written.
  <2>8. backend.port # 0 => Chosen.target.ports = <<backend.port>>
    <3>1. Unmarshals(Chosen.target) /\ IsBackendConfig(Chosen)
      BY <2>0 DEF SiteInv, Served, Given, Chosen
    <3> SUFFICES ASSUME backend.port # 0 PROVE Chosen.target.ports = <<backend.port>>
      OBVIOUS
    <3>2. Chosen.target # NotConfigured /\ backend.port = Chosen.target.ports[1]
      BY <2>1 DEF PortOf
    <3>3. Len(Chosen.target.ports) = 1 /\ Chosen.target.ports \in Seq(Nat \cup {NotANumber})
      BY <3>1, <3>2 DEF Unmarshals, Splits, IsBackendConfig, IsText
    <3> QED
      BY <3>2, <3>3
  <2>9. CASE backend.select = "" /\ target = WithPort(host, backend.port)
    <3>1. host.ports \in Seq(Nat \cup {NotANumber})
      BY <2>2 DEF Text, IsRequest, IsText
    <3>2. target.name = host.name /\ target.ports = <<backend.port>> /\ backend.port # 0
      BY <2>1, <2>7, <2>9, <3>1
    <3>3. Chosen.target # NotConfigured
      BY <2>1, <3>2 DEF PortOf
    <3> QED
      BY <2>1, <2>3, <2>8, <2>9, <3>2, <3>3 DEF HostOf, Text
  <2>10. CASE /\ backend.select = "path" /\ index \in 0..Len(path) - 1
              /\ target = WithPort(element, own)
    <3>1. index + 1 \in 1..Len(path)
      BY <2>2, <2>10
    <3>2. IsText(element)
      BY <2>2, <3>1, ElementIsText
    <3>3. own \in 0..MaxPort /\ element.ports \in Seq(Nat \cup {NotANumber})
      BY <2>1, <3>2, ParsePortType DEF IsText
    <3>4. target.name = element.name /\ target.ports = <<own>> /\ own # 0 /\ element.ports = <<>>
      <4> HIDE DEF own, element
      <4> QED
        BY <2>7, <2>10, <3>3
    <3>5. ParsePort(element) = 0
      BY <3>4 DEF ParsePort, Splits
    <3> QED
      BY <2>1, <2>3, <2>8, <2>10, <3>4, <3>5
  <2> QED
    BY <2>5, <2>6, <2>9, <2>10
<1> QED
  BY <1>1, HandlerInvHolds, PTL

-----------------------------------------------------------------------------
(* The path that is left.                                                  *)

\* What Join's fold makes of each set of positions.
Pushed(elements) ==
  LET pushed[s \in SUBSET DOMAIN elements] ==
        IF s = {} THEN <<>> ELSE Push(pushed[s \ {Max(s)}], elements[Max(s)])
  IN  pushed

LEMMA FoldIsPushed ==
  ASSUME NEW elements
  PROVE  FoldLeft(Push, <<>>, elements) = Pushed(elements)[DOMAIN elements]
BY DEF FoldLeft, MapThenFoldSet, Pushed

LEMMA MaxIsLast ==
  ASSUME NEW n \in Nat, NEW s \in SUBSET (1..n + 1), n + 1 \in s
  PROVE  Max(s) = n + 1
<1>1. \A y \in s : n + 1 >= y
  OBVIOUS
<1>2. ASSUME NEW x \in s, \A y \in s : x >= y PROVE x = n + 1
  BY <1>2
<1> QED
  BY <1>1, <1>2 DEF Max

IsPushed(f, elements, n) ==
  f = [s \in SUBSET (1..n) |-> IF s = {} THEN <<>>
                               ELSE Push(f[s \ {Max(s)}], elements[Max(s)])]

\* There is such a function for every number of elements.
LEMMA PushedExists ==
  ASSUME NEW elements
  PROVE  \A n \in Nat : \E f : IsPushed(f, elements, n)
<1> DEFINE Step(f, s) == Push(f[s \ {Max(s)}], elements[Max(s)])
           T == {n \in Nat : \E f : IsPushed(f, elements, n)}
<1>1. 0 \in T
  <2> DEFINE f == [s \in SUBSET (1..0) |-> <<>>]
  <2>1. \A s \in SUBSET (1..0) : s = {}
    OBVIOUS
  <2>2. f = [s \in SUBSET (1..0) |-> IF s = {} THEN <<>> ELSE Step(f, s)]
    BY <2>1
  <2>3. IsPushed(f, elements, 0)
    BY <2>2 DEF IsPushed
  <2> QED
    BY <2>3
<1>2. ASSUME NEW n \in T PROVE n + 1 \in T
  <2>1. PICK f : IsPushed(f, elements, n)
    OBVIOUS
  <2>2. n \in Nat /\ 1..n + 1 = 1..n \cup {n + 1} /\ n + 1 \notin 1..n
    OBVIOUS
  <2> DEFINE old == SUBSET (1..n)
             all == SUBSET (1..n + 1)
  <2>3. f = [s \in old |-> IF s = {} THEN <<>> ELSE Step(f, s)]
    BY <2>1 DEF IsPushed
  <2> DEFINE d == [s \in all |-> IF n + 1 \in s THEN Push(f[s \ {n + 1}], elements[n + 1])
                                 ELSE f[s]]
  <2>4. ASSUME NEW s \in all PROVE d[s] = IF s = {} THEN <<>> ELSE Step(d, s)
    <3>1. CASE s = {}
      <4>1. s \in old /\ n + 1 \notin s
        BY <3>1
      <4> QED
        BY <2>3, <3>1, <4>1
    <3>2. CASE n + 1 \in s
      <4>1. Max(s) = n + 1
        BY <2>2, <3>2, MaxIsLast
      <4>2. s \ {n + 1} \in all /\ n + 1 \notin s \ {n + 1}
        OBVIOUS
      <4>3. d[s \ {n + 1}] = f[s \ {n + 1}]
        BY <4>2
      <4>4. d[s] = Push(f[s \ {n + 1}], elements[n + 1])
        BY <3>2
      <4> HIDE DEF d
      <4> QED
        BY <3>2, <4>1, <4>3, <4>4
    <3>3. CASE s # {} /\ n + 1 \notin s
      <4>1. s \in old
        BY <2>2, <3>3
      <4> PICK r : r = s \ {Max(s)}
        OBVIOUS
      <4>2. r \in all /\ n + 1 \notin r
        BY <3>3
      <4>3. d[r] = f[r] /\ d[s] = f[s]
        BY <3>3, <4>2
      <4>4. f[s] = Step(f, s)
        BY <2>3, <3>3, <4>1
      <4> HIDE DEF d
      <4> QED
        BY <3>3, <4>3, <4>4
    <3> QED
      BY <3>1, <3>2, <3>3
  <2>5. d = [s \in all |-> IF s = {} THEN <<>> ELSE Step(d, s)]
    <3> DEFINE e == [s \in all |-> IF s = {} THEN <<>> ELSE Step(d, s)]
    <3>1. d = [s \in all |-> d[s]]
      OBVIOUS
    <3> HIDE DEF d, Step
    <3> QED
      BY <2>4, <3>1
  <2> HIDE DEF d
  <2>6. IsPushed(d, elements, n + 1)
    BY <2>5 DEF IsPushed
  <2>7. n + 1 \in Nat
    BY <2>2
  <2> QED
    BY <2>6, <2>7
<1>3. T = Nat
  <2>1. T \in SUBSET Nat
    OBVIOUS
  <2> HIDE DEF T
  <2> QED
    BY <1>1, <1>2, <2>1, NatSetInduction
<1> QED
  BY <1>3

\* The fold pushes one element after the other.
LEMMA PushedUnfolds ==
  ASSUME NEW T, NEW elements \in Seq(T)
  PROVE  /\ Pushed(elements)[{}] = <<>>
         /\ \A k \in 1..Len(elements) :
              Pushed(elements)[1..k] = Push(Pushed(elements)[1..k - 1], elements[k])
<1> DEFINE n == Len(elements)
           f == Pushed(elements)
           Step(g, s) == Push(g[s \ {Max(s)}], elements[Max(s)])
<1>1. n \in Nat /\ DOMAIN elements = 1..n
  BY LenProperties
<1>2. \E g : g = [s \in SUBSET DOMAIN elements |-> IF s = {} THEN <<>> ELSE Step(g, s)]
  <2>1. PICK g : IsPushed(g, elements, n)
    <3> HIDE DEF n
    <3> QED
      BY <1>1, PushedExists
  <2> HIDE DEF n
  <2> QED
    BY <1>1, <2>1 DEF IsPushed
<1>3. f = [s \in SUBSET DOMAIN elements |-> IF s = {} THEN <<>> ELSE Step(f, s)]
  BY <1>2, Zenon DEF Pushed
<1> HIDE DEF f, n, Step
<1>4. f[{}] = <<>>
  BY <1>3
<1>5. ASSUME NEW k \in 1..n PROVE f[1..k] = Push(f[1..k - 1], elements[k])
  <2>1. /\ 1..k \in SUBSET DOMAIN elements /\ 1..k # {} /\ k - 1 \in Nat /\ (k - 1) + 1 = k
        /\ k \in 1..k
    BY <1>1
  <2>2. Max(1..k) = k
    <3> PICK j \in Nat : j = k - 1
      BY <2>1
    <3>1. k = j + 1
      BY <2>1
    <3> QED
      BY <2>1, <3>1, MaxIsLast
  <2>3. (1..k) \ {k} = 1..k - 1
    BY <2>1
  <2> QED
    BY <1>3, <2>1, <2>2, <2>3 DEF Step
<1> QED
  BY <1>4, <1>5 DEF f, n

\* Plain elements behind a slash are joined to themselves.
LEMMA JoinPlain ==
  ASSUME NEW T, NEW others \in Seq(T), others # <<>>, Empty \in T,
         \A i \in 1..Len(others) : others[i] \notin {Empty, Dot, DotDot},
         NEW elements, elements = <<Empty>> \o others
  PROVE  Join(elements) = others
<1> DEFINE n == Len(others)
           f == Pushed(elements)
<1>1. n \in Nat
  OBVIOUS
<1>2. /\ elements \in Seq(T) /\ Len(elements) = n + 1 /\ elements[1] = Empty
      /\ \A i \in 1..n : elements[i + 1] = others[i]
  BY <1>1
<1>3. /\ f[{}] = <<>>
      /\ \A k \in 1..n + 1 : f[1..k] = Push(f[1..k - 1], elements[k])
  BY <1>2, PushedUnfolds
<1> HIDE DEF f
<1> DEFINE P == {k \in Nat : k <= n => f[1..k + 1] = SubSeq(others, 1, k)}
<1>4. 0 \in P
  <2>1. 1 \in 1..n + 1 /\ 1..1 - 1 = {} /\ SubSeq(others, 1, 0) = <<>>
    BY <1>1, SubSeqEmpty
  <2>2. f[1..1] = Push(<<>>, Empty)
    BY <1>2, <1>3, <2>1
  <2>3. Push(<<>>, Empty) = <<>>
    BY DEF Push
  <2>4. 1..0 + 1 = 1..1
    OBVIOUS
  <2>5. f[1..0 + 1] = SubSeq(others, 1, 0)
    BY <2>1, <2>2, <2>3, <2>4
  <2> QED
    BY <2>5
<1>5. ASSUME NEW k \in P PROVE k + 1 \in P
  <2> SUFFICES ASSUME k + 1 <= n PROVE f[1..(k + 1) + 1] = SubSeq(others, 1, k + 1)
    OBVIOUS
  <2>1. /\ k \in Nat /\ (k + 1) + 1 \in 1..n + 1 /\ ((k + 1) + 1) - 1 = k + 1
        /\ k + 1 \in 1..n /\ k \in 0..n - 1 /\ f[1..k + 1] = SubSeq(others, 1, k)
    BY <1>1
  <2>2. f[1..(k + 1) + 1] = Push(SubSeq(others, 1, k), others[k + 1])
    <3> PICK j : j = (k + 1) + 1
      OBVIOUS
    <3>1. j \in 1..n + 1 /\ j - 1 = k + 1
      BY <2>1
    <3>2. f[1..j] = Push(f[1..j - 1], elements[j])
      BY <1>3, <3>1
    <3>3. elements[j] = others[k + 1]
      BY <1>2, <2>1
    <3> QED
      BY <2>1, <3>1, <3>2, <3>3
  <2>3. Push(SubSeq(others, 1, k), others[k + 1]) = Append(SubSeq(others, 1, k), others[k + 1])
    BY <2>1 DEF Push
  <2>4. SubSeq(others, 1, k + 1) = Append(SubSeq(others, 1, k), others[k + 1])
    BY <2>1, PrefixStep
  <2> QED
    BY <2>2, <2>3, <2>4
<1>6. P = Nat
  <2>1. P \in SUBSET Nat
    OBVIOUS
  <2> HIDE DEF P
  <2> QED
    BY <1>4, <1>5, <2>1, NatSetInduction
<1>7. f[1..n + 1] = others
  <2>1. n \in P
    BY <1>1, <1>6
  <2>2. f[1..n + 1] = SubSeq(others, 1, n)
    BY <2>1
  <2> QED
    BY <2>2, SubSeqFull
<1>8. DOMAIN elements = 1..n + 1
  BY <1>2, LenProperties
<1>9. FoldLeft(Push, <<>>, elements) = others
  BY <1>7, <1>8, FoldIsPushed DEF f
<1> QED
  BY <1>9 DEF Join

\* A path without an element that is not its first starts as the path does.
LEMMA RemovedStartsSame ==
  ASSUME NEW T, NEW path \in Seq(T), NEW i \in 2..Len(path)
  PROVE  LET r == RemoveAt(path, i)
         IN  /\ path[1] \in T /\ r \in Seq(T) /\ r # <<>>
             /\ r = <<path[1]>> \o Tail(r) /\ Tail(r) \in Seq(T)
<1> DEFINE front == SubSeq(path, 1, i - 1)
           back == SubSeq(path, i + 1, Len(path))
           r == RemoveAt(path, i)
<1>1. Len(path) \in Nat /\ i \in Int /\ 2 <= i /\ i <= Len(path)
  OBVIOUS
<1>2. front \in Seq(T) /\ Len(front) = i - 1 /\ front[1] = path[1] /\ path[1] \in T
  BY <1>1
<1>3. back \in Seq(T) /\ Len(back) \in Nat
  BY <1>1
<1>4. r = front \o back
  BY DEF RemoveAt
<1> HIDE DEF front, back, r
<1>5. r \in Seq(T) /\ Len(r) = Len(front) + Len(back) /\ r[1] = front[1]
  <2>1. 1 \in 1..Len(front) + Len(back) /\ 1 <= Len(front)
    BY <1>1, <1>2, <1>3
  <2> QED
    BY <1>2, <1>3, <1>4, <2>1, ConcatProperties
<1>6. r # <<>> /\ r[1] = path[1]
  BY <1>1, <1>2, <1>3, <1>5
<1>7. r = <<r[1]>> \o Tail(r) /\ Tail(r) \in Seq(T)
  BY <1>5, <1>6
<1> QED
  BY <1>2, <1>5, <1>6, <1>7 DEF r

\* The request, once the selector has returned.
LEMMA RequestOnceSelected ==
  ASSUME RequestInv, pc \in {"url", "sent"}, NEW p, p = asked.request.path
  PROVE  \/ backend.select = "" /\ request = asked.request
         \/ /\ backend.select = "path" /\ Len(p) < backend.index + 1
            /\ request = asked.request
         \/ /\ backend.select = "path" /\ backend.index \in 0..Len(p) - 1
            /\ request = [asked.request EXCEPT !.path = Join(RemoveAt(p, backend.index + 1))]
<1>1. CASE backend.select = ""
  BY <1>1 DEF RequestInv
<1>2. CASE backend.select = "path" /\ Len(p) < backend.index + 1
  BY <1>2, Zenon DEF RequestInv
<1> QED
  BY <1>1, <1>2, Zenon DEF RequestInv

\* A path selector that takes an element from behind the first leaves the others
\* to the backend, and whatever takes none leaves the whole path.
THEOREM RestIsKept == Spec => []RestOfPathKept
<1>1. HandlerInv => RestOfPathKept
  <2> SUFFICES ASSUME HandlerInv PROVE RestOfPathKept
    OBVIOUS
  <2> DEFINE path == asked.request.path
             removed == RemoveAt(path, backend.index + 1)
             others == Tail(removed)
             plain == {Empty, Dot, DotDot} \cap Range(others) = {}
  <2> SUFFICES ASSUME Sent
               PROVE  IF backend.select = "" \/ backend.index >= Len(path)
                      THEN url.path = Rooted(path)
                      ELSE backend.index > 0 /\ others # <<>> /\ plain =>
                             url.path = <<Empty>> \o others
    BY DEF RestOfPathKept
  <2>1. /\ path \in Seq(Range(path)) /\ path # <<>> /\ (Len(path) > 1 => path[1] = Empty)
        /\ asked.request = [host |-> asked.request.host, path |-> path,
                            listener |-> asked.request.listener]
    BY DEF HandlerInv, Given, IsRequest, IsName
  <2>2. url.path = Rooted(request.path)
    <3>1. url = [host |-> target, path |-> Rooted(request.path)]
      BY Zenon DEF Sent, HandlerInv, RequestInv
    <3> QED
      BY ONLY <3>1
  <2>3. \/ backend.select = "" /\ request = asked.request
        \/ /\ backend.select = "path" /\ Len(path) < backend.index + 1
           /\ request = asked.request
        \/ /\ backend.select = "path" /\ backend.index \in 0..Len(path) - 1
           /\ request = [asked.request EXCEPT !.path = Join(removed)]
    BY RequestOnceSelected DEF Sent, HandlerInv
  <2>4. Len(path) \in Nat
    BY <2>1
  <2>5. CASE request = asked.request /\ (backend.select = "" \/ Len(path) < backend.index + 1)
    <3>1. backend.index \in Int
      BY ServedShape DEF Sent, Served, Ready, HandlerInv
    <3> PICK n \in Nat : n = Len(path)
      BY <2>4
    <3> PICK k \in Int : k = backend.index
      BY <3>1
    <3>2. n < k + 1 => k >= n
      OBVIOUS
    <3>3. backend.select = "" \/ backend.index >= Len(path)
      BY <2>5, <3>2
    <3>4. url.path = Rooted(path)
      BY <2>2, <2>5
    <3> QED
      BY <3>3, <3>4
  <2>6. CASE /\ backend.select = "path" /\ backend.index \in 0..Len(path) - 1
             /\ request = [asked.request EXCEPT !.path = Join(removed)]
    <3>1. backend.index \in Int /\ ~(backend.select = "" \/ backend.index >= Len(path))
      BY <2>4, <2>6
    <3> SUFFICES ASSUME backend.index > 0, others # <<>>, plain
                 PROVE  url.path = <<Empty>> \o others
      BY <3>1
    <3>2. backend.index + 1 \in 2..Len(path) /\ path[1] = Empty
      BY <2>1, <2>4, <2>6
    <3>3. /\ Empty \in Range(path) /\ others \in Seq(Range(path))
          /\ removed = <<Empty>> \o others
      BY <2>1, <3>2, RemovedStartsSame
    <3> HIDE DEF removed
    <3>4. \A i \in 1..Len(others) : others[i] \notin {Empty, Dot, DotDot}
      BY <3>3, LenProperties DEF Range
    <3>5. Join(removed) = others
      BY <3>3, <3>4, JoinPlain
    <3>6. request.path = others
      BY <2>1, <2>6, <3>5
    <3>7. Rooted(others) = <<Empty>> \o others
      <4>1. 1 \in 1..Len(others) /\ others # <<Empty>>
        <5> PICK o \in Seq(Range(path)) : o = others
          BY <3>3
        <5>1. o # <<>>
          OBVIOUS
        <5>2. 1 \in 1..Len(o)
          BY <5>1
        <5>3. o[1] # Empty
          BY <3>4, <5>2
        <5>4. o # <<Empty>>
          <6>1. <<Empty>>[1] = Empty
            OBVIOUS
          <6> QED
            BY ONLY <6>1, <5>3
        <5> HIDE DEF others
        <5> QED
          BY <5>2, <5>4
      <4> QED
        BY <3>4, <4>1 DEF Rooted
    <3> QED
      BY <2>2, <3>6, <3>7
  <2> QED
    BY <2>3, <2>5, <2>6
<1> QED
  BY <1>1, HandlerInvHolds, PTL

=============================================================================
