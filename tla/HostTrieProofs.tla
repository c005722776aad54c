--------------------------- MODULE HostTrieProofs ---------------------------
(***************************************************************************)
(* Lemmas about the operators of HostTrie, for all labels, hosts and trees:*)
(* the prefixes of a host and the nodes of a tree, and matchSite's walk,   *)
(* which is a recursive function.                                          *)
(***************************************************************************)
EXTENDS HostTrie, SequenceTheorems, WellFoundedInduction, TLAPS

-----------------------------------------------------------------------------
(* Sequences.                                                              *)

\* Reversing a sequence keeps its elements and is undone by reversing again.
LEMMA ReverseProperties ==
  ASSUME NEW S, NEW s \in Seq(S)
  PROVE  /\ Reverse(s) \in Seq(S)
         /\ Len(Reverse(s)) = Len(s)
         /\ Reverse(Reverse(s)) = s
<1>1. /\ Len(s) \in Nat
      /\ \A i \in 1..Len(s) : s[i] \in S /\ (Len(s) - i) + 1 \in 1..Len(s)
  BY LenProperties
<1>2. Reverse(s) \in Seq(S)
  BY <1>1 DEF Reverse
<1>3. Len(Reverse(s)) = Len(s)
  BY <1>1 DEF Reverse
<1>4. \A i \in 1..Len(s) : Reverse(s)[i] = s[(Len(s) - i) + 1]
  BY <1>1 DEF Reverse
<1>5. Reverse(Reverse(s)) \in Seq(S) /\ Len(Reverse(Reverse(s))) = Len(s)
  BY <1>1, <1>2, <1>3 DEF Reverse
<1>6. \A i \in 1..Len(s) : Reverse(Reverse(s))[i] = s[i]
  <2> TAKE i \in 1..Len(s)
  <2>1. Reverse(Reverse(s))[i] = Reverse(s)[(Len(s) - i) + 1]
    BY <1>1, <1>2, <1>3 DEF Reverse
  <2>2. (Len(s) - ((Len(s) - i) + 1)) + 1 = i
    BY <1>1
  <2> QED BY <1>1, <1>4, <2>1, <2>2
<1> QED BY <1>2, <1>3, <1>5, <1>6, SeqEqual

\* A prefix that is shorter than the sequence grows by the next element.
LEMMA PrefixStep ==
  ASSUME NEW S, NEW s \in Seq(S), NEW k \in 0..(Len(s) - 1)
  PROVE  /\ s[k + 1] \in S
         /\ SubSeq(s, 1, k) \in Seq(S) /\ Len(SubSeq(s, 1, k)) = k
         /\ SubSeq(s, 1, k + 1) = Append(SubSeq(s, 1, k), s[k + 1])
<1>1. Len(s) \in Nat /\ \A i \in 1..Len(s) : s[i] \in S
  BY LenProperties
<1> DEFINE p == SubSeq(s, 1, k)
           q == SubSeq(s, 1, k + 1)
<1>2. p \in Seq(S) /\ Len(p) = k /\ \A i \in 1..k : p[i] = s[i]
  <2>1. \A i \in 1..k : s[i] \in S
    BY <1>1
  <2> QED BY <1>1, <2>1, SubSeqProperties
<1>3. q \in Seq(S) /\ Len(q) = k + 1 /\ \A i \in 1..(k + 1) : q[i] = s[i]
  <2>1. \A i \in 1..(k + 1) : s[i] \in S
    BY <1>1
  <2> QED BY <1>1, <2>1, SubSeqProperties
<1>4. s[k + 1] \in S
  BY <1>1
<1> DEFINE a == Append(p, s[k + 1])
<1>5. /\ a \in Seq(S) /\ Len(a) = k + 1
      /\ \A i \in 1..k : a[i] = p[i]
      /\ a[k + 1] = s[k + 1]
  BY <1>2, <1>4, AppendProperties
<1>6. \A i \in 1..Len(q) : q[i] = a[i]
  BY <1>2, <1>3, <1>5
<1>7. q = a
  BY <1>3, <1>5, <1>6, SeqEqual
<1> QED BY <1>2, <1>4, <1>7

\* The prefixes of a prefix are the shorter ones.
LEMMA PrefixesOfPrefix ==
  ASSUME NEW S, NEW s \in Seq(S), NEW k \in 0..Len(s)
  PROVE  /\ SubSeq(s, 1, k) \in Seq(S) /\ Len(SubSeq(s, 1, k)) = k
         /\ Prefixes(SubSeq(s, 1, k)) = {SubSeq(s, 1, l) : l \in 0..k}
<1>1. Len(s) \in Nat /\ \A i \in 1..Len(s) : s[i] \in S
  BY LenProperties
<1>2. ASSUME NEW l \in 0..Len(s)
      PROVE  /\ SubSeq(s, 1, l) \in Seq(S) /\ Len(SubSeq(s, 1, l)) = l
             /\ \A i \in 1..l : SubSeq(s, 1, l)[i] = s[i]
  <2>1. \A i \in 1..l : s[i] \in S
    BY <1>1
  <2> QED BY <1>1, <2>1, SubSeqProperties
<1>3. ASSUME NEW l \in 0..k
      PROVE  SubSeq(SubSeq(s, 1, k), 1, l) = SubSeq(s, 1, l)
  <2> DEFINE p == SubSeq(s, 1, k)
             t == SubSeq(p, 1, l)
  <2>1. p \in Seq(S) /\ Len(p) = k /\ \A i \in 1..k : p[i] = s[i]
    BY <1>2
  <2>2. \A i \in 1..l : p[i] \in S
    BY <1>1, <2>1
  <2>3. t \in Seq(S) /\ Len(t) = l /\ \A i \in 1..l : t[i] = p[i]
    <3> HIDE DEF p
    <3> QED BY <2>2, SubSeqProperties
  <2>4. \A i \in 1..l : t[i] = SubSeq(s, 1, l)[i]
    BY <1>1, <1>2, <2>1, <2>3
  <2>5. SubSeq(s, 1, l) \in Seq(S) /\ Len(SubSeq(s, 1, l)) = l
    BY <1>1, <1>2
  <2> HIDE DEF t
  <2> QED BY <2>3, <2>4, <2>5, SeqEqual DEF t
<1> QED BY <1>1, <1>2, <1>3 DEF Prefixes

\* The prefixes of the empty sequence, of one that grows, and of a whole one.
LEMMA PrefixesProperties ==
  ASSUME NEW S, NEW s \in Seq(S)
  PROVE  /\ Prefixes(<<>>) = {<<>>}
         /\ SubSeq(s, 1, 0) = <<>>
         /\ SubSeq(s, 1, Len(s)) = s
         /\ s \in Prefixes(s)
         /\ \A k \in 0..(Len(s) - 1) :
              Prefixes(SubSeq(s, 1, k + 1)) =
                Prefixes(SubSeq(s, 1, k)) \cup {SubSeq(s, 1, k + 1)}
<1>1. Len(s) \in Nat /\ SubSeq(s, 1, 0) = <<>> /\ SubSeq(s, 1, Len(s)) = s
  BY LenProperties, SubSeqEmpty, SubSeqFull
<1>2. Prefixes(<<>>) = {<<>>}
  <2>1. 0 \in 0..Len(s) /\ 0..0 = {0}
    BY <1>1
  <2>2. Prefixes(SubSeq(s, 1, 0)) = {SubSeq(s, 1, l) : l \in 0..0}
    BY <2>1, PrefixesOfPrefix
  <2> QED BY <1>1, <2>1, <2>2
<1>3. s \in Prefixes(s)
  <2>1. Len(s) \in 0..Len(s)
    BY <1>1
  <2>2. SubSeq(s, 1, Len(s)) \in Prefixes(s)
    BY <2>1 DEF Prefixes
  <2> QED BY <1>1, <2>2
<1>4. ASSUME NEW k \in 0..(Len(s) - 1)
      PROVE  Prefixes(SubSeq(s, 1, k + 1)) =
               Prefixes(SubSeq(s, 1, k)) \cup {SubSeq(s, 1, k + 1)}
  <2>1. k \in 0..Len(s) /\ k + 1 \in 0..Len(s) /\ 0..(k + 1) = 0..k \cup {k + 1}
    BY <1>1
  <2>2. Prefixes(SubSeq(s, 1, k)) = {SubSeq(s, 1, l) : l \in 0..k}
    BY <2>1, PrefixesOfPrefix
  <2>3. Prefixes(SubSeq(s, 1, k + 1)) = {SubSeq(s, 1, l) : l \in 0..(k + 1)}
    BY <2>1, PrefixesOfPrefix
  <2> QED BY <2>1, <2>2, <2>3
<1> QED BY <1>1, <1>2, <1>3, <1>4

-----------------------------------------------------------------------------
(* Induction, over sets of numbers.                                        *)

\* The least number of a set.
LEMMA LeastNat ==
  ASSUME NEW T \in SUBSET Nat, T # {}
  PROVE  \E m \in T : \A k \in T : m <= k
<1> DEFINE R == {ss \in Nat \X Nat : ss[1] < ss[2]}
<1>1. IsWellFoundedOn(R, Nat)
  BY NatLessThanWellFounded DEF OpToRel
<1>2. PICK m \in T : \A k \in T : ~(<<k, m>> \in R)
  <2> HIDE DEF R
  <2> QED
    BY <1>1, WFMin
<1>3. ASSUME NEW k \in T PROVE m <= k
  <2>1. m \in Nat /\ k \in Nat
    OBVIOUS
  <2>2. <<k, m>> \in Nat \X Nat /\ <<k, m>>[1] = k /\ <<k, m>>[2] = m
    BY <2>1
  <2>3. ~(k < m)
    BY <1>2, <2>2
  <2> QED
    BY <2>1, <2>3
<1> QED
  BY <1>3

\* A set with 0 and the successor of each of its numbers has all of them.
LEMMA NatSetInduction ==
  ASSUME NEW T \in SUBSET Nat, 0 \in T, \A n \in T : n + 1 \in T
  PROVE  T = Nat
<1> SUFFICES ASSUME T # Nat PROVE FALSE
  OBVIOUS
<1>1. PICK m \in Nat \ T : \A k \in Nat \ T : m <= k
  BY LeastNat
<1>2. m # 0 /\ m - 1 \in Nat
  OBVIOUS
<1>3. m - 1 \in T
  BY <1>1, <1>2
<1> QED
  BY <1>2, <1>3

-----------------------------------------------------------------------------
(* The nodes that sites need.                                              *)

\* A site's own node is among the nodes it needs.
LEMMA NodeOfSite ==
  ASSUME NEW S, NEW hosts, NEW n \in Seq(S), Reverse(n) \in hosts
  PROVE  n \in NodesOf(hosts)
<1>1. HostComponents(Reverse(n)) = n /\ n \in Prefixes(n)
  BY ReverseProperties, PrefixesProperties DEF HostComponents
<1> QED BY <1>1 DEF NodesOf

LEMMA NodesOfUnion ==
  ASSUME NEW hosts, NEW h
  PROVE  NodesOf(hosts \cup {h}) = NodesOf(hosts) \cup Prefixes(HostComponents(h))
BY DEF NodesOf

\* Nodes are sequences of labels, and all prefixes of a node are nodes.
LEMMA NodesAreClosed ==
  ASSUME NEW S, NEW hosts \in SUBSET Seq(S), NEW n \in NodesOf(hosts)
  PROVE  n \in Seq(S) /\ \A k \in 0..Len(n) : SubSeq(n, 1, k) \in NodesOf(hosts)
<1>1. CASE n = <<>>
  <2>1. /\ <<>> \in Seq(S) /\ Len(<<>>) = 0 /\ SubSeq(<<>>, 1, 0) = <<>>
        /\ \A k \in 0..0 : k = 0
    BY SubSeqEmpty
  <2> QED
    BY <1>1, <2>1
<1>2. ASSUME NEW h \in hosts, n \in Prefixes(HostComponents(h))
      PROVE  n \in Seq(S) /\ \A k \in 0..Len(n) : SubSeq(n, 1, k) \in NodesOf(hosts)
  <2> DEFINE c == HostComponents(h)
  <2>1. c \in Seq(S)
    BY ReverseProperties DEF HostComponents
  <2> HIDE DEF c
  <2>2. PICK l \in 0..Len(c) : n = SubSeq(c, 1, l)
    BY <1>2 DEF Prefixes, c
  <2>3. /\ n \in Seq(S) /\ Len(n) = l
        /\ Prefixes(n) = {SubSeq(c, 1, k) : k \in 0..l}
    BY <2>1, <2>2, PrefixesOfPrefix
  <2>4. ASSUME NEW k \in 0..Len(n) PROVE SubSeq(n, 1, k) \in Prefixes(c)
    <3>1. SubSeq(n, 1, k) \in {SubSeq(c, 1, j) : j \in 0..l}
      BY <2>3 DEF Prefixes
    <3>2. Len(c) \in Nat /\ 0..l \subseteq 0..Len(c)
      BY <2>1
    <3> QED
      BY <3>1, <3>2 DEF Prefixes
  <2> QED
    BY <2>3, <2>4 DEF NodesOf, c
<1> QED
  BY <1>1, <1>2 DEF NodesOf

-----------------------------------------------------------------------------
(* The walk of matchSite, undisturbed.                                     *)

CursorStart == [node |-> <<>>, wasWildCard |-> FALSE, stopped |-> FALSE]

\* The walk over the first n components.
IsWalk(c, t, components, n) ==
  c = [i \in 0..n |-> IF i = 0 THEN CursorStart ELSE MatchLabel(t, c[i - 1], components[i])]

\* There is one for every number of components.
LEMMA WalkExists ==
  ASSUME NEW t, NEW components
  PROVE  \A n \in Nat : \E c : IsWalk(c, t, components, n)
<1> DEFINE Step(c, i) == MatchLabel(t, c, components[i])
           T == {n \in Nat : \E c : IsWalk(c, t, components, n)}
<1>1. 0 \in T
  <2> DEFINE c == [i \in 0..0 |-> CursorStart]
  <2>1. \A i \in 0..0 : i = 0
    OBVIOUS
  <2>2. c = [i \in 0..0 |-> IF i = 0 THEN CursorStart ELSE Step(c[i - 1], i)]
    BY <2>1
  <2>3. IsWalk(c, t, components, 0)
    BY <2>2 DEF IsWalk
  <2> QED
    BY <2>3
<1>2. ASSUME NEW n \in T PROVE n + 1 \in T
  <2>1. PICK c : IsWalk(c, t, components, n)
    OBVIOUS
  <2>2. /\ c = [i \in 0..n |-> IF i = 0 THEN CursorStart ELSE Step(c[i - 1], i)]
        /\ n \in Nat
    BY <2>1 DEF IsWalk
  <2> HIDE DEF Step
  <2> DEFINE d == [i \in 0..n + 1 |-> IF i = n + 1 THEN Step(c[n], n + 1) ELSE c[i]]
  <2>3. \A i \in 0..n + 1 : d[i] = IF i = 0 THEN CursorStart ELSE Step(d[i - 1], i)
    BY <2>2
  <2>4. d = [i \in 0..n + 1 |-> IF i = 0 THEN CursorStart ELSE Step(d[i - 1], i)]
    BY <2>3
  <2> HIDE DEF d
  <2>5. IsWalk(d, t, components, n + 1)
    BY <2>4 DEF IsWalk, Step
  <2>6. n + 1 \in Nat
    BY <2>2
  <2> QED
    BY <2>5, <2>6
<1>3. T = Nat
  <2> HIDE DEF T
  <2>1. T \in SUBSET Nat
    BY DEF T
  <2> QED
    BY <1>1, <1>2, <2>1, NatSetInduction
<1> QED
  BY <1>3

\* So Cursor is what its recursion says.
LEMMA CursorUnfolds ==
  ASSUME NEW t, NEW S, NEW components \in Seq(S)
  PROVE  /\ Cursor(t, components)[0] = CursorStart
         /\ \A i \in 1..Len(components) :
              Cursor(t, components)[i] =
                MatchLabel(t, Cursor(t, components)[i - 1], components[i])
<1> DEFINE n == Len(components)
           c == Cursor(t, components)
<1>1. n \in Nat
  OBVIOUS
<1>2. \E f : f = [i \in 0..n |-> IF i = 0 THEN CursorStart
                                 ELSE MatchLabel(t, f[i - 1], components[i])]
  <2>1. PICK f : IsWalk(f, t, components, n)
    <3> HIDE DEF n
    <3> QED
      BY <1>1, WalkExists
  <2> QED
    BY <2>1 DEF IsWalk
<1>3. c = [i \in 0..n |-> IF i = 0 THEN CursorStart
                          ELSE MatchLabel(t, c[i - 1], components[i])]
  BY <1>2, Zenon DEF Cursor, CursorStart
<1> HIDE DEF c, n
<1>4. 0 \in 0..n /\ \A i \in 1..n : i \in 0..n /\ i # 0
  BY <1>1
<1>5. c[0] = CursorStart /\ \A i \in 1..n : c[i] = MatchLabel(t, c[i - 1], components[i])
  BY <1>3, <1>4
<1> QED
  BY <1>5 DEF c, n

\* None changes anything once the loop was left.
LEMMA NoLabelOnceStopped ==
  ASSUME NEW t, NEW cursor, cursor.stopped = TRUE, NEW label
  PROVE  MatchLabel(t, cursor, label) = cursor
BY DEF MatchLabel

\* A walk that has stopped stays where it is.
LEMMA StoppedStays ==
  ASSUME NEW t, NEW S, NEW components \in Seq(S),
         NEW k \in 0..Len(components), NEW node, NEW wild \in BOOLEAN,
         Cursor(t, components)[k] = [node |-> node, wasWildCard |-> wild, stopped |-> TRUE]
  PROVE  Cursor(t, components)[Len(components)].node = node
<1> DEFINE n == Len(components)
           c == Cursor(t, components)
           end == [node |-> node, wasWildCard |-> wild, stopped |-> TRUE]
           T == {j \in Nat : k + j <= n => c[k + j] = end}
<1>0. n \in Nat /\ k \in Nat /\ k <= n
  OBVIOUS
<1>1. 0 \in T
  BY <1>0
<1>2. ASSUME NEW j \in T PROVE j + 1 \in T
  <2> SUFFICES ASSUME k + j + 1 <= n PROVE c[k + j + 1] = end
    OBVIOUS
  <2>1. c[k + j] = end /\ k + j + 1 \in 1..n /\ (k + j + 1) - 1 = k + j
    BY <1>0
  <2>2. c[k + j + 1] = MatchLabel(t, c[k + j], components[k + j + 1])
    BY <2>1, CursorUnfolds
  <2>3. \A label : MatchLabel(t, end, label) = end
    BY NoLabelOnceStopped
  <2> HIDE DEF c, end
  <2> QED
    BY <2>1, <2>2, <2>3
<1>3. T = Nat
  <2>1. T \in SUBSET Nat
    OBVIOUS
  <2> HIDE DEF T
  <2> QED
    BY <1>1, <1>2, <2>1, NatSetInduction
<1>4. n - k \in Nat /\ k + (n - k) = n
  <2> HIDE DEF n
  <2> QED
    BY <1>0
<1>5. c[k + (n - k)] = end
  <2>1. n - k \in T
    <3> HIDE DEF T, n
    <3> QED
      BY <1>3, <1>4
  <2> HIDE DEF c, end
  <2> QED
    BY <1>0, <1>4, <2>1
<1> QED
  BY <1>4, <1>5

\* The walk never leaves the tree.
LEMMA CursorType ==
  ASSUME NEW t, <<>> \in DOMAIN t, NEW S, NEW components \in Seq(S)
  PROVE  \A i \in 0..Len(components) :
           Cursor(t, components)[i] \in
             [node : DOMAIN t, wasWildCard : BOOLEAN, stopped : BOOLEAN]
<1> DEFINE n == Len(components)
           c == Cursor(t, components)
           C == [node : DOMAIN t, wasWildCard : BOOLEAN, stopped : BOOLEAN]
           T == {j \in Nat : j <= n => c[j] \in C}
<1>0. n \in Nat
  OBVIOUS
<1>1. 0 \in T
  <2>1. c[0] = CursorStart
    BY CursorUnfolds
  <2>2. CursorStart \in C
    BY DEF CursorStart
  <2> QED
    BY <2>1, <2>2
<1>2. ASSUME NEW j \in T PROVE j + 1 \in T
  <2> SUFFICES ASSUME j + 1 <= n PROVE c[j + 1] \in C
    OBVIOUS
  <2>1. c[j] \in C /\ j + 1 \in 1..n /\ (j + 1) - 1 = j
    BY <1>0
  <2>2. c[j + 1] = MatchLabel(t, c[j], components[j + 1])
    BY <2>1, CursorUnfolds
  <2> HIDE DEF c
  <2> QED
    BY <2>1, <2>2 DEF MatchLabel, Found
<1>3. T = Nat
  <2>1. T \in SUBSET Nat
    OBVIOUS
  <2> HIDE DEF T
  <2> QED
    BY <1>1, <1>2, <2>1, NatSetInduction
<1> QED
  BY <1>0, <1>3
=============================================================================
