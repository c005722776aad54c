------------------------------ MODULE HostTrie ------------------------------
(***************************************************************************)
(* The wildcard trie of pkg/server/listeners.go, as operators on values.   *)
(*                                                                         *)
(* A host is the sequence of its dot-separated labels in written order.    *)
(* A trie is a function whose domain is the set of matcher objects, each   *)
(* named by the labels that lead to it from the root <<>>, and whose value *)
(* is the matcher's backend field.  A node's subtrees map is not stored:   *)
(* it has the key l exactly when Append(node, l) is in the domain.         *)
(* A backend is named by the host of the site it was created for.          *)
(***************************************************************************)
EXTENDS Naturals, Sequences, SequencesExt

CONSTANT Wildcard   \* the label "*" (wildcardMatch)

\* A nil backend: <<>> is the name of no host.
NoBackend == <<>>

\* lo.Reverse(strings.Split(host, ".")): the walk starts at the top-level
\* domain.  Splitting never returns an empty slice, so hosts are non-empty.
HostComponents(host) == Reverse(host)

\* The matcher tree a listener is created with: a root without backend.
EmptyTrie == [node \in {<<>>} |-> NoBackend]

\* nextMatcher, found := currentMatcher.subtrees[label]
Found(trie, node, label) == Append(node, label) \in DOMAIN trie

\* currentMatcher.subtrees[label] = &matcher{backend: nil, ...}
AddSubtree(trie, node, label) ==
  [n \in DOMAIN trie \cup {Append(node, label)} |->
     IF n \in DOMAIN trie THEN trie[n] ELSE NoBackend]

\* currentMatcher.backend = backend
SetBackend(trie, node, backend) == [trie EXCEPT ![node] = backend]

-----------------------------------------------------------------------------
(* matchSite run alone, with nobody writing.                               *)

\* Mutant: a wildcard is tried before the component itself.
MatchWildcardFirst(trie, cursor, label) ==
  CASE cursor.stopped -> cursor
    [] ~cursor.stopped /\ Found(trie, cursor.node, Wildcard) ->
         [cursor EXCEPT !.node = Append(@, Wildcard), !.wasWildCard = TRUE]
    [] ~cursor.stopped /\ ~Found(trie, cursor.node, Wildcard)
                       /\ Found(trie, cursor.node, label) ->
         [cursor EXCEPT !.node = Append(@, label), !.wasWildCard = FALSE]
    [] OTHER -> [cursor EXCEPT !.stopped = ~cursor.wasWildCard]

\* One iteration of the loop over the components of the requested host.
MatchLabel(trie, cursor, label) ==
  CASE cursor.stopped -> cursor
    [] ~cursor.stopped /\ Found(trie, cursor.node, label) ->
         [cursor EXCEPT !.node = Append(@, label), !.wasWildCard = FALSE]
    [] ~cursor.stopped /\ ~Found(trie, cursor.node, label)
                       /\ Found(trie, cursor.node, Wildcard) ->
         [cursor EXCEPT !.node = Append(@, Wildcard), !.wasWildCard = TRUE]
    [] OTHER -> [cursor EXCEPT !.stopped = ~cursor.wasWildCard]

\* The cursor of the loop after each number of components.
Cursor(trie, components) ==
  LET cursor[i \in 0..Len(components)] ==
        IF i = 0
        THEN [node |-> <<>>, wasWildCard |-> FALSE, stopped |-> FALSE]
        ELSE MatchLabel(trie, cursor[i - 1], components[i])
  IN  cursor

\* The backend of the node at which the loop ends, whether it ran out of
\* components or stopped at the first one that has no match.
MatchSite(trie, host) ==
  LET components == HostComponents(host)
  IN  trie[Cursor(trie, components)[Len(components)].node]

-----------------------------------------------------------------------------
(* What a set of sites means, without reference to how a trie is built.    *)

\* The matcher objects that a set of sites needs.
NodesOf(hosts) ==
  {<<>>} \cup UNION {Prefixes(HostComponents(h)) : h \in hosts}

\* The trie that holds exactly these sites.
TrieOf(hosts) ==
  [n \in NodesOf(hosts) |-> IF Reverse(n) \in hosts THEN Reverse(n)
                                                    ELSE NoBackend]

\* The site a listener with these sites dispatches a host to.
Route(hosts, host) == MatchSite(TrieOf(hosts), host)

\* The labels of a node stand, in order, for the components at these positions.
\* A label stands for an equal component, or for any if it is the wildcard; the
\* first label stands for the first component; and components are passed over
\* only behind a wildcard.
StandsFor(node, components, pos) ==
  /\ \A j \in 1..Len(node) : node[j] \in {components[pos[j]], Wildcard}
  /\ Len(node) > 0 => pos[1] = 1
  /\ \A j \in 1..(Len(node) - 1) :
       /\ pos[j] < pos[j + 1]
       /\ pos[j + 1] # pos[j] + 1 => node[j] = Wildcard

\* A node covers the first k components of a host.
Covers(node, components, k) ==
  \E pos \in [1..Len(node) -> 1..k] : StandsFor(node, components, pos)
=============================================================================
