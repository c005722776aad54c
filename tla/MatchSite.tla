----------------------------- MODULE MatchSite -----------------------------
(***************************************************************************)
(* What the rules of matchSite (pkg/server/listeners.go) mean for a host   *)
(* and a set of sites, without the tree: a walk says for each component,   *)
(* from the top-level domain down, whether it matches itself, a wildcard   *)
(* or, behind a wildcard, nothing.  Larger is better.                      *)
(***************************************************************************)
EXTENDS HostTrie

Nothing == 1
Anything == 2
Itself == 3

Prefix(s, i) == SubSeq(s, 1, i)
LastOf(walk, i) == IF i = 0 THEN Itself ELSE walk[i]

\* The labels that a walk follows over each number of these components.
Followed(walk, components) ==
  LET labels[i \in 0..Len(walk)] ==
        IF i = 0 THEN <<>>
        ELSE IF walk[i] = Nothing THEN labels[i - 1]
        ELSE Append(labels[i - 1], IF walk[i] = Itself THEN components[i] ELSE Wildcard)
  IN  labels

\* And over all that it has.
Labels(walk, components) == Followed(walk, components)[Len(walk)]

Walks(hosts, components) ==
  LET nodes == NodesOf(hosts)
  IN  {walk \in UNION {[1..n -> {Nothing, Anything, Itself}] : n \in 0..Len(components)} :
         /\ \A i \in DOMAIN walk : walk[i] = Nothing => LastOf(walk, i - 1) # Itself
         /\ Labels(walk, components) \in nodes}

\* Walks are compared at the first component they disagree on; where one has
\* ended, the other is better.
Better(v, w) ==
  \E i \in DOMAIN v :
    /\ i <= Len(w) + 1
    /\ Prefix(v, i - 1) = Prefix(w, i - 1)
    /\ i \in DOMAIN w => v[i] > w[i]

BestWalk(hosts, components) ==
  LET walks == Walks(hosts, components)
  IN  CHOOSE w \in walks : \A v \in walks : v # w => Better(w, v)

\* The site at the end of the best of all walks.
BestSite(hosts, host) ==
  LET components == HostComponents(host)
  IN  TrieOf(hosts)[Labels(BestWalk(hosts, components), components)]
=============================================================================
