---------------------------- MODULE ConfigMerge -----------------------------
(***************************************************************************)
(* configMapMerge of pkg/server/config/loading.go: the defaults (left) are *)
(* merged into the user's configuration (right), in place.                 *)
(*                                                                         *)
(* A configuration is a function from the paths of its keys to values; a   *)
(* nested map is the value Map and the paths that go on from it.  What     *)
(* yaml decodes to anything but map[string]interface{} is a single value:  *)
(* a scalar, a list, null, or a map with a key that is no string.          *)
(***************************************************************************)
EXTENDS SequencesExt

CONSTANT Map  \* the value of a nested map

VARIABLES
  left,   \* the default configuration
  right,  \* the user's configuration, which becomes the result
  todo,   \* the paths of the keys of left that a loop has still to visit
  user    \* history: the user's configuration as it was

mergeVars == <<left, right, todo, user>>

\* The keys of the map at this path.
KeysOf(config, path) == {p \in DOMAIN config : p # <<>> /\ Front(p) = path}

\* The value at this path with everything below it.
Below(config, path) == {p \in DOMAIN config : IsPrefix(path, p)}

\* What loadConfigMap can return: nested maps, each with what its keys hold.
IsConfigMap(config) ==
  \A path \in DOMAIN config :
    /\ path \in Seq(STRING) \ {<<>>}
    /\ \A i \in 1..Len(path) - 1 :
         SubSeq(path, 1, i) \in DOMAIN config /\ config[SubSeq(path, 1, i)] = Map

MergeInit(defaultMap, configMap) ==
  /\ left = defaultMap
  /\ right = configMap
  /\ todo = KeysOf(left, <<>>)
  /\ user = right

-----------------------------------------------------------------------------
(* One iteration of a loop over left, for any key: Go's order is random.   *)

\* The user does not have the key.
TakeLeft(path) ==
  /\ path \in todo /\ path \notin DOMAIN right
  /\ right' = [p \in DOMAIN right \cup Below(left, path) |->
                 IF p \in DOMAIN right THEN right[p] ELSE left[p]]
  /\ todo' = todo \ {path}
  /\ UNCHANGED <<left, user>>

\* A map on both sides: descend.
Descend(path) ==
  /\ path \in todo /\ path \in DOMAIN right
  /\ right[path] = Map /\ left[path] = Map
  /\ todo' = (todo \ {path}) \cup KeysOf(left, path)
  /\ UNCHANGED <<left, right, user>>

\* A mutant: break leaves the loop over the keys, not only the switch.
KeepRightBreaks(path) ==
  /\ path \in todo /\ path \in DOMAIN right
  /\ ~(right[path] = Map /\ left[path] = Map)
  /\ todo' = todo \ (IF right[path] = Map THEN KeysOf(left, Front(path)) ELSE {path})
  /\ UNCHANGED <<left, right, user>>

\* A mutant: the default replaces what is no map.
KeepRightUnlessMap(path) ==
  /\ path \in todo /\ path \in DOMAIN right
  /\ ~(right[path] = Map /\ left[path] = Map)
  /\ right' = IF right[path] = Map THEN right ELSE [right EXCEPT ![path] = left[path]]
  /\ todo' = todo \ {path}
  /\ UNCHANGED <<left, user>>

\* No map on one of the sides: the user's value stays.
KeepRight(path) ==
  /\ path \in todo /\ path \in DOMAIN right
  /\ ~(right[path] = Map /\ left[path] = Map)
  /\ todo' = todo \ {path}
  /\ UNCHANGED <<left, right, user>>

MergeKey == \E path \in todo : TakeLeft(path) \/ Descend(path) \/ KeepRight(path)

-----------------------------------------------------------------------------
(* Properties.                                                             *)

\* At no moment of the merge is anything lost or changed that the user wrote.
UserWins == \A path \in DOMAIN user : path \in DOMAIN right /\ right[path] = user[path]

\* "merged key-by-key, but lists will be replaced" (loading.go:74): when all is
\* visited, a default is there exactly if the user has a map, or nothing, at each
\* step of the way to it, and nothing else is new.
DefaultsFillIn ==
  todo = {} => \A path \in DOMAIN left \cup DOMAIN right :
    path \notin DOMAIN user =>
      LET open == \A i \in 1..Len(path) - 1 :
            SubSeq(path, 1, i) \in DOMAIN user => user[SubSeq(path, 1, i)] = Map
      IN  IF path \in DOMAIN left /\ open
          THEN path \in DOMAIN right /\ right[path] = left[path]
          ELSE path \notin DOMAIN right
=============================================================================
