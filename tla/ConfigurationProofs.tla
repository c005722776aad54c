------------------------ MODULE ConfigurationProofs -------------------------
(***************************************************************************)
(* Theorems about Configuration, for all configurations, files and chains: *)
(* the merge, the decoding of certificates, the outcome of the chains, and *)
(* where connections through them go.                                      *)
(***************************************************************************)
EXTENDS Configuration, SequenceTheorems, WellFoundedInduction, FiniteSetTheorems, TLAPS

-----------------------------------------------------------------------------
(* Paths.                                                                  *)

\* The prefixes of a path.
LEMMA PathPrefix ==
  ASSUME NEW S, NEW path \in Seq(S), NEW i \in 1..Len(path)
  PROVE  /\ SubSeq(path, 1, i) \in Seq(S)
         /\ Len(SubSeq(path, 1, i)) = i
         /\ SubSeq(path, 1, i) # <<>>
         /\ \A k \in 1..i : SubSeq(path, 1, i)[k] = path[k]
         /\ IsPrefix(SubSeq(path, 1, i), path)
         /\ i = Len(path) => SubSeq(path, 1, i) = path
<1>1. /\ SubSeq(path, 1, i) \in Seq(S)
      /\ Len(SubSeq(path, 1, i)) = i
      /\ \A k \in 1..i : SubSeq(path, 1, i)[k] = path[k]
  BY SubSeqProperties
<1>2. SubSeq(SubSeq(path, 1, i), 1, i) = SubSeq(path, 1, i)
  BY <1>1, SubSeqFull
<1> QED
  BY <1>1, <1>2, SubSeqFull DEF IsPrefix

\* The prefixes of a prefix are prefixes of the path.
LEMMA PrefixOfPrefix ==
  ASSUME NEW S, NEW path \in Seq(S), NEW i \in 1..Len(path), NEW k \in 1..i
  PROVE  SubSeq(SubSeq(path, 1, i), 1, k) = SubSeq(path, 1, k)
<1>1. SubSeq(path, 1, i) \in Seq(S) /\ Len(SubSeq(path, 1, i)) = i
  BY PathPrefix
<1>2. k \in 1..Len(path)
  OBVIOUS
<1> DEFINE p == SubSeq(path, 1, i)
<1> HIDE DEF p
<1>3. /\ SubSeq(p, 1, k) \in Seq(S) /\ Len(SubSeq(p, 1, k)) = k
      /\ \A j \in 1..k : SubSeq(p, 1, k)[j] = p[j]
  BY <1>1, PathPrefix DEF p
<1>4. /\ SubSeq(path, 1, k) \in Seq(S) /\ Len(SubSeq(path, 1, k)) = k
      /\ \A j \in 1..k : SubSeq(path, 1, k)[j] = path[j]
  BY <1>2, PathPrefix
<1>5. \A j \in 1..k : p[j] = path[j]
  BY PathPrefix DEF p
<1> QED
  BY <1>3, <1>4, <1>5, SeqEqual DEF p

\* What a prefix is.
LEMMA PrefixIs ==
  ASSUME NEW S, NEW p \in Seq(S), NEW q \in Seq(S), IsPrefix(p, q)
  PROVE  Len(p) <= Len(q) /\ p = SubSeq(q, 1, Len(p))
BY SubSeqFull DEF IsPrefix

\* The map that a path's key is in.
LEMMA FrontIs ==
  ASSUME NEW S, NEW path \in Seq(S), path # <<>>
  PROVE  /\ Len(path) = 1 => Front(path) = <<>>
         /\ Len(path) > 1 => Front(path) = SubSeq(path, 1, Len(path) - 1)
         /\ Front(path) \in Seq(S) /\ Len(Front(path)) = Len(path) - 1
<1>1. Len(path) \in Nat \ {0}
  BY EmptySeq
<1>2. CASE Len(path) = 1
  <2>1. Front(path) = <<>>
    BY <1>2, SubSeqEmpty DEF Front
  <2> QED
    BY <1>2, <2>1, EmptySeq
<1>3. CASE Len(path) > 1
  <2>1. Len(path) - 1 \in 1..Len(path)
    BY <1>1, <1>3
  <2>2. Front(path) = SubSeq(path, 1, Len(path) - 1)
    BY DEF Front
  <2>3. Front(path) \in Seq(S) /\ Len(Front(path)) = Len(path) - 1
    BY <2>1, <2>2, PathPrefix
  <2> QED
    BY <1>3, <2>2, <2>3
<1>4. \A n \in Nat \ {0} : n = 1 \/ n > 1
  OBVIOUS
<1>5. Len(path) = 1 \/ Len(path) > 1
  BY <1>1, <1>4, Zenon
<1> QED
  BY <1>2, <1>3, <1>5, ZenonT(20)

\* The front of a prefix is the next shorter prefix.
LEMMA FrontOfPrefix ==
  ASSUME NEW S, NEW path \in Seq(S), NEW i \in 1..Len(path) - 1
  PROVE  Front(SubSeq(path, 1, i + 1)) = SubSeq(path, 1, i)
<1>1. Len(path) \in Nat /\ i + 1 \in 1..Len(path) /\ i \in 1..i + 1
  BY LenProperties
<1>2. Len(SubSeq(path, 1, i + 1)) = i + 1
  BY <1>1, PathPrefix
<1>3. Front(SubSeq(path, 1, i + 1)) = SubSeq(SubSeq(path, 1, i + 1), 1, i)
  BY <1>2 DEF Front
<1> QED
  BY <1>1, <1>3, PrefixOfPrefix

-----------------------------------------------------------------------------
(* The merge.                                                              *)

\* Only an iteration of the merge changes a configuration, and none of them the
\* defaults or what the user wrote.
LEMMA MergeStep == [Next]_vars => MergeKey \/ UNCHANGED mergeVars
BY DEF Next, vars, loadVars, Load, Merge, MergeDone, DecodeMaps, FirstPassDone, Loaded,
       CheckTypes, Prescan, SkipSystem, Stat, ReadFile, Inline, InlinePath, ChangeFile,
       StartChain, Build, KeepChain, Ready, Returned

LEMMA SourcesStay == [Next]_vars => left' = left /\ user' = user
BY MergeStep DEF MergeKey, TakeLeft, Descend, KeepRight, mergeVars

\* Both configurations stay what yaml decoded them to.
ConfigsInv == IsConfig(left) /\ IsConfig(user)

LEMMA InitConfigs == Init => ConfigsInv
BY ScenariosAssumption DEF Init, MergeInit, ConfigsInv

LEMMA ConfigsStay == ConfigsInv /\ [Next]_vars => ConfigsInv'
<1> SUFFICES ASSUME ConfigsInv, [Next]_vars PROVE ConfigsInv'
  OBVIOUS
<1>1. left' = left /\ user' = user
  BY SourcesStay
<1> QED
  BY <1>1 DEF ConfigsInv, IsConfig, IsConfigMap, KeysOf

\* What an iteration adds was not there before.
LEMMA UserWinsStep == UserWins /\ [Next]_vars => UserWins'
<1> SUFFICES ASSUME UserWins, [Next]_vars PROVE UserWins'
  OBVIOUS
<1>1. user' = user
  BY SourcesStay
<1>2. ASSUME NEW path \in todo, TakeLeft(path) PROVE UserWins'
  BY <1>1, <1>2 DEF TakeLeft, UserWins
<1>3. CASE right' = right
  BY <1>1, <1>3 DEF UserWins
<1> QED
  BY <1>2, <1>3, MergeStep DEF MergeKey, Descend, KeepRight, mergeVars

\* Whatever the defaults are, and in whatever order the keys are visited, nothing
\* that the user wrote is lost or changed.
THEOREM UserIsKept == Spec => []UserWins
<1>1. Init => UserWins
  BY DEF Init, MergeInit, UserWins
<1> QED
  BY <1>1, UserWinsStep, PTL DEF Spec

\* The way to a path: no value of the user blocks it.
Open(path) ==
  \A i \in 1..Len(path) - 1 :
    SubSeq(path, 1, i) \in DOMAIN user => user[SubSeq(path, 1, i)] = Map

\* The path itself, or something on the way to it, is still to be visited.
Awaited(path) == \E i \in 1..Len(path) : SubSeq(path, 1, i) \in todo

\* The result has what the user wrote and open defaults; open defaults that are
\* not there yet are awaited; and what is to be visited is open.
MergeInv ==
  /\ UserWins
  /\ \A path \in DOMAIN right : path \notin DOMAIN user =>
       path \in DOMAIN left /\ right[path] = left[path] /\ Open(path)
  /\ \A path \in DOMAIN left : Open(path) => path \in DOMAIN right \/ Awaited(path)
  /\ \A path \in todo : path \in DOMAIN left /\ Open(path)

\* The keys of a configuration's maps.
LEMMA ConfigPath ==
  ASSUME NEW config, IsConfigMap(config), NEW path \in DOMAIN config
  PROVE  /\ path \in Seq(STRING) /\ path # <<>> /\ Len(path) \in Nat \ {0}
         /\ \A i \in 1..Len(path) - 1 :
              SubSeq(path, 1, i) \in DOMAIN config /\ config[SubSeq(path, 1, i)] = Map
         /\ \A i \in 1..Len(path) : SubSeq(path, 1, i) \in DOMAIN config
<1>1. /\ path \in Seq(STRING) /\ path # <<>> /\ Len(path) \in Nat \ {0}
      /\ \A i \in 1..Len(path) - 1 :
           SubSeq(path, 1, i) \in DOMAIN config /\ config[SubSeq(path, 1, i)] = Map
  BY EmptySeq DEF IsConfigMap
<1>2. SubSeq(path, 1, Len(path)) = path
  BY <1>1, SubSeqFull
<1>3. \A n \in Nat : \A i \in 1..n : i \in 1..n - 1 \/ i = n
  OBVIOUS
<1> QED
  BY <1>1, <1>2, <1>3

LEMMA InitMergeInv == Init => MergeInv
<1> SUFFICES ASSUME Init PROVE MergeInv
  OBVIOUS
<1>1. ConfigsInv
  BY InitConfigs
<1>2. right = user /\ todo = KeysOf(left, <<>>)
  BY DEF Init, MergeInit
<1>3. ASSUME NEW path \in DOMAIN left
      PROVE  Awaited(path)
  <2>1. path \in Seq(STRING) /\ 1 \in 1..Len(path) /\ SubSeq(path, 1, 1) \in DOMAIN left
    BY <1>1, ConfigPath DEF ConfigsInv, IsConfig
  <2>2. Len(SubSeq(path, 1, 1)) = 1 /\ SubSeq(path, 1, 1) \in Seq(STRING)
        /\ SubSeq(path, 1, 1) # <<>>
    BY <2>1, PathPrefix
  <2>3. Front(SubSeq(path, 1, 1)) = <<>>
    BY <2>2, FrontIs
  <2> QED
    BY <1>2, <2>1, <2>2, <2>3 DEF Awaited, KeysOf
<1>4. ASSUME NEW path \in todo
      PROVE  path \in DOMAIN left /\ Open(path)
  <2>1. path \in DOMAIN left /\ Front(path) = <<>>
    BY <1>2 DEF KeysOf
  <2>2. path \in Seq(STRING) /\ path # <<>>
    BY <1>1, <2>1, ConfigPath DEF ConfigsInv, IsConfig
  <2>3. Len(path) - 1 = 0
    BY <2>1, <2>2, FrontIs, EmptySeq
  <2>4. 1..0 = {}
    OBVIOUS
  <2>5. 1..Len(path) - 1 = {}
    BY <2>3, <2>4, Zenon
  <2> QED
    BY <2>1, <2>5 DEF Open
<1> QED
  BY <1>2, <1>3, <1>4 DEF MergeInv, UserWins

\* What the user leaves open stays open: both configurations stay.
LEMMA OpenStays == ASSUME NEW path, user' = user PROVE Open(path)' = Open(path)
BY DEF Open

\* Below a default that is open and that the user does not have, all is open.
LEMMA OpenBelow ==
  ASSUME ConfigsInv, NEW path \in DOMAIN left, Open(path), path \notin DOMAIN user,
         NEW p \in Below(left, path)
  PROVE  Open(p)
<1> SUFFICES ASSUME NEW i \in 1..Len(p) - 1, SubSeq(p, 1, i) \in DOMAIN user
             PROVE  user[SubSeq(p, 1, i)] = Map
  BY DEF Open
<1> DEFINE n == Len(path)  m == Len(p)  q == SubSeq(p, 1, i)
<1>1. /\ path \in Seq(STRING) /\ n \in Nat \ {0}
      /\ p \in Seq(STRING) /\ m \in Nat \ {0}
      /\ IsPrefix(path, p)
  BY ConfigPath DEF ConfigsInv, IsConfig, Below
<1>2. n <= m /\ path = SubSeq(p, 1, n)
  BY <1>1, PrefixIs
<1> HIDE DEF n, m
<1>3. i \in 1..m - 1 /\ i \in 1..m /\ n \in 1..m
  BY <1>1, <1>2 DEF m
<1>4. CASE i < n
  <2>1. i \in 1..n /\ i \in 1..n - 1
    BY <1>1, <1>3, <1>4
  <2>2. q = SubSeq(path, 1, i)
    BY <1>1, <1>2, <1>3, <2>1, PrefixOfPrefix DEF m
  <2> QED
    BY <2>1, <2>2 DEF Open, n
<1>5. CASE i >= n
  <2>1. n \in 1..i
    BY <1>1, <1>3, <1>5
  <2>2. SubSeq(q, 1, n) = path
    BY <1>1, <1>2, <1>3, <2>1, PrefixOfPrefix DEF m
  <2>3. n \in 1..Len(q)
    BY <1>1, <1>3, <2>1, PathPrefix DEF m
  <2>4. SubSeq(q, 1, n) \in DOMAIN user
    BY <2>3, ConfigPath DEF ConfigsInv, IsConfig
  <2> QED
    BY <2>2, <2>4
<1>6. i < n \/ i >= n
  BY <1>1, <1>3
<1> QED
  BY <1>4, <1>5, <1>6

\* A default whose way goes through one that is taken, is taken with it.
LEMMA TakeMergeInv ==
  ASSUME ConfigsInv, MergeInv, user' = user, NEW path \in todo, TakeLeft(path)
  PROVE  MergeInv'
<1>1. path \in DOMAIN left /\ Open(path) /\ path \notin DOMAIN user
  BY DEF MergeInv, UserWins, TakeLeft
<1>2. left' = left /\ todo' = todo \ {path}
  BY DEF TakeLeft
<1>3. /\ DOMAIN right' = DOMAIN right \cup Below(left, path)
      /\ \A p \in DOMAIN right : right'[p] = right[p]
      /\ \A p \in Below(left, path) : p \notin DOMAIN right => right'[p] = left[p]
  BY DEF TakeLeft
<1>4. UserWins'
  BY <1>3 DEF MergeInv, UserWins
<1>5. ASSUME NEW p \in DOMAIN right', p \notin DOMAIN user'
      PROVE  p \in DOMAIN left' /\ right'[p] = left'[p] /\ Open(p)'
  <2>1. CASE p \in DOMAIN right
    BY <1>2, <1>3, <1>5, <2>1, OpenStays DEF MergeInv
  <2>2. CASE p \notin DOMAIN right
    <3>1. p \in Below(left, path)
      BY <1>3, <1>5, <2>2
    <3>2. Open(p)
      BY <1>1, <3>1, OpenBelow
    <3> QED
      BY <1>2, <1>3, <2>2, <3>1, <3>2, OpenStays DEF Below
  <2> QED
    BY <2>1, <2>2
<1>6. ASSUME NEW p \in DOMAIN left', Open(p)', p \notin DOMAIN right'
      PROVE  Awaited(p)'
  <2>1. Awaited(p)
    BY <1>2, <1>3, <1>6, OpenStays DEF MergeInv
  <2>2. PICK i \in 1..Len(p) : SubSeq(p, 1, i) \in todo
    BY <2>1 DEF Awaited
  <2>3. SubSeq(p, 1, i) # path
    <3>1. p \in Seq(STRING) /\ p \in DOMAIN left
      BY <1>2, <1>6, ConfigPath DEF ConfigsInv, IsConfig
    <3>2. IsPrefix(SubSeq(p, 1, i), p)
      BY <3>1, PathPrefix
    <3> QED
      BY <1>3, <1>6, <3>1, <3>2 DEF Below
  <2> QED
    BY <1>2, <2>2, <2>3 DEF Awaited
<1>7. \A p \in todo' : p \in DOMAIN left' /\ Open(p)'
  BY <1>2, OpenStays DEF MergeInv
<1> QED
  BY <1>4, <1>5, <1>6, <1>7 DEF MergeInv

\* The way to a default beyond a given prefix: what is next after it.
LEMMA NextOnTheWay ==
  ASSUME ConfigsInv, NEW p \in DOMAIN left, NEW i \in 1..Len(p), SubSeq(p, 1, i) # p
  PROVE  /\ left[SubSeq(p, 1, i)] = Map
         /\ i \in 1..Len(p) - 1 /\ i + 1 \in 1..Len(p)
         /\ SubSeq(p, 1, i + 1) \in KeysOf(left, SubSeq(p, 1, i))
<1> DEFINE n == Len(p)
<1>1. p \in Seq(STRING) /\ n \in Nat \ {0}
  BY ConfigPath DEF ConfigsInv, IsConfig
<1>2. i # n
  BY <1>1, PathPrefix
<1> HIDE DEF n
<1>3. i \in 1..n
  BY DEF n
<1>4. i \in 1..n - 1 /\ i + 1 \in 1..n
  BY <1>1, <1>2, <1>3
<1>5. left[SubSeq(p, 1, i)] = Map /\ SubSeq(p, 1, i + 1) \in DOMAIN left
  BY <1>4, ConfigPath DEF n, ConfigsInv, IsConfig
<1>6. SubSeq(p, 1, i + 1) # <<>>
  BY <1>1, <1>4, PathPrefix DEF n
<1>7. Front(SubSeq(p, 1, i + 1)) = SubSeq(p, 1, i)
  BY <1>1, <1>4, FrontOfPrefix DEF n
<1> QED
  BY <1>4, <1>5, <1>6, <1>7 DEF n, KeysOf

\* The keys of a map that is open, and is a map for the user as well, are open.
LEMMA OpenKey ==
  ASSUME ConfigsInv, NEW path \in DOMAIN left, Open(path),
         path \in DOMAIN user => user[path] = Map,
         NEW p \in KeysOf(left, path)
  PROVE  Open(p)
<1> SUFFICES ASSUME NEW i \in 1..Len(p) - 1, SubSeq(p, 1, i) \in DOMAIN user
             PROVE  user[SubSeq(p, 1, i)] = Map
  BY DEF Open
<1> DEFINE n == Len(path)  m == Len(p)
<1>1. /\ path \in Seq(STRING) /\ n \in Nat \ {0}
      /\ p \in Seq(STRING) /\ p # <<>> /\ m \in Nat \ {0}
      /\ Front(p) = path
  BY ConfigPath DEF ConfigsInv, IsConfig, KeysOf
<1>2. n = m - 1
  BY <1>1, FrontIs
<1>3. m > 1 => path = SubSeq(p, 1, m - 1)
  BY <1>1, FrontIs
<1> HIDE DEF n, m
<1>4. i \in 1..n /\ n \in 1..m
  BY <1>1, <1>2 DEF m
<1>5. path = SubSeq(p, 1, n)
  BY <1>1, <1>2, <1>3
<1>6. CASE i = n
  BY <1>5, <1>6
<1>7. CASE i # n
  <2>1. i \in 1..n - 1
    BY <1>1, <1>4, <1>7
  <2>2. SubSeq(path, 1, i) = SubSeq(p, 1, i)
    BY <1>1, <1>4, <1>5, PrefixOfPrefix DEF m
  <2> QED
    BY <2>1, <2>2 DEF Open, n
<1> QED
  BY <1>6, <1>7

\* Behind a map on both sides, its keys are awaited instead.
LEMMA DescendMergeInv ==
  ASSUME ConfigsInv, MergeInv, user' = user, NEW path \in todo, Descend(path)
  PROVE  MergeInv'
<1>1. /\ left' = left /\ right' = right
      /\ todo' = (todo \ {path}) \cup KeysOf(left, path)
      /\ path \in DOMAIN right /\ right[path] = Map
  BY DEF Descend
<1>2. path \in DOMAIN left /\ Open(path)
  BY DEF MergeInv
<1>3. ASSUME NEW p \in DOMAIN left, Open(p), p \notin DOMAIN right
      PROVE  Awaited(p)'
  <2>1. PICK i \in 1..Len(p) : SubSeq(p, 1, i) \in todo
    BY <1>3 DEF MergeInv, Awaited
  <2>2. CASE SubSeq(p, 1, i) = path
    <3>1. SubSeq(p, 1, i) # p
      BY <1>1, <1>3, <2>2
    <3>2. i + 1 \in 1..Len(p) /\ SubSeq(p, 1, i + 1) \in KeysOf(left, path)
      BY <2>2, <3>1, NextOnTheWay
    <3> QED
      BY <1>1, <3>2 DEF Awaited
  <2>3. CASE SubSeq(p, 1, i) # path
    BY <1>1, <2>1, <2>3 DEF Awaited
  <2> QED
    BY <2>2, <2>3
<1>4. ASSUME NEW p \in todo'
      PROVE  p \in DOMAIN left /\ Open(p)
  <2>1. CASE p \in todo
    BY <2>1 DEF MergeInv
  <2>2. CASE p \in KeysOf(left, path)
    <3>1. path \in DOMAIN user => user[path] = Map
      BY <1>1 DEF MergeInv, UserWins
    <3> QED
      BY <1>2, <2>2, <3>1, OpenKey DEF KeysOf
  <2> QED
    BY <1>1, <1>4, <2>1, <2>2
<1>5. UserWins'
  BY <1>1 DEF MergeInv, UserWins
<1> QED
  BY <1>1, <1>3, <1>4, <1>5, OpenStays DEF MergeInv

\* Behind a value of the user's that is no map, no default is open.
LEMMA KeepMergeInv ==
  ASSUME ConfigsInv, MergeInv, user' = user, NEW path \in todo, KeepRight(path)
  PROVE  MergeInv'
<1>1. /\ left' = left /\ right' = right /\ todo' = todo \ {path}
      /\ path \in DOMAIN right /\ ~(right[path] = Map /\ left[path] = Map)
  BY DEF KeepRight
<1>2. ASSUME NEW p \in DOMAIN left, Open(p), p \notin DOMAIN right
      PROVE  Awaited(p)'
  <2>1. PICK i \in 1..Len(p) : SubSeq(p, 1, i) \in todo
    BY <1>2 DEF MergeInv, Awaited
  <2>2. ASSUME SubSeq(p, 1, i) = path PROVE FALSE
    <3>1. SubSeq(p, 1, i) # p
      BY <1>1, <1>2, <2>2
    <3>2. left[path] = Map /\ i \in 1..Len(p) - 1
      BY <2>2, <3>1, NextOnTheWay
    <3>3. path \in DOMAIN user => right[path] = user[path] /\ user[path] = Map
      BY <1>2, <2>2, <3>2 DEF Open, MergeInv, UserWins
    <3>4. path \notin DOMAIN user => right[path] = left[path]
      BY <1>1 DEF MergeInv
    <3> QED
      BY <1>1, <3>2, <3>3, <3>4
  <2> QED
    BY <1>1, <2>1, <2>2 DEF Awaited
<1>3. UserWins'
  BY <1>1 DEF MergeInv, UserWins
<1>4. \A p \in todo' : p \in DOMAIN left /\ Open(p)
  BY <1>1 DEF MergeInv
<1> QED
  BY <1>1, <1>2, <1>3, <1>4, OpenStays DEF MergeInv

\* MergeInv is inductive.
LEMMA MergeInvStep == ConfigsInv /\ MergeInv /\ [Next]_vars => MergeInv'
<1> SUFFICES ASSUME ConfigsInv, MergeInv, [Next]_vars PROVE MergeInv'
  OBVIOUS
<1>1. user' = user /\ left' = left
  BY SourcesStay
<1>2. CASE MergeKey
  BY <1>1, <1>2, TakeMergeInv, DescendMergeInv, KeepMergeInv DEF MergeKey
<1>3. CASE UNCHANGED mergeVars
  <2>1. \A path : Awaited(path)' = Awaited(path)
    BY <1>3 DEF Awaited, mergeVars
  <2> QED
    BY <1>3, <2>1, OpenStays DEF MergeInv, UserWins, mergeVars
<1> QED
  BY <1>2, <1>3, MergeStep

LEMMA MergeInvHolds == Spec => [](ConfigsInv /\ MergeInv)
BY InitConfigs, ConfigsStay, InitMergeInv, MergeInvStep, PTL DEF Spec

\* "merged key-by-key, but lists will be replaced", for maps of any depth and
\* whatever order the keys are visited in: a default is in the result exactly if
\* it is open, and nothing else is new.
THEOREM DefaultsAreFilledIn == Spec => []DefaultsFillIn
<1>1. ConfigsInv /\ MergeInv => DefaultsFillIn
  <2> SUFFICES ASSUME ConfigsInv, MergeInv, todo = {},
                      NEW path \in DOMAIN left \cup DOMAIN right, path \notin DOMAIN user
               PROVE  IF path \in DOMAIN left /\ Open(path)
                      THEN path \in DOMAIN right /\ right[path] = left[path]
                      ELSE path \notin DOMAIN right
    BY DEF DefaultsFillIn, Open
  <2>1. ~Awaited(path)
    BY DEF Awaited
  <2> QED
    BY <2>1 DEF MergeInv
<1> QED
  BY <1>1, MergeInvHolds, PTL

-----------------------------------------------------------------------------
(* The decoding: what it works on.                                         *)

\* The pool before the first entry.
BasePool == IF TLSCACertsSystem \in Range(list) /\ system THEN SystemCerts ELSE {}

\* The values of the result are the user's or the defaults'.
LEMMA ValuesOfRight ==
  ASSUME ConfigsInv, MergeInv
  PROVE  /\ <<"sites">> \in DOMAIN right =>
              right[<<"sites">>] \in {Null, Map, Scalar} \cup Seq(Seq(Entries))
         /\ \A n \in KeysOf(right, <<"proxychains">>) :
              right[n] \in {Null, Map, Scalar} \cup Seq(ChainTexts)
<1>1. \A p \in DOMAIN right : \/ p \in DOMAIN user /\ right[p] = user[p]
                              \/ p \in DOMAIN left /\ right[p] = left[p]
  BY DEF MergeInv, UserWins
<1> QED
  BY <1>1 DEF ConfigsInv, IsConfig, KeysOf

\* So the certificates of a site are a list of entries, whatever was decoded.
LEMMA ListIsSeq == ConfigsInv /\ MergeInv => list \in Seq(Entries)
<1> SUFFICES ASSUME ConfigsInv, MergeInv PROVE list \in Seq(Entries)
  OBVIOUS
<1>1. Sites \in Seq(Seq(Entries))
  <2>1. CASE Value(<<"sites">>) \in {Null, Map, Scalar}
    BY <2>1, EmptySeq DEF Sites, List
  <2>2. CASE Value(<<"sites">>) \notin {Null, Map, Scalar}
    <3>1. <<"sites">> \in DOMAIN right /\ Sites = right[<<"sites">>]
      BY <2>2 DEF Sites, List, Value
    <3>2. right[<<"sites">>] \notin {Null, Map, Scalar}
      BY <2>2, <3>1 DEF Value
    <3> QED
      BY <3>1, <3>2, ValuesOfRight
  <2> QED
    BY <2>1, <2>2
<1>2. CASE Sites = <<>>
  BY <1>2, EmptySeq DEF list
<1>3. CASE Sites # <<>>
  <2>1. Len(Sites) \in Nat \ {0}
    BY <1>1, <1>3, EmptySeq
  <2>2. \A n \in Nat \ {0} : 1 \in 1..n
    OBVIOUS
  <2>3. Sites[1] \in Seq(Entries)
    BY <1>1, <2>1, <2>2, ElementOfSeq
  <2> QED
    BY <1>3, <2>3 DEF list
<1> QED
  BY <1>2, <1>3

LEMMA ListStaysSeq == ConfigsInv' /\ MergeInv' => list' \in Seq(Entries)
<1>1. (ConfigsInv /\ MergeInv)' => (list \in Seq(Entries))'
  BY ListIsSeq, PTL
<1> QED
  BY <1>1

\* Outside of the merge all of it stays.
LEMMA DecodedStays ==
  ASSUME UNCHANGED <<mergeVars, world>>
  PROVE  /\ list' = list /\ Sites' = Sites /\ WellShaped' = WellShaped
         /\ Names' = Names /\ \A n : List(n)' = List(n)
         /\ BasePool' = BasePool
BY DEF list, Sites, List, Value, WellShaped, Names, KeysOf, BasePool, mergeVars, world

-----------------------------------------------------------------------------
(* The decoding: its course.                                               *)

\* How far Load is, and what it has checked on the way.
DecodeInv ==
  /\ pc \in {"merge", "decode", "types", "scan", "stat", "read", "loaded", "error"}
  /\ pass \in {1, 2} /\ idx \in 1..Len(list) + 1
  /\ pc = "merge" => pass = 1
  /\ pc # "merge" => todo = {}
  /\ pc \in {"merge", "decode", "types", "scan"} => idx = 1 /\ pool = {}
  /\ pc \notin {"merge", "decode", "error"} => WellShaped
  /\ pc \in {"scan", "stat", "read", "loaded"} => NotAString \notin Range(list)
  /\ pc = "read" => idx <= Len(list) /\ list[idx] \in Paths
  /\ pc = "loaded" => idx = Len(list) + 1 /\ pass = 2
  /\ pass = 2 => ~unused /\ WellShaped /\ NotAString \notin Range(list)
  /\ files \in [Paths -> Contents] /\ held \in [Paths -> SUBSET Contents]
  /\ \A p \in Paths : files[p] \in held[p]

LEMMA InitDecodeInv == Init => DecodeInv
<1> SUFFICES ASSUME Init PROVE DecodeInv
  OBVIOUS
<1>1. list \in Seq(Entries)
  BY InitConfigs, InitMergeInv, ListIsSeq
<1>2. Len(list) \in Nat
  BY <1>1, LenProperties
<1>3. 1 \in 1..Len(list) + 1
  BY <1>2
<1>4. files \in [Paths -> Contents] /\ held = [p \in Paths |-> {files[p]}]
  BY ScenariosAssumption DEF Init, LoadInit
<1> QED
  BY <1>3, <1>4 DEF Init, LoadInit, DecodeInv

\* The empty list has nothing in it.
LEMMA NoSites == Sites = <<>> => list = <<>> /\ Range(list) = {} /\ Len(list) = 0
BY DEF list, Range

\* DecodeInv is inductive.
LEMMA DecodeInvStep ==
  ConfigsInv /\ MergeInv /\ ConfigsInv' /\ MergeInv' /\ DecodeInv /\ [Next]_vars => DecodeInv'
<1> SUFFICES ASSUME ConfigsInv, MergeInv, ConfigsInv', MergeInv', DecodeInv, [Next]_vars
             PROVE  DecodeInv'
  OBVIOUS
<1> DEFINE n == Len(list)
<1>0. list \in Seq(Entries) /\ n \in Nat
  BY ListIsSeq, LenProperties
<1>1. ASSUME UNCHANGED loadVars PROVE DecodeInv'
  BY <1>1, DecodedStays DEF loadVars, mergeVars, world, disk, DecodeInv
<1>2. CASE Merge
  <2>1. list' \in Seq(Entries)
    BY ListStaysSeq
  <2>2. Len(list') \in Nat
    BY <2>1, LenProperties
  <2>3. 1 \in 1..Len(list') + 1
    BY <2>2
  <2> QED
    BY <1>2, <2>3 DEF Merge, DecodeInv, world, disk
<1>3. ASSUME UNCHANGED <<mergeVars, world>>, UNCHANGED disk,
             \/ MergeDone \/ DecodeMaps \/ CheckTypes \/ Prescan
             \/ Stat \/ InlinePath \/ Loaded
      PROVE  DecodeInv'
  <2> USE DEF DecodeInv, disk
  <2>1. /\ list' = list /\ WellShaped' = WellShaped /\ todo' = todo /\ unused' = unused
    BY <1>3, DecodedStays DEF mergeVars, world
  <2>2. CASE MergeDone
    BY <1>3, <2>1, <2>2 DEF MergeDone
  <2>3. CASE DecodeMaps
    BY <1>3, <2>1, <2>3, NoSites DEF DecodeMaps
  <2>4. CASE CheckTypes \/ Prescan
    BY <1>3, <2>1, <2>4 DEF CheckTypes, Prescan
  <2>5. CASE Stat \/ InlinePath
    BY <1>3, <2>1, <2>5 DEF Stat, InlinePath, Looping
  <2>6. CASE Loaded
    <3>1. idx \in 1..n + 1 /\ idx > n
      BY <2>6 DEF Loaded
    <3>2. idx = n + 1
      BY <1>0, <3>1
    <3> QED
      BY <1>3, <2>1, <2>6, <3>2 DEF Loaded
  <2> QED
    BY <1>3, <2>2, <2>3, <2>4, <2>5, <2>6
<1>4. CASE FirstPassDone
  <2>1. UNCHANGED <<mergeVars, world>> /\ todo' = todo /\ unused' = unused
    BY <1>4 DEF FirstPassDone, mergeVars, world
  <2>2. 1 \in 1..n + 1
    BY <1>0
  <2> QED
    BY <1>4, <2>1, <2>2, DecodedStays DEF FirstPassDone, DecodeInv
<1>5. ASSUME SkipSystem \/ Inline \/ ReadFile PROVE DecodeInv'
  <2>1. /\ UNCHANGED <<mergeVars, world, disk, pass>>
        /\ \/ idx' = idx + 1 /\ pc' = "stat"
           \/ idx' = idx /\ pc' = "error"
    BY <1>5 DEF SkipSystem, Inline, ReadFile, AppendCerts, Looping
  <2>2. /\ pc \in {"stat", "read"} /\ idx <= n /\ idx \in 1..n + 1
    BY <1>5 DEF SkipSystem, Inline, ReadFile, Looping, DecodeInv
  <2>3. idx + 1 \in 1..n + 1
    BY <1>0, <2>2
  <2>4. todo' = todo /\ unused' = unused /\ files' = files /\ held' = held
    BY <2>1 DEF mergeVars, world, disk
  <2> QED
    BY <2>1, <2>2, <2>3, <2>4, DecodedStays DEF DecodeInv
<1>6. CASE ChangeFile
  <2>1. PICK p \in Paths \cap Range(list), content \in Contents :
          /\ files' = [files EXCEPT ![p] = content]
          /\ held' = [held EXCEPT ![p] = @ \cup {content}]
    BY <1>6 DEF ChangeFile
  <2>2. /\ files' \in [Paths -> Contents] /\ held' \in [Paths -> SUBSET Contents]
        /\ \A q \in Paths : files'[q] \in held'[q]
    BY <2>1 DEF DecodeInv
  <2>3. UNCHANGED <<mergeVars, world, pc, pass, idx, pool>> /\ todo' = todo /\ unused' = unused
    BY <1>6 DEF ChangeFile, mergeVars, world
  <2> QED
    BY <2>2, <2>3, DecodedStays DEF DecodeInv
<1>7. ASSUME MergeDone \/ DecodeMaps \/ CheckTypes \/ Prescan \/ Stat \/ InlinePath \/ Loaded
      PROVE  UNCHANGED <<mergeVars, world>> /\ UNCHANGED disk
  BY <1>7 DEF MergeDone, DecodeMaps, CheckTypes, Prescan, Stat, InlinePath, Loaded
<1>8. Load \/ UNCHANGED loadVars
  BY DEF Next, vars, StartChain, Build, KeepChain, Ready, Returned
<1> QED
  BY <1>1, <1>2, <1>3, <1>4, <1>5, <1>6, <1>7, <1>8 DEF Load

-----------------------------------------------------------------------------
(* The decoding: certificates.                                             *)

Entry(e) == IF e \in Paths THEN files[e] ELSE e

\* The certificates that some entries stand for.
CertsOf(entries) == UNION {Pem[text] : text \in {Entry(e) : e \in entries} \cap PemTexts}

ListedCerts == Range(list) \ {TLSCACertsSystem}

\* The entries before the loop's.
Seen == {list[k] : k \in 1..idx - 1} \ {TLSCACertsSystem}

\* An entry has stood for certificates at some moment, which the pool has.
Certified(e) == \E text \in StoodFor(e) : Usable(text)
Taken(e) == \E text \in StoodFor(e) : Usable(text) /\ Pem[text] \subseteq pool

\* The pool has what the entries so far stand for, and stood for at some moment;
\* in the second pass all of them have stood for something.
CertsInv ==
  /\ pc \in {"stat", "read", "loaded"} =>
       /\ changed = {} => pool = BasePool \cup CertsOf(Seen)
       /\ \A e \in Seen : Taken(e)
  /\ pass = 2 => \A e \in ListedCerts : Certified(e)

\* Why Load failed.
FailedInv ==
  pc = "error" =>
     \/ pass = 1 /\ (~WellShaped \/ unused \/ NotAString \in Range(list))
     \/ \E e \in ListedCerts :
          /\ \E text \in StoodFor(e) : ~Usable(text)
          /\ pass = 2 => Certified(e)

LEMMA CertsOfNone == CertsOf({}) = {}
BY DEF CertsOf

LEMMA CertsOfOneMore ==
  ASSUME NEW entries, NEW e, Entry(e) \in PemTexts
  PROVE  CertsOf(entries \cup {e}) = CertsOf(entries) \cup Pem[Entry(e)]
BY DEF CertsOf

\* What the loop has seen grows by the entry it was at.
LEMMA SeenGrows ==
  ASSUME NEW n \in Nat, idx \in 1..n, idx' = idx + 1, list' = list
  PROVE  Seen' = Seen \cup ({list[idx]} \ {TLSCACertsSystem})
<1>1. \A k : k \in 1..idx' - 1 <=> k \in 1..idx - 1 \/ k = idx
  OBVIOUS
<1> QED
  BY <1>1 DEF Seen

LEMMA SeenNone == idx = 1 => Seen = {}
<1>1. \A k : k \notin 1..1 - 1
  OBVIOUS
<1> QED
  BY <1>1 DEF Seen

LEMMA SeenAll ==
  ASSUME NEW S, list \in Seq(S), idx = Len(list) + 1
  PROVE  Seen = ListedCerts
<1> DEFINE n == Len(list)
<1>1. n \in Nat /\ DOMAIN list = 1..n
  BY LenProperties
<1> HIDE DEF n
<1>2. 1..idx - 1 = 1..n
  BY <1>1 DEF n
<1> QED
  BY <1>1, <1>2 DEF Seen, ListedCerts, Range

\* What an entry has stood for, it has stood for.
LEMMA StoodForGrows ==
  ASSUME \A p \in Paths : held[p] \subseteq held'[p], NEW e
  PROVE  /\ StoodFor(e) \subseteq StoodFor(e)'
         /\ Certified(e) => Certified(e)'
         /\ pool \subseteq pool' /\ Taken(e) => Taken(e)'
BY DEF StoodFor, Certified, Taken, Usable

\* The entry of the loop is one of those that count, unless it is "system".
LEMMA EntryListed ==
  ASSUME NEW S, list \in Seq(S), idx \in 1..Len(list), list[idx] # TLSCACertsSystem
  PROVE  list[idx] \in ListedCerts
BY LenProperties DEF ListedCerts, Range

LEMMA TextEntry ==
  ASSUME NEW e
  PROVE  /\ e \in Paths => e # TLSCACertsSystem /\ e \notin PemTexts
                           /\ Entry(e) = files[e] /\ StoodFor(e) = held[e]
         /\ e \in PemTexts => e # TLSCACertsSystem /\ e \notin Paths
                              /\ Entry(e) = e /\ StoodFor(e) = {e}
BY EntriesAssumption DEF Entry, StoodFor

\* AppendCerts of what the loop's entry stands for keeps both.
LEMMA AppendKeeps ==
  ASSUME ConfigsInv, MergeInv, DecodeInv, CertsInv, FailedInv,
         pc \in {"stat", "read"}, idx \in 1..Len(list), list[idx] \in Paths \cup PemTexts,
         Entry(list[idx]) \in PemTexts, AppendCerts(Entry(list[idx])),
         UNCHANGED <<mergeVars, world, disk, pass>>
  PROVE  CertsInv' /\ FailedInv'
<1> DEFINE e == list[idx]  text == Entry(e)
<1>1. list \in Seq(Entries) /\ Len(list) \in Nat /\ list' = list
  BY ListIsSeq, LenProperties, DecodedStays
<1>2. e # TLSCACertsSystem /\ e \in ListedCerts /\ text \in StoodFor(e)
  BY <1>1, EntryListed, TextEntry DEF DecodeInv
<1>3. \A x : /\ StoodFor(x)' = StoodFor(x) /\ Entry(x)' = Entry(x)
             /\ Certified(x)' = Certified(x)
  BY DEF StoodFor, Entry, Certified, disk
<1>4. ListedCerts' = ListedCerts /\ BasePool' = BasePool /\ changed' = changed /\ pass' = pass
  BY <1>1, DecodedStays DEF ListedCerts, disk
<1>5. CASE Pem[text] = {}
  <2>1. pc' = "error" /\ ~Usable(text)
    BY <1>5 DEF AppendCerts, Usable
  <2>2. FailedInv'
    BY <1>2, <1>3, <1>4, <2>1 DEF FailedInv, CertsInv
  <2> QED
    BY <1>3, <1>4, <2>1, <2>2 DEF CertsInv
<1>6. CASE Pem[text] # {}
  <2>1. pool' = pool \cup Pem[text] /\ idx' = idx + 1 /\ pc' = "stat" /\ Usable(text)
    BY <1>6 DEF AppendCerts, Usable
  <2>2. Seen' = Seen \cup {e}
    BY <1>1, <1>2, <2>1, SeenGrows
  <2>3. \A s : CertsOf(s)' = CertsOf(s)
    BY <1>3 DEF CertsOf
  <2>4. changed = {} => pool' = BasePool \cup CertsOf(Seen \cup {e})
    <3>1. CertsOf(Seen \cup {e}) = CertsOf(Seen) \cup Pem[text]
      BY CertsOfOneMore
    <3> QED
      BY <2>1, <3>1 DEF CertsInv
  <2>5. \A x \in Seen : Taken(x)'
    <3>1. \A x \in Seen : Taken(x)
      BY DEF CertsInv
    <3> QED
      BY <1>3, <2>1, <3>1 DEF Taken, Usable
  <2>6. \A x \in {e} : Taken(x)'
    BY <1>2, <1>3, <2>1 DEF Taken, Usable
  <2> QED
    BY <1>3, <1>4, <2>1, <2>2, <2>3, <2>4, <2>5, <2>6 DEF CertsInv, FailedInv
<1> QED
  BY <1>5, <1>6

LEMMA InitCertsInv == Init => CertsInv /\ FailedInv
BY DEF Init, LoadInit, CertsInv, FailedInv

\* CertsInv and FailedInv are inductive, with the course of Load.
LEMMA CertsInvStep ==
  /\ ConfigsInv /\ MergeInv /\ DecodeInv /\ CertsInv /\ FailedInv
  /\ DecodeInv' /\ [Next]_vars
  => CertsInv' /\ FailedInv'
<1> SUFFICES ASSUME ConfigsInv, MergeInv, DecodeInv, CertsInv, FailedInv, DecodeInv', [Next]_vars
             PROVE  CertsInv' /\ FailedInv'
  OBVIOUS
<1>0. list \in Seq(Entries) /\ Len(list) \in Nat /\ DOMAIN list = 1..Len(list)
  BY ListIsSeq, LenProperties
<1>1. ASSUME UNCHANGED <<mergeVars, world, disk>>
      PROVE  /\ ListedCerts' = ListedCerts /\ BasePool' = BasePool
             /\ WellShaped' = WellShaped /\ list' = list /\ unused' = unused
             /\ changed' = changed
             /\ \A e : Certified(e)' = Certified(e) /\ StoodFor(e)' = StoodFor(e)
             /\ \A s : CertsOf(s)' = CertsOf(s)
             /\ idx' = idx => Seen' = Seen
             /\ \A e : pool' = pool => Taken(e)' = Taken(e)
  BY <1>1, DecodedStays
     DEF ListedCerts, Certified, Taken, StoodFor, CertsOf, Entry, Seen, world, disk
<1>2. ASSUME UNCHANGED loadVars PROVE CertsInv' /\ FailedInv'
  <2>1. UNCHANGED <<mergeVars, world, disk>> /\ UNCHANGED <<pc, pass, idx, pool>>
    BY <1>2 DEF loadVars
  <2> QED
    BY <1>1, <2>1 DEF CertsInv, FailedInv
<1>3. CASE Merge
  BY <1>3 DEF Merge, DecodeInv, CertsInv, FailedInv
<1>4. CASE MergeDone \/ CheckTypes
  <2>1. UNCHANGED <<mergeVars, world, disk>> /\ pass' = pass
    BY <1>4 DEF MergeDone, CheckTypes
  <2>2. /\ pc' \in {"decode", "scan", "error"} /\ pc # "error"
        /\ pc' = "error" => NotAString \in Range(list) /\ pc = "types"
    BY <1>4 DEF MergeDone, CheckTypes
  <2>3. pc' = "error" => pass = 1
    BY <2>2 DEF DecodeInv
  <2>4. CertsInv'
    BY <1>1, <2>1, <2>2 DEF CertsInv
  <2>5. FailedInv'
    BY <1>1, <2>1, <2>2, <2>3 DEF FailedInv
  <2> QED
    BY <2>4, <2>5
<1>5. CASE DecodeMaps
  <2>1. UNCHANGED <<mergeVars, world, disk>> /\ UNCHANGED <<pass, idx, pool>>
    BY <1>5 DEF DecodeMaps
  <2>2. /\ pc' \in {"types", "stat", "error"} /\ pc = "decode" /\ idx = 1 /\ pool = {}
        /\ pc' = "error" => ~WellShaped /\ pass = 1
        /\ pc' = "stat" => Range(list) = {}
    BY <1>5, NoSites DEF DecodeMaps, DecodeInv
  <2>3. Seen = {}
    BY <2>2, SeenNone
  <2>4. pc' = "stat" => pool = BasePool \cup CertsOf(Seen)
    BY <2>2, <2>3, CertsOfNone DEF BasePool
  <2>5. CertsInv'
    BY <1>1, <2>1, <2>2, <2>3, <2>4 DEF CertsInv
  <2>6. FailedInv'
    BY <1>1, <2>1, <2>2 DEF FailedInv
  <2> QED
    BY <2>5, <2>6
<1>6. CASE Prescan
  <2>1. UNCHANGED <<mergeVars, world, disk>> /\ UNCHANGED <<pass, idx>>
    BY <1>6 DEF Prescan
  <2>2. pc' = "stat" /\ pool' = BasePool /\ idx = 1
    BY <1>6 DEF Prescan, BasePool, DecodeInv
  <2>3. Seen = {}
    BY <2>2, SeenNone
  <2>4. CertsInv'
    BY <1>1, <2>1, <2>2, <2>3, CertsOfNone DEF CertsInv
  <2> QED
    BY <2>2, <2>4 DEF FailedInv
<1>7. CASE FirstPassDone
  <2>1. idx \in 1..Len(list) + 1 /\ idx > Len(list) /\ pc = "stat" /\ pass = 1
    BY <1>7 DEF FirstPassDone, DecodeInv
  <2>2. idx = Len(list) + 1
    BY <1>0, <2>1
  <2>3. Seen = ListedCerts
    BY <1>0, <2>2, SeenAll
  <2>4. \A e \in ListedCerts : Certified(e)
    BY <2>1, <2>3 DEF CertsInv, Taken, Certified
  <2>5. /\ UNCHANGED <<mergeVars, world>> /\ held' = held
        /\ \/ pc' = "error" /\ unused /\ pass' = 1
           \/ pc' = "decode"
    BY <1>7, <2>1 DEF FirstPassDone
  <2>6. /\ ListedCerts' = ListedCerts /\ unused' = unused
        /\ \A e : Certified(e)' = Certified(e)
    BY <2>5, DecodedStays DEF ListedCerts, Certified, StoodFor, world
  <2> QED
    BY <2>4, <2>5, <2>6 DEF CertsInv, FailedInv
<1>8. CASE Loaded \/ Stat
  <2>1. UNCHANGED <<mergeVars, world, disk>> /\ UNCHANGED <<pass, idx, pool>>
    BY <1>8 DEF Loaded, Stat
  <2>2. pc = "stat" /\ pc' \in {"loaded", "read"}
    BY <1>8 DEF Loaded, Stat, Looping
  <2> QED
    BY <1>1, <2>1, <2>2 DEF CertsInv, FailedInv
<1>9. CASE SkipSystem
  <2>1. UNCHANGED <<mergeVars, world, disk>> /\ UNCHANGED <<pass, pc, pool>>
    BY <1>9 DEF SkipSystem
  <2>2. idx' = idx + 1 /\ list[idx] = TLSCACertsSystem /\ pc = "stat"
    BY <1>9 DEF SkipSystem, Looping
  <2>3. Seen' = Seen
    <3>1. idx \in 1..Len(list) + 1 /\ Len(list) + 1 \in Nat
      BY <1>0 DEF DecodeInv
    <3> QED
      BY <1>1, <2>1, <2>2, <3>1, SeenGrows
  <2> QED
    BY <1>1, <2>1, <2>2, <2>3 DEF CertsInv, FailedInv
<1>10. ASSUME Looping \/ pc = "read" PROVE idx \in 1..Len(list) /\ pc \in {"stat", "read"}
  <2>1. idx \in 1..Len(list) + 1 /\ idx <= Len(list)
    BY <1>10 DEF DecodeInv, Looping
  <2>2. idx \in 1..Len(list)
    BY <1>0, <2>1
  <2> QED
    BY <1>10, <2>2 DEF Looping
<1>11. CASE Inline
  BY <1>10, <1>11, TextEntry, AppendKeeps DEF Inline
<1>12. CASE ReadFile
  <2> DEFINE e == list[idx]
  <2>1. e \in Paths /\ idx \in 1..Len(list) /\ pc \in {"stat", "read"}
    BY <1>10, <1>12 DEF ReadFile, DecodeInv
  <2>2. Entry(e) = files[e] /\ UNCHANGED <<mergeVars, world, disk, pass>>
    BY <1>12, <2>1, TextEntry DEF ReadFile
  <2>3. CASE files[e] \in PemTexts
    BY <1>12, <2>1, <2>2, <2>3, AppendKeeps DEF ReadFile
  <2>4. CASE files[e] \notin PemTexts
    <3>1. pc' = "error" /\ UNCHANGED <<pool, idx>>
      BY <1>12, <2>4 DEF ReadFile
    <3>2. files[e] \in StoodFor(e) /\ ~Usable(files[e]) /\ e # TLSCACertsSystem
      BY <2>1, <2>4, TextEntry DEF DecodeInv, Usable
    <3>3. e \in ListedCerts
      BY <1>0, <2>1, <3>2, EntryListed
    <3> QED
      BY <1>1, <2>2, <3>1, <3>2, <3>3 DEF CertsInv, FailedInv
  <2> QED
    BY <2>3, <2>4
<1>13. CASE InlinePath
  <2> DEFINE e == list[idx]
  <2>1. e \in Paths /\ files[e] = Missing /\ idx \in 1..Len(list)
    BY <1>10, <1>13 DEF InlinePath
  <2>2. UNCHANGED <<mergeVars, world, disk>> /\ pc' = "error" /\ UNCHANGED <<pass, idx, pool>>
    BY <1>13 DEF InlinePath
  <2>3. Missing \in StoodFor(e) /\ ~Usable(Missing) /\ e # TLSCACertsSystem
    BY <2>1, TextEntry, EntriesAssumption DEF DecodeInv, Usable
  <2>4. e \in ListedCerts
    BY <1>0, <2>1, <2>3, EntryListed
  <2> QED
    BY <1>1, <2>2, <2>3, <2>4 DEF CertsInv, FailedInv
<1>14. CASE ChangeFile
  <2>1. /\ UNCHANGED <<mergeVars, world>> /\ UNCHANGED <<pc, pass, idx, pool>>
        /\ changed' # {} /\ pc # "error"
        /\ \A p \in Paths : held[p] \subseteq held'[p]
    BY <1>14 DEF ChangeFile, DecodeInv
  <2>2. ListedCerts' = ListedCerts /\ Seen' = Seen
    BY <2>1, DecodedStays DEF ListedCerts, Seen
  <2>3. \A e : (Certified(e) => Certified(e)') /\ (Taken(e) => Taken(e)')
    BY <2>1, StoodForGrows
  <2> QED
    BY <2>1, <2>2, <2>3 DEF CertsInv, FailedInv
<1>15. Load \/ UNCHANGED loadVars
  BY DEF Next, vars, StartChain, Build, KeepChain, Ready, Returned
<1> QED
  BY <1>2, <1>3, <1>4, <1>5, <1>6, <1>7, <1>8, <1>9, <1>11, <1>12, <1>13, <1>14, <1>15 DEF Load

LoadInv == ConfigsInv /\ MergeInv /\ DecodeInv /\ CertsInv /\ FailedInv

LEMMA LoadInvHolds == Spec => []LoadInv
<1>1. Init => LoadInv
  BY InitConfigs, InitMergeInv, InitDecodeInv, InitCertsInv DEF LoadInv
<1>2. LoadInv /\ [Next]_vars => LoadInv'
  BY ConfigsStay, MergeInvStep, DecodeInvStep, CertsInvStep DEF LoadInv
<1> QED
  BY <1>1, <1>2, PTL DEF Spec

\* Where the files that are listed did not change since the second pass began, the
\* pool is what they hold, and what the first pass has found is forgotten.
THEOREM LoadedPoolIsCurrent == Spec => []PoolIsCurrent
<1>1. LoadInv => PoolIsCurrent
  <2> SUFFICES ASSUME LoadInv, pc = "loaded", changed = {}
               PROVE  pool = BasePool \cup CertsOf(ListedCerts)
    BY DEF PoolIsCurrent, BasePool, CertsOf, ListedCerts, Entry
  <2>1. list \in Seq(Entries) /\ idx = Len(list) + 1
    BY ListIsSeq DEF LoadInv, DecodeInv
  <2>2. Seen = ListedCerts
    BY <2>1, SeenAll
  <2> QED
    BY <2>2 DEF LoadInv, CertsInv
<1> QED
  BY <1>1, LoadInvHolds, PTL

\* Load succeeds only without unused keys and with certificates from every entry,
\* and fails only for a reason that is in the configuration or in a file.
THEOREM LoadOutcomeIsJustified == Spec => []LoadOutcomeHasCause
<1>1. LoadInv => LoadOutcomeHasCause
  <2> SUFFICES ASSUME LoadInv PROVE LoadOutcomeHasCause
    OBVIOUS
  <2>1. ASSUME pc = "loaded" PROVE ~unused /\ \A e \in ListedCerts : Taken(e)
    <3>1. list \in Seq(Entries) /\ idx = Len(list) + 1 /\ ~unused
      BY <2>1, ListIsSeq DEF LoadInv, DecodeInv
    <3>2. Seen = ListedCerts
      BY <3>1, SeenAll
    <3> QED
      BY <2>1, <3>1, <3>2 DEF LoadInv, CertsInv
  <2> QED
    BY <2>1 DEF LoadOutcomeHasCause, LoadInv, FailedInv, ListedCerts, Taken, Certified
<1> QED
  BY <1>1, LoadInvHolds, PTL

-----------------------------------------------------------------------------
(* The chains.                                                             *)

\* A text from which a chain goes on.
GoodText(texts, i) ==
  \/ texts[i] \in URLs \cup {ProxyEnvironment}
  \/ texts[i] = ProxyDirect /\ i = 1

\* What the chain's texts are decoded to.
Decoding(texts) == [i \in DOMAIN texts |-> UnmarshalText(texts[i])]

\* What was built are chains that can be, up to the element the loop is at.
ChainInv ==
  /\ state \in {"range", "build", "built", "error", "ready"}
  /\ state # "range" => pc = "loaded"
  /\ \A n \in DOMAIN proxychains : pc = "loaded" /\ n \in Names /\ UsableChain(List(n))
  /\ state \in {"build", "built", "error"} =>
       /\ name \in Names
       /\ chain = Decoding(List(name))
       /\ element \in 1..Len(List(name)) + 1
       /\ \A i \in 1..element - 1 : GoodText(List(name), i)
  /\ state = "built" => element = Len(List(name)) + 1
  /\ state = "error" => element <= Len(List(name)) /\ ~GoodText(List(name), element)
  /\ state = "ready" => Names = DOMAIN proxychains

LEMMA UsableIs ==
  ASSUME NEW S, NEW texts \in Seq(S)
  PROVE  UsableChain(texts) <=> \A i \in 1..Len(texts) : GoodText(texts, i)
BY LenProperties DEF UsableChain, GoodText

\* Chains that were decoded are lists of texts.
LEMMA ChainTextsType ==
  ASSUME LoadInv, NEW n \in Names
  PROVE  /\ List(n) \in Seq(ChainTexts)
         /\ Len(List(n)) \in Nat /\ DOMAIN List(n) = 1..Len(List(n))
         /\ \A i \in 1..Len(List(n)) : List(n)[i] \in ChainTexts
<1>1. n \in DOMAIN right /\ right[n] \in {Null, Map, Scalar} \cup Seq(ChainTexts)
  BY ValuesOfRight DEF LoadInv, Names, KeysOf
<1>2. List(n) \in Seq(ChainTexts)
  BY <1>1, EmptySeq DEF List, Value
<1> QED
  BY <1>2, LenProperties, ElementOfSeq

\* The decoded chain, and what the loop makes of each of its elements.
LEMMA Decoded ==
  ASSUME LoadInv, NEW n \in Names,
         chain = Decoding(List(n))
  PROVE  /\ Len(chain) = Len(List(n))
         /\ \A i \in 1..Len(chain) :
              /\ chain[i] \in URLs \cup {ProxyEnvironment} => GoodText(List(n), i)
              /\ chain[i] = ProxyDirect /\ i = 1 => GoodText(List(n), i)
              /\ chain[i] = ProxyDirect /\ i # 1 => ~GoodText(List(n), i)
              /\ chain[i] \in OtherURLs => ~GoodText(List(n), i)
<1>1. /\ Len(List(n)) \in Nat /\ DOMAIN List(n) = 1..Len(List(n))
      /\ \A i \in 1..Len(List(n)) : List(n)[i] \in ChainTexts
  BY ChainTextsType
<1>2. Len(chain) = Len(List(n))
  BY <1>1 DEF Decoding
<1>3. ASSUME NEW i \in 1..Len(List(n))
      PROVE  /\ chain[i] \in URLs \cup {ProxyEnvironment} => GoodText(List(n), i)
             /\ chain[i] = ProxyDirect /\ i = 1 => GoodText(List(n), i)
             /\ chain[i] = ProxyDirect /\ i # 1 => ~GoodText(List(n), i)
             /\ chain[i] \in OtherURLs => ~GoodText(List(n), i)
  <2> DEFINE t == List(n)[i]
             c == chain[i]
  <2>1. t \in ChainTexts /\ c = IF t \in NoURLs THEN Blank ELSE t
    BY <1>1, <1>3 DEF Decoding, UnmarshalText
  <2>2. GoodText(List(n), i) <=>
          \/ t \in URLs \cup {ProxyEnvironment}
          \/ t = ProxyDirect /\ i = 1
    BY DEF GoodText
  <2>3. CASE t \in NoURLs
    <3>1. c \in OtherURLs
      BY <2>1, <2>3, TextsAssumption
    <3> HIDE DEF t, c
    <3> QED
      BY <2>2, <2>3, <3>1, TextsAssumption DEF t, c
  <2>4. CASE t \notin NoURLs
    <3>1. c = t
      BY <2>1, <2>4
    <3>2. c # ProxyEnvironment \/ c # ProxyDirect
      BY DEF ProxyEnvironment, ProxyDirect
    <3> HIDE DEF t, c
    <3> QED
      BY <2>2, <3>1, <3>2, TextsAssumption DEF t, c
  <2> QED
    BY <2>3, <2>4
<1> QED
  BY <1>2, <1>3

\* Nothing of the configuration changes while the chains are built.
LEMMA ChainsStay ==
  ASSUME right' = right
  PROVE  /\ Names' = Names
         /\ \A n : List(n)' = List(n)
         /\ \A n : UsableChain(List(n))' <=> UsableChain(List(n))
         /\ name' = name =>
              /\ List(name)' = List(name)
              /\ \A i : GoodText(List(name), i)' <=> GoodText(List(name), i)
<1>1. Names' = Names
  BY DEF Names, KeysOf
<1>2. \A n : List(n)' = List(n)
  BY DEF List, Value
<1>3. ASSUME NEW n PROVE UsableChain(List(n))' <=> UsableChain(List(n))
  BY <1>2 DEF UsableChain
<1>4. name' = name => List(name)' = List(name)
  BY DEF List, Value
<1>5. ASSUME name' = name, NEW i PROVE GoodText(List(name), i)' <=> GoodText(List(name), i)
  BY <1>4, <1>5 DEF GoodText
<1> QED
  BY <1>1, <1>2, <1>3, <1>4, <1>5

\* Load is over when it has succeeded.
LEMMA LoadIsOver == pc = "loaded" => ~Load
BY DEF Load, Merge, MergeDone, DecodeMaps, FirstPassDone, Loaded, CheckTypes, Prescan,
       SkipSystem, Stat, ReadFile, Inline, InlinePath, ChangeFile, Looping

LEMMA InitChainInv == Init => ChainInv
BY DEF Init, ChainInit, ChainInv

LEMMA ChainInvStep == LoadInv /\ ChainInv /\ [Next]_vars => ChainInv'
<1> SUFFICES ASSUME LoadInv, ChainInv, [Next]_vars PROVE ChainInv'
  OBVIOUS
<1>1. CASE Load /\ UNCHANGED <<environ, chainVars, proxychains, name>>
  <2>1. state = "range" /\ DOMAIN proxychains = {}
    BY <1>1, LoadIsOver DEF ChainInv
  <2>2. state' = "range" /\ DOMAIN proxychains' = {}
    BY <1>1, <2>1 DEF chainVars
  <2> QED
    BY <2>2 DEF ChainInv
<1>2. ASSUME NEW n \in Names, StartChain(n) PROVE ChainInv'
  <2>1. /\ pc = "loaded" /\ pc' = pc /\ right' = right
        /\ state' = "build" /\ element' = 1 /\ name' = n /\ proxychains' = proxychains
        /\ chain' = Decoding(List(n))
    BY <1>2 DEF StartChain, NewProxychain, loadVars, mergeVars, Decoding
  <2>2. Names' = Names /\ \A m : UsableChain(List(m))' <=> UsableChain(List(m))
    BY <2>1, ChainsStay
  <2>3. List(name)' = List(n)
    BY <2>1 DEF List, Value
  <2>4. Len(List(n)) \in Nat
    BY ChainTextsType
  <2>5. element' \in 1..Len(List(n)) + 1 /\ 1..element' - 1 = {}
    BY <2>1, <2>4
  <2> QED
    BY <2>1, <2>2, <2>3, <2>5 DEF ChainInv
<1>3. CASE Build
  <2>1. /\ state = "build" /\ right' = right
        /\ UNCHANGED <<pc, proxychains, name, chain>>
    BY <1>3 DEF Build, BuildChain, DirectFirst, DirectLater, Environment, Explicit,
                UnknownScheme, Built, Wrap, ReturnError, Building, loadVars, mergeVars
  <2>2. /\ Names' = Names /\ List(name)' = List(name)
        /\ \A n : UsableChain(List(n))' <=> UsableChain(List(n))
        /\ \A i : GoodText(List(name), i)' <=> GoodText(List(name), i)
    BY <2>1, ChainsStay
  <2>3. name \in Names /\ chain = Decoding(List(name))
    BY <2>1 DEF ChainInv
  <2>4. Len(List(name)) \in Nat
    BY <2>3, ChainTextsType
  <2>5. /\ Len(chain) = Len(List(name))
        /\ \A i \in 1..Len(chain) :
             /\ chain[i] \in URLs \cup {ProxyEnvironment} => GoodText(List(name), i)
             /\ chain[i] = ProxyDirect /\ i = 1 => GoodText(List(name), i)
             /\ chain[i] = ProxyDirect /\ i # 1 => ~GoodText(List(name), i)
             /\ chain[i] \in OtherURLs => ~GoodText(List(name), i)
    BY <2>3, Decoded
  <2> DEFINE n == Len(List(name))
  <2>6. element \in 1..n + 1 /\ \A i \in 1..element - 1 : GoodText(List(name), i)
    BY <2>1 DEF ChainInv
  <2>7. ASSUME element <= n, element' = element + 1, state' = "build",
               GoodText(List(name), element)
        PROVE  ChainInv'
    <3>1. element' \in 1..n + 1 /\ element' - 1 = element
      BY <2>4, <2>6, <2>7
    <3>2. \A i \in 1..element : i \in 1..element - 1 \/ i = element
      BY <2>4, <2>6
    <3>3. \A i \in 1..element' - 1 : GoodText(List(name), i)
      BY <2>6, <2>7, <3>1, <3>2
    <3> QED
      BY <2>1, <2>2, <2>3, <2>7, <3>1, <3>3 DEF ChainInv
  <2>8. ASSUME element <= n, element' = element, state' = "error",
               ~GoodText(List(name), element)
        PROVE  ChainInv'
    BY <2>1, <2>2, <2>3, <2>6, <2>8 DEF ChainInv
  <2>9. Building => element <= n /\ element \in 1..Len(chain)
    BY <2>4, <2>5, <2>6 DEF Building
  <2>10. CASE DirectFirst \/ Environment \/ Explicit
    <3>1. element <= n /\ element' = element + 1 /\ state' = "build"
      BY <2>1, <2>9, <2>10 DEF DirectFirst, Environment, Explicit, Wrap
    <3>2. GoodText(List(name), element)
      BY <2>5, <2>9, <2>10 DEF DirectFirst, Environment, Explicit
    <3> QED
      BY <2>7, <3>1, <3>2
  <2>11. CASE DirectLater \/ UnknownScheme
    <3>1. element <= n /\ element' = element /\ state' = "error"
      BY <2>9, <2>11 DEF DirectLater, UnknownScheme, ReturnError
    <3>2. ~GoodText(List(name), element)
      BY <2>5, <2>9, <2>11 DEF DirectLater, UnknownScheme
    <3> QED
      BY <2>8, <3>1, <3>2
  <2>12. CASE Built
    <3>1. element = n + 1 /\ element' = element /\ state' = "built"
      BY <2>4, <2>5, <2>6, <2>12 DEF Built
    <3> QED
      BY <2>1, <2>2, <2>3, <2>6, <3>1 DEF ChainInv
  <2> QED
    BY <1>3, <2>10, <2>11, <2>12 DEF Build, BuildChain
<1>4. CASE KeepChain
  <2>1. /\ state = "built" /\ state' = "range" /\ right' = right /\ UNCHANGED pc
        /\ DOMAIN proxychains' = DOMAIN proxychains \cup {name}
    BY <1>4 DEF KeepChain, loadVars, mergeVars
  <2>2. Names' = Names /\ \A n : UsableChain(List(n))' <=> UsableChain(List(n))
    BY <2>1, ChainsStay
  <2>3. name \in Names /\ pc = "loaded" /\ element = Len(List(name)) + 1
        /\ \A i \in 1..element - 1 : GoodText(List(name), i)
    BY <2>1 DEF ChainInv
  <2>4. List(name) \in Seq(ChainTexts) /\ Len(List(name)) \in Nat
    BY <2>3, ChainTextsType
  <2>5. UsableChain(List(name))
    <3>1. element - 1 = Len(List(name))
      BY <2>3, <2>4
    <3> QED
      BY <2>3, <2>4, <3>1, UsableIs
  <2> QED
    BY <2>1, <2>2, <2>3, <2>5 DEF ChainInv
<1>5. CASE Ready
  <2>1. /\ pc = "loaded" /\ state' = "ready" /\ Names = DOMAIN proxychains
        /\ right' = right /\ UNCHANGED <<pc, proxychains>>
    BY <1>5 DEF Ready, loadVars, mergeVars
  <2>2. Names' = Names /\ \A n : UsableChain(List(n))' <=> UsableChain(List(n))
    BY <2>1, ChainsStay
  <2> QED
    BY <2>1, <2>2 DEF ChainInv
<1>6. CASE UNCHANGED vars
  <2>1. /\ right' = right
        /\ UNCHANGED <<pc, state, chain, element, proxychains, name>>
    BY <1>6 DEF vars, loadVars, mergeVars, chainVars
  <2>2. /\ Names' = Names /\ List(name)' = List(name)
        /\ \A n : UsableChain(List(n))' <=> UsableChain(List(n))
        /\ \A i : GoodText(List(name), i)' <=> GoodText(List(name), i)
    BY <2>1, ChainsStay
  <2> QED
    BY <2>1, <2>2 DEF ChainInv
<1> QED
  BY <1>1, <1>2, <1>3, <1>4, <1>5, <1>6 DEF Next, Returned

LEMMA ChainInvHolds == Spec => []ChainInv
<1>1. Spec => []LoadInv
  BY LoadInvHolds
<1> QED
  BY <1>1, InitChainInv, ChainInvStep, PTL DEF Spec

\* The sequences of one element.
LEMMA OneElement ==
  ASSUME NEW S, NEW e
  PROVE  /\ Len(<<e>>) = 1 /\ <<e>>[1] = e
         /\ \A s \in Seq(S) : Len(s) = 1 => (s = <<e>> <=> s[1] = e)
<1>1. Len(<<e>>) = 1 /\ <<e>>[1] = e
  OBVIOUS
<1>2. ASSUME NEW s \in Seq(S), Len(s) = 1, s[1] = e PROVE s = <<e>>
  <2>1. \A i \in 1..Len(s) : s[i] = <<e>>[i]
    BY <1>1, <1>2
  <2>2. Len(s) = Len(<<e>>)
    BY <1>1, <1>2
  <2>3. <<e>> \in Seq(S)
    <3>1. e \in S
      BY <1>2, ElementOfSeq
    <3> QED
      BY <3>1
  <2> QED
    BY <1>1, <2>1, <2>2, <2>3, SeqEqual
<1> QED
  BY <1>1, <1>2

\* The names of chains, told by their length or by the map they are in.
LEMMA ChainName ==
  ASSUME NEW key, NEW n \in Seq(STRING), n # <<>>
  PROVE  Front(n) = <<key>> <=> Len(n) = 2 /\ n[1] = key
<1>1. Len(n) \in Nat \ {0} /\ Front(n) \in Seq(STRING) /\ Len(Front(n)) = Len(n) - 1
  BY FrontIs, EmptySeq
<1>2. CASE Len(n) = 2
  <2>1. Front(n) = SubSeq(n, 1, 1)
    BY <1>2 DEF Front
  <2>2. Len(Front(n)) = 1 /\ Front(n)[1] = n[1]
    BY <1>2, <2>1, PathPrefix
  <2> QED
    BY <1>1, <1>2, <2>2, OneElement
<1>3. CASE Len(n) # 2
  <2>1. Len(Front(n)) # 1
    BY <1>1, <1>3
  <2> QED
    BY <1>3, <2>1, OneElement
<1> QED
  BY <1>2, <1>3

\* What was loaded has all chains of the user, and of each what was written.
LEMMA TextsAreListed ==
  ASSUME LoadInv, pc = "loaded"
  PROVE  Written \subseteq Names /\ \A n \in Names : TextsOf(n) = List(n)
<1>1. /\ \A n \in DOMAIN user : n \in DOMAIN right /\ right[n] = user[n]
      /\ \A n \in DOMAIN right : n \notin DOMAIN user => right[n] = left[n] /\ n \in DOMAIN left
  BY DEF LoadInv, MergeInv, UserWins
<1>2. \A n \in DOMAIN right : n \in Seq(STRING) /\ n # <<>>
  BY <1>1 DEF LoadInv, ConfigsInv, IsConfig, IsConfigMap
<1>3. \A n \in DOMAIN right :
        Front(n) = <<"proxychains">> <=> Len(n) = 2 /\ n[1] = "proxychains"
  <2>1. ASSUME NEW key, NEW n \in DOMAIN right
        PROVE  Front(n) = <<key>> <=> Len(n) = 2 /\ n[1] = key
    BY <1>2, <2>1, ChainName
  <2> QED
    BY <2>1
<1>4. Written \subseteq Names
  BY <1>1, <1>2, <1>3 DEF Written, Names, KeysOf
<1>5. ASSUME NEW n \in Names PROVE TextsOf(n) = List(n)
  <2>1. n \in DOMAIN right /\ (n \in DOMAIN user <=> n \in Written)
    BY <1>3 DEF Names, KeysOf, Written
  <2>2. right[n] \notin {Map, Scalar}
    BY DEF LoadInv, DecodeInv, WellShaped, Names
  <2>3. List(n) = IF right[n] = Null THEN <<>> ELSE right[n]
    BY <2>1, <2>2 DEF List, Value
  <2>4. right[n] = IF n \in Written THEN user[n] ELSE left[n]
    BY <1>1, <2>1
  <2> QED
    BY <2>3, <2>4 DEF TextsOf
<1> QED
  BY <1>4, <1>5

\* Whatever chains the configurations hold, and in whatever order the loop over
\* the map meets them: Server goes on exactly if all of them can be built.
THEOREM ChainsDecideTheOutcome == Spec => []OutcomeFollowsChains
<1>1. LoadInv /\ ChainInv => OutcomeFollowsChains
  <2> SUFFICES ASSUME LoadInv, ChainInv, state \in {"ready", "error"}
               PROVE  OutcomeFollowsChains
    BY DEF OutcomeFollowsChains
  <2>1. pc = "loaded"
    BY DEF ChainInv
  <2>2. Names \cup Written = Names /\ \A n \in Names : TextsOf(n) = List(n)
    BY <2>1, TextsAreListed
  <2>3. CASE state = "ready"
    <3>1. \A n \in Names : UsableChain(List(n))
      BY <2>3 DEF ChainInv
    <3> QED
      BY <2>2, <2>3, <3>1 DEF OutcomeFollowsChains
  <2>4. CASE state = "error"
    <3>1. /\ name \in Names /\ element \in 1..Len(List(name)) + 1
          /\ element <= Len(List(name)) /\ ~GoodText(List(name), element)
      BY <2>4 DEF ChainInv
    <3>2. List(name) \in Seq(ChainTexts) /\ Len(List(name)) \in Nat
      BY <3>1, ChainTextsType
    <3>3. element \in 1..Len(List(name))
      BY <3>1, <3>2
    <3>4. ~UsableChain(List(name))
      BY <3>1, <3>2, <3>3, UsableIs
    <3> QED
      BY <2>2, <2>4, <3>1, <3>4 DEF OutcomeFollowsChains
  <2> QED
    BY <2>3, <2>4
<1> QED
  BY <1>1, ChainInvHolds, LoadInvHolds, PTL

-----------------------------------------------------------------------------
(* The elements of a sequence that are in a set.                           *)

\* A set with 0 and the successor of each of its numbers has all of them.
LEMMA AllNumbers ==
  ASSUME NEW T \in SUBSET Nat, 0 \in T, \A n \in T : n + 1 \in T
  PROVE  T = Nat
<1> SUFFICES ASSUME T # Nat PROVE FALSE
  OBVIOUS
<1> DEFINE R == {ss \in Nat \X Nat : ss[1] < ss[2]}
<1>1. IsWellFoundedOn(R, Nat)
  BY NatLessThanWellFounded DEF OpToRel
<1>2. PICK m \in Nat \ T : \A k \in Nat \ T : <<k, m>> \notin R
  <2>1. Nat \ T \subseteq Nat /\ Nat \ T # {}
    OBVIOUS
  <2> HIDE DEF R
  <2> QED
    BY <1>1, <2>1, WFMin
<1>3. m # 0 /\ m - 1 \in Nat /\ m - 1 < m /\ (m - 1) + 1 = m
  BY <1>2
<1>4. <<m - 1, m>> \in R
  BY <1>2, <1>3
<1>5. m - 1 \in T
  BY <1>2, <1>3, <1>4
<1> QED
  BY <1>2, <1>3, <1>5

\* What Only makes of each prefix.
Kept(urls, set) ==
  LET kept[i \in 0..Len(urls)] ==
        IF i = 0 THEN <<>>
        ELSE IF urls[i] \in set THEN Append(kept[i - 1], urls[i]) ELSE kept[i - 1]
  IN  kept

IsKept(f, urls, set, n) ==
  f = [i \in 0..n |-> IF i = 0 THEN <<>>
                      ELSE IF urls[i] \in set THEN Append(f[i - 1], urls[i]) ELSE f[i - 1]]

\* There is such a function for every number of elements.
LEMMA KeptExists ==
  ASSUME NEW urls, NEW set
  PROVE  \A n \in Nat : \E f : IsKept(f, urls, set, n)
<1> DEFINE Step(c, i) == IF urls[i] \in set THEN Append(c, urls[i]) ELSE c
           T == {n \in Nat : \E f : IsKept(f, urls, set, n)}
<1>1. 0 \in T
  <2> DEFINE c == [i \in 0..0 |-> <<>>]
  <2>1. \A i \in 0..0 : i = 0
    OBVIOUS
  <2>2. c = [i \in 0..0 |-> IF i = 0 THEN <<>> ELSE Step(c[i - 1], i)]
    BY <2>1
  <2>3. IsKept(c, urls, set, 0)
    BY <2>2 DEF IsKept
  <2> QED
    BY <2>3
<1>2. ASSUME NEW n \in T PROVE n + 1 \in T
  <2>1. PICK c : IsKept(c, urls, set, n)
    OBVIOUS
  <2>2. /\ c = [i \in 0..n |-> IF i = 0 THEN <<>> ELSE Step(c[i - 1], i)]
        /\ n \in Nat
    BY <2>1 DEF IsKept
  <2> HIDE DEF Step
  <2> DEFINE d == [i \in 0..n + 1 |-> IF i = n + 1 THEN Step(c[n], n + 1) ELSE c[i]]
  <2>3. \A i \in 0..n + 1 : d[i] = IF i = 0 THEN <<>> ELSE Step(d[i - 1], i)
    BY <2>2
  <2>4. d = [i \in 0..n + 1 |-> IF i = 0 THEN <<>> ELSE Step(d[i - 1], i)]
    BY <2>3
  <2> HIDE DEF d
  <2>5. IsKept(d, urls, set, n + 1)
    BY <2>4 DEF IsKept, Step
  <2>6. n + 1 \in Nat
    BY <2>2
  <2> QED
    BY <2>5, <2>6
<1>3. T = Nat
  <2> HIDE DEF T
  <2>1. T \in SUBSET Nat
    BY DEF T
  <2> QED
    BY <1>1, <1>2, <2>1, AllNumbers
<1> QED
  BY <1>3

\* So Only keeps one element after the other.
LEMMA KeptUnfolds ==
  ASSUME NEW T, NEW urls \in Seq(T), NEW set
  PROVE  /\ Only(urls, set) = Kept(urls, set)[Len(urls)]
         /\ Kept(urls, set)[0] = <<>>
         /\ \A i \in 1..Len(urls) :
              Kept(urls, set)[i] =
                IF urls[i] \in set THEN Append(Kept(urls, set)[i - 1], urls[i])
                ELSE Kept(urls, set)[i - 1]
<1> DEFINE n == Len(urls)
           c == Kept(urls, set)
           Step(f, i) == IF urls[i] \in set THEN Append(f[i - 1], urls[i]) ELSE f[i - 1]
<1>1. n \in Nat
  OBVIOUS
<1>2. \E f : f = [i \in 0..n |-> IF i = 0 THEN <<>> ELSE Step(f, i)]
  <2>1. PICK f : IsKept(f, urls, set, n)
    <3> HIDE DEF n
    <3> QED
      BY <1>1, KeptExists
  <2> HIDE DEF n
  <2> QED
    BY <2>1 DEF IsKept
<1>3. c = [i \in 0..n |-> IF i = 0 THEN <<>> ELSE Step(c, i)]
  BY <1>2, Zenon DEF Kept
<1>4. Only(urls, set) = c[n]
  BY DEF Only, Kept
<1> HIDE DEF c, n, Step
<1>5. c[0] = <<>>
  BY <1>1, <1>3
<1>6. ASSUME NEW i \in 1..n PROVE c[i] = Step(c, i)
  BY <1>1, <1>3
<1> QED
  BY <1>4, <1>5, <1>6 DEF c, n, Step

LEMMA OnlyOfNone ==
  ASSUME NEW T, NEW urls \in Seq(T), Len(urls) = 0, NEW set
  PROVE  Only(urls, set) = <<>>
<1>1. Only(urls, set) = Kept(urls, set)[Len(urls)]
  BY KeptUnfolds
<1>2. Kept(urls, set)[0] = <<>>
  BY KeptUnfolds
<1> QED
  BY <1>1, <1>2

\* An element more.
LEMMA OnlyAppend ==
  ASSUME NEW T, NEW urls \in Seq(T), NEW url \in T, NEW set
  PROVE  Only(Append(urls, url), set) =
           IF url \in set THEN Append(Only(urls, set), url) ELSE Only(urls, set)
<1> DEFINE n == Len(urls)
           more == Append(urls, url)
           c == Kept(urls, set)
           d == Kept(more, set)
           P == {i \in Nat : i <= n => c[i] = d[i]}
<1>1. /\ n \in Nat /\ more \in Seq(T) /\ Len(more) = n + 1 /\ more[n + 1] = url
      /\ \A i \in 1..n : more[i] = urls[i]
  BY AppendProperties
<1>2. /\ Only(urls, set) = c[n] /\ c[0] = <<>>
      /\ \A i \in 1..n :
           c[i] = IF urls[i] \in set THEN Append(c[i - 1], urls[i]) ELSE c[i - 1]
  BY KeptUnfolds
<1> HIDE DEF more
<1>3. /\ Only(more, set) = d[n + 1] /\ d[0] = <<>>
      /\ \A i \in 1..n + 1 :
           d[i] = IF more[i] \in set THEN Append(d[i - 1], more[i]) ELSE d[i - 1]
  BY <1>1, KeptUnfolds
<1> HIDE DEF c, d, n
<1>4. 0 \in P
  BY <1>2, <1>3
<1>5. ASSUME NEW i \in P PROVE i + 1 \in P
  <2> SUFFICES ASSUME i + 1 <= n PROVE c[i + 1] = d[i + 1]
    BY <1>1
  <2> PICK j : j = i + 1
    OBVIOUS
  <2>1. j \in 1..n /\ j \in 1..n + 1 /\ j - 1 = i /\ c[i] = d[i]
    BY <1>1
  <2> QED
    BY <1>1, <1>2, <1>3, <2>1
<1>6. P = Nat
  <2>1. P \in SUBSET Nat
    OBVIOUS
  <2> HIDE DEF P
  <2> QED
    BY <1>4, <1>5, <2>1, AllNumbers
<1>7. c[n] = d[n]
  BY <1>1, <1>6
<1>8. n + 1 \in 1..n + 1 /\ (n + 1) - 1 = n
  BY <1>1
<1> QED
  BY <1>1, <1>2, <1>3, <1>7, <1>8 DEF more

-----------------------------------------------------------------------------
(* Where connections go.                                                   *)

\* A chain up to an element, and with the next one.
LEMMA ChainPrefix ==
  ASSUME NEW T, NEW texts \in Seq(T), NEW k \in 1..Len(texts),
         NEW before, before = SubSeq(texts, 1, k - 1)
  PROVE  /\ before \in Seq(T) /\ Len(before) = k - 1
         /\ \A i \in 1..k - 1 : before[i] = texts[i]
         /\ texts[k] \in T /\ SubSeq(texts, 1, k) = Append(before, texts[k])
<1>1. Len(texts) \in Nat /\ k \in Int /\ k - 1 \in 0..Len(texts) /\ texts[k] \in T
  BY ElementOfSeq
<1>2. /\ before \in Seq(T) /\ Len(before) = k - 1
      /\ \A i \in 1..k - 1 : before[i] = texts[i]
  BY <1>1, SubSeqProperties
<1>3. /\ SubSeq(texts, 1, k) \in Seq(T) /\ Len(SubSeq(texts, 1, k)) = k
      /\ \A i \in 1..k : SubSeq(texts, 1, k)[i] = texts[i]
  BY <1>1, SubSeqProperties
<1> DEFINE more == Append(before, texts[k])
<1>4. /\ more \in Seq(T) /\ Len(more) = k /\ more[k] = texts[k]
      /\ \A i \in 1..k - 1 : more[i] = before[i]
  BY <1>1, <1>2, AppendProperties
<1> HIDE DEF more
<1>5. \A i \in 1..k : more[i] = texts[i]
  <2> SUFFICES ASSUME NEW i \in 1..k PROVE more[i] = texts[i]
    OBVIOUS
  <2>1. i = k \/ i \in 1..k - 1
    BY <1>1
  <2> QED
    BY <1>2, <1>4, <2>1
<1>6. SubSeq(texts, 1, k) = more
  BY <1>3, <1>4, <1>5, SeqEqual
<1> QED
  BY <1>1, <1>2, <1>6 DEF more

\* A text that is passed when it is dialed through as it stands in the chain.
Passed(texts, i, address) ==
  \/ texts[i] \in URLs
  \/ /\ texts[i] = ProxyEnvironment
     /\ environ.allProxy \in URLs /\ Dialed(texts, i, address) \notin environ.noProxy

\* With an element more, what was in front of it is passed as if on the way to it.
LEMMA HopsAppend ==
  ASSUME NEW T, NEW texts \in Seq(T), NEW text \in T, NEW address,
         NEW via, via = IF text = ProxyEnvironment THEN environ.allProxy ELSE text
  PROVE  Hops(Append(texts, text), address) =
           Hops(texts, via) \cup
             IF \/ text \in URLs
                \/ /\ text = ProxyEnvironment
                   /\ environ.allProxy \in URLs /\ address \notin environ.noProxy
             THEN {Len(texts) + 1} ELSE {}
<1> DEFINE n == Len(texts)
           more == Append(texts, text)
<1>1. /\ n \in Nat /\ Len(more) = n + 1 /\ more[n + 1] = text
      /\ \A i \in 1..n : more[i] = texts[i]
      /\ DOMAIN texts = 1..n /\ DOMAIN more = 1..n + 1
  BY AppendProperties, LenProperties
<1> HIDE DEF n, more
<1>2. 1..n + 1 = 1..n \cup {n + 1} /\ n + 1 \notin 1..n
  BY <1>1
<1>3. ASSUME NEW i \in 1..n PROVE Passed(more, i, address) <=> Passed(texts, i, via)
  <2>1. more[i] = texts[i] /\ i # n + 1
    BY <1>1, <1>2
  <2>2. Dialed(more, i, address) = Dialed(texts, i, via)
    <3>1. CASE i = n
      <4>1. more[i + 1] = text
        BY <1>1, <3>1
      <4> QED
        BY <1>1, <2>1, <3>1, <4>1 DEF Dialed, n
    <3>2. CASE i # n
      <4>1. i + 1 \in 1..n
        BY <1>1, <3>2
      <4>2. more[i + 1] = texts[i + 1]
        BY <1>1, <4>1
      <4> QED
        BY <1>1, <2>1, <3>2, <4>2 DEF Dialed, n
    <3> QED
      BY <3>1, <3>2
  <2> QED
    BY <2>1, <2>2 DEF Passed
<1>4. Passed(more, n + 1, address) <=>
        \/ text \in URLs
        \/ /\ text = ProxyEnvironment
           /\ environ.allProxy \in URLs /\ address \notin environ.noProxy
  BY <1>1 DEF Passed, Dialed
<1>5. /\ Hops(more, address) = {i \in 1..n + 1 : Passed(more, i, address)}
      /\ Hops(texts, via) = {i \in 1..n : Passed(texts, i, via)}
  BY <1>1 DEF Hops, Passed
<1> QED
  BY <1>2, <1>3, <1>4, <1>5 DEF n, more

\* It makes a difference where a connection goes only behind the environment's proxy.
LEMMA PassingSame ==
  ASSUME NEW T, NEW texts \in Seq(T), NEW a, NEW b,
         environ.allProxy \notin URLs \/
         ~\E i \in DOMAIN texts : texts[i] = ProxyEnvironment
  PROVE  Passing(texts, a) = Passing(texts, b)
BY DEF Passing, Hops

LEMMA PassingType ==
  ASSUME NEW T, NEW texts \in Seq(T), NEW address
  PROVE  /\ Passing(texts, address) \in Seq(URLs \cup {ProxyDirect})
         /\ Len(Passing(texts, address)) = Len(texts)
<1> DEFINE n == Len(texts)
           passing == Passing(texts, address)
<1>1. n \in Nat /\ DOMAIN texts = 1..n
  BY LenProperties
<1>2. passing = [i \in 1..n |-> IF i \notin Hops(texts, address) THEN ProxyDirect
                               ELSE IF texts[i] = ProxyEnvironment THEN environ.allProxy
                               ELSE texts[i]]
  BY <1>1 DEF Passing
<1>3. \A i \in 1..n : passing[i] \in URLs \cup {ProxyDirect}
  <2>1. \A i \in Hops(texts, address) :
          \/ texts[i] \in URLs
          \/ texts[i] = ProxyEnvironment /\ environ.allProxy \in URLs
    BY DEF Hops
  <2>2. ProxyEnvironment \notin URLs
    BY TextsAssumption
  <2> QED
    BY <1>2, <2>1, <2>2
<1> HIDE DEF n, passing
<1> QED
  BY <1>1, <1>2, <1>3 DEF n, passing

\* So what is in front of one element more adds what it adds on the way to that.
LEMMA PassingAppend ==
  ASSUME NEW T, NEW texts \in Seq(T), NEW text \in T, NEW address,
         NEW via, via = IF text = ProxyEnvironment THEN environ.allProxy ELSE text
  PROVE  Passing(Append(texts, text), address) =
           Append(Passing(texts, via),
                  IF \/ text \in URLs
                     \/ /\ text = ProxyEnvironment
                        /\ environ.allProxy \in URLs /\ address \notin environ.noProxy
                  THEN via ELSE ProxyDirect)
<1> DEFINE n == Len(texts)
           more == Append(texts, text)
           S == URLs \cup {ProxyDirect}
           hop == \/ text \in URLs
                  \/ /\ text = ProxyEnvironment
                     /\ environ.allProxy \in URLs /\ address \notin environ.noProxy
           added == IF hop THEN via ELSE ProxyDirect
           old == Passing(texts, via)
           new == Passing(more, address)
<1>1. /\ n \in Nat /\ Len(more) = n + 1 /\ more[n + 1] = text /\ more \in Seq(T)
      /\ \A i \in 1..n : more[i] = texts[i]
      /\ DOMAIN texts = 1..n /\ DOMAIN more = 1..n + 1
  BY AppendProperties, LenProperties
<1>2. Hops(more, address) = Hops(texts, via) \cup IF hop THEN {n + 1} ELSE {}
  BY HopsAppend
<1>3. Hops(texts, via) \subseteq 1..n
  BY <1>1 DEF Hops
<1> HIDE DEF more
<1>4. old \in Seq(S) /\ Len(old) = n /\ new \in Seq(S) /\ Len(new) = n + 1
  BY <1>1, PassingType
<1>5. \A i \in 1..n : i \in 1..n + 1 /\ i # n + 1
  BY <1>1
<1>6. n + 1 \in 1..n + 1 /\ n + 1 \notin 1..n
  BY <1>1
<1>7. added \in S
  BY TextsAssumption
<1> HIDE DEF n
<1>8. ASSUME NEW i \in 1..n PROVE new[i] = old[i]
  <2>1. i \in Hops(more, address) <=> i \in Hops(texts, via)
    BY <1>2, <1>5
  <2>2. more[i] = texts[i] /\ i \in DOMAIN texts /\ i \in DOMAIN more
    BY <1>1, <1>5
  <2> QED
    BY <2>1, <2>2 DEF Passing
<1>9. new[n + 1] = added
  <2>1. n + 1 \in Hops(more, address) <=> hop
    BY <1>2, <1>3, <1>6
  <2>2. new[n + 1] = IF hop THEN IF text = ProxyEnvironment THEN environ.allProxy ELSE text
                     ELSE ProxyDirect
    BY <1>1, <1>6, <2>1 DEF Passing
  <2> QED
    BY <2>2
<1> HIDE DEF added, old, new, S
<1>10. /\ Append(old, added) \in Seq(S) /\ Len(Append(old, added)) = n + 1
       /\ Append(old, added)[n + 1] = added
       /\ \A i \in 1..n : Append(old, added)[i] = old[i]
  BY <1>4, <1>7, AppendProperties
<1>11. \A i \in 1..n + 1 : new[i] = Append(old, added)[i]
  <2> SUFFICES ASSUME NEW i \in 1..n + 1 PROVE new[i] = Append(old, added)[i]
    OBVIOUS
  <2>1. i \in 1..n \/ i = n + 1
    BY <1>1
  <2> QED
    BY <1>8, <1>9, <1>10, <2>1
<1>12. new = Append(old, added)
  BY <1>4, <1>10, <1>11, SeqEqual
<1> QED
  BY <1>12 DEF new, old, added, more, n

Decodings == ChainTexts \cup {Blank}

\* What a chain that can be built is decoded to are its own texts.
LEMMA DecodedType ==
  ASSUME LoadInv, NEW n \in Names, NEW decoded, decoded = Decoding(List(n))
  PROVE  /\ decoded \in Seq(Decodings) /\ Len(decoded) = Len(List(n))
         /\ Len(decoded) \in Nat /\ DOMAIN decoded = 1..Len(decoded)
         /\ UsableChain(List(n)) => decoded = List(n)
<1> PICK texts : texts = List(n)
  OBVIOUS
<1>1. /\ texts \in Seq(ChainTexts) /\ Len(texts) \in Nat /\ DOMAIN texts = 1..Len(texts)
      /\ \A i \in 1..Len(texts) : texts[i] \in ChainTexts
  BY ChainTextsType
<1>2. decoded = [i \in 1..Len(texts) |-> UnmarshalText(texts[i])]
  BY <1>1 DEF Decoding
<1>3. \A i \in 1..Len(texts) : UnmarshalText(texts[i]) \in Decodings
  BY <1>1 DEF UnmarshalText, Decodings
<1>4. decoded \in Seq(Decodings) /\ Len(decoded) = Len(texts)
  BY <1>1, <1>2, <1>3
<1>5. ASSUME UsableChain(texts) PROVE decoded = texts
  <2>1. \A i \in 1..Len(texts) : texts[i] \in URLs \cup {ProxyEnvironment, ProxyDirect}
    BY <1>1, <1>5 DEF UsableChain
  <2>2. \A i \in 1..Len(texts) : UnmarshalText(texts[i]) = texts[i]
    BY <2>1, TextsAssumption DEF UnmarshalText
  <2>3. texts = [i \in 1..Len(texts) |-> texts[i]]
    BY <1>1
  <2> QED
    BY <1>2, <2>2, <2>3
<1> QED
  BY <1>1, <1>4, <1>5

\* What a dialer does for every address if it goes through the proxies of a chain.
Leads(dialer, texts) ==
  \A a \in Addrs :
    /\ dialer[a] \in Seq(URLs)
    /\ Only(dialer[a], Explicits) = Only(texts, Explicits)
    /\ EnvironmentOnce(texts) => dialer[a] = Only(Passing(texts, a), URLs)

\* So do the dialer that is being built, and those that were.
DialInv ==
  /\ state \in {"build", "built"} => Leads(proxyDialer, SubSeq(chain, 1, element - 1))
  /\ \A n \in DOMAIN proxychains : Leads(proxychains[n], List(n))

\* A proxy more, which is itself dialed through what is there.
LEMMA ProxyLeads ==
  ASSUME NEW T, NEW texts \in Seq(T), NEW dialer, Leads(dialer, texts), NEW url \in URLs
  PROVE  /\ Append(dialer[url], url) \in Seq(URLs)
         /\ Only(Append(dialer[url], url), Explicits) =
              IF url \in Explicits THEN Append(Only(texts, Explicits), url)
              ELSE Only(texts, Explicits)
         /\ EnvironmentOnce(texts) =>
              Append(dialer[url], url) = Append(Only(Passing(texts, url), URLs), url)
<1>1. url \in Addrs
  BY DEF Addrs
<1> PICK d : d = dialer[url]
  OBVIOUS
<1>2. /\ d \in Seq(URLs) /\ Only(d, Explicits) = Only(texts, Explicits)
      /\ EnvironmentOnce(texts) => d = Only(Passing(texts, url), URLs)
  BY <1>1 DEF Leads
<1>3. Append(d, url) \in Seq(URLs)
  BY <1>2, AppendProperties
<1>4. Only(Append(d, url), Explicits) =
        IF url \in Explicits THEN Append(Only(d, Explicits), url) ELSE Only(d, Explicits)
  <2> PICK set : set = Explicits
    OBVIOUS
  <2>1. Only(Append(d, url), set) = IF url \in set THEN Append(Only(d, set), url) ELSE Only(d, set)
    <3> PICK T1 : T1 = URLs
      OBVIOUS
    <3>1. d \in Seq(T1) /\ url \in T1
      BY <1>2
    <3> QED
      BY ONLY <3>1, OnlyAppend
  <2> QED
    BY <2>1
<1> QED
  BY <1>2, <1>3, <1>4

\* The environment's proxy is asked once in the part of a chain if it is in all of it.
LEMMA OnceInPart ==
  ASSUME NEW T, NEW texts \in Seq(T), NEW text \in T, EnvironmentOnce(Append(texts, text))
  PROVE  /\ EnvironmentOnce(texts)
         /\ text = ProxyEnvironment => ~\E i \in DOMAIN texts : texts[i] = ProxyEnvironment
<1> DEFINE n == Len(texts)
           more == Append(texts, text)
<1>1. /\ n \in Nat /\ more[n + 1] = text /\ DOMAIN texts = 1..n /\ DOMAIN more = 1..n + 1
      /\ \A i \in 1..n : more[i] = texts[i]
  BY AppendProperties, LenProperties
<1>2. \A i, j \in DOMAIN more : more[i] = ProxyEnvironment /\ more[j] = ProxyEnvironment => i = j
  BY DEF EnvironmentOnce
<1> HIDE DEF n, more
<1>3. \A i \in 1..n : i \in DOMAIN more /\ i # n + 1
  BY <1>1
<1>4. n + 1 \in DOMAIN more
  BY <1>1
<1>5. EnvironmentOnce(texts)
  BY <1>1, <1>2, <1>3 DEF EnvironmentOnce
<1> QED
  BY <1>1, <1>2, <1>3, <1>4, <1>5

\* What one more element of a chain makes of a dialer.
LEMMA StepLeads ==
  ASSUME NEW T, NEW texts \in Seq(T), NEW text \in T, NEW dialer, Leads(dialer, texts),
         NEW next,
         \/ text = ProxyDirect /\ texts = <<>> /\ next = dialer
         \/ text = ProxyEnvironment /\ next = FromEnvironmentUsing(dialer)
         \/ text \in URLs /\ next = FromURL(text, dialer)
  PROVE  Leads(next, Append(texts, text))
<1> DEFINE more == Append(texts, text)
           n == Len(texts)
<1>0. n \in Nat
  OBVIOUS
<1>1. Only(more, Explicits) =
        IF text \in Explicits THEN Append(Only(texts, Explicits), text)
        ELSE Only(texts, Explicits)
  BY OnlyAppend
<1>2. text \in {ProxyDirect, ProxyEnvironment} => text \notin URLs
  BY TextsAssumption
<1>3. EnvironmentOnce(more) =>
        /\ EnvironmentOnce(texts)
        /\ text = ProxyEnvironment => ~\E i \in DOMAIN texts : texts[i] = ProxyEnvironment
  BY OnceInPart
<1>4. ASSUME NEW a, NEW via, via = IF text = ProxyEnvironment THEN environ.allProxy ELSE text
      PROVE  Passing(more, a) =
               Append(Passing(texts, via),
                      IF \/ text \in URLs
                         \/ /\ text = ProxyEnvironment
                            /\ environ.allProxy \in URLs /\ a \notin environ.noProxy
                      THEN via ELSE ProxyDirect)
  BY <1>4, PassingAppend
<1>5. ASSUME NEW via, NEW added \in URLs \cup {ProxyDirect}
      PROVE  Only(Append(Passing(texts, via), added), URLs) =
               IF added \in URLs THEN Append(Only(Passing(texts, via), URLs), added)
               ELSE Only(Passing(texts, via), URLs)
  <2> PICK T2, old, set : T2 = URLs \cup {ProxyDirect} /\ old = Passing(texts, via) /\ set = URLs
    OBVIOUS
  <2>1. old \in Seq(T2)
    BY PassingType
  <2>2. added \in T2
    OBVIOUS
  <2>3. Only(Append(old, added), set) =
          IF added \in set THEN Append(Only(old, set), added) ELSE Only(old, set)
    BY ONLY <2>1, <2>2, OnlyAppend
  <2> QED
    BY <2>3
<1>6. ProxyDirect \notin URLs
  BY TextsAssumption
<1> HIDE DEF more
<1> SUFFICES ASSUME NEW a \in Addrs
             PROVE  /\ next[a] \in Seq(URLs)
                    /\ Only(next[a], Explicits) = Only(more, Explicits)
                    /\ EnvironmentOnce(more) => next[a] = Only(Passing(more, a), URLs)
  BY DEF Leads, more
<1>7. /\ dialer[a] \in Seq(URLs) /\ Only(dialer[a], Explicits) = Only(texts, Explicits)
      /\ EnvironmentOnce(texts) => dialer[a] = Only(Passing(texts, a), URLs)
  BY DEF Leads
<1>8. CASE text = ProxyDirect /\ texts = <<>> /\ next = dialer
  <2>1. text \notin URLs /\ text # ProxyEnvironment
    BY <1>2, <1>8 DEF ProxyDirect, ProxyEnvironment
  <2>2. Passing(more, a) = Append(Passing(texts, text), ProxyDirect)
    BY <1>4, <2>1
  <2>3. ~\E i \in DOMAIN texts : texts[i] = ProxyEnvironment
    BY <1>8
  <2>4. Passing(texts, text) = Passing(texts, a)
    BY <2>3, PassingSame
  <2>5. Only(Passing(more, a), URLs) = Only(Passing(texts, a), URLs)
    BY <1>5, <1>6, <2>2, <2>4
  <2> QED
    BY <1>1, <1>3, <1>7, <1>8, <2>1, <2>5 DEF Explicits
<1>9. CASE text \in URLs /\ next = FromURL(text, dialer)
  <2>1. text # ProxyEnvironment
    BY <1>2, <1>9
  <2>2. Passing(more, a) = Append(Passing(texts, text), text)
    BY <1>4, <1>9, <2>1
  <2>4. Only(Passing(more, a), URLs) = Append(Only(Passing(texts, text), URLs), text)
    BY <1>5, <1>9, <2>2
  <2>3. /\ next[a] = Append(dialer[text], text)
        /\ next[a] \in Seq(URLs)
        /\ Only(next[a], Explicits) =
             IF text \in Explicits THEN Append(Only(texts, Explicits), text)
             ELSE Only(texts, Explicits)
        /\ EnvironmentOnce(texts) => next[a] = Append(Only(Passing(texts, text), URLs), text)
    <3>1. next[a] = Append(dialer[text], text)
      BY <1>9 DEF FromURL
    <3>2. /\ Append(dialer[text], text) \in Seq(URLs)
          /\ Only(Append(dialer[text], text), Explicits) =
               IF text \in Explicits THEN Append(Only(texts, Explicits), text)
               ELSE Only(texts, Explicits)
          /\ EnvironmentOnce(texts) =>
               Append(dialer[text], text) = Append(Only(Passing(texts, text), URLs), text)
      BY <1>9, ProxyLeads
    <3> QED
      BY <3>1, <3>2
  <2> QED
    BY <1>1, <1>3, <2>3, <2>4
<1>10. CASE text = ProxyEnvironment /\ next = FromEnvironmentUsing(dialer)
  <2> DEFINE e == environ.allProxy
  <2>1. text \notin URLs /\ text \notin Explicits
    BY <1>2, <1>10 DEF Explicits
  <2>2. EnvironmentOnce(more) => Passing(texts, e) = Passing(texts, a)
    BY <1>3, <1>10, PassingSame
  <2>3. CASE e \in URLs /\ a \notin environ.noProxy
    <3>1. next[a] = FromURL(e, dialer)[a]
      BY <1>10, <2>3 DEF FromEnvironmentUsing
    <3>2. Passing(more, a) = Append(Passing(texts, e), e)
      BY <1>4, <1>10, <2>3
    <3>5. Only(Passing(more, a), URLs) = Append(Only(Passing(texts, e), URLs), e)
      BY <1>5, <2>3, <3>2
    <3>3. e \notin Explicits
      BY DEF Explicits
    <3>4. /\ next[a] = Append(dialer[e], e)
          /\ next[a] \in Seq(URLs)
          /\ Only(next[a], Explicits) = Only(texts, Explicits)
          /\ EnvironmentOnce(texts) => next[a] = Append(Only(Passing(texts, e), URLs), e)
      <4>1. next[a] = Append(dialer[e], e)
        BY <3>1 DEF FromURL
      <4> PICK url \in URLs : url = e
        BY <2>3
      <4>2. /\ Append(dialer[url], url) \in Seq(URLs)
            /\ Only(Append(dialer[url], url), Explicits) = Only(texts, Explicits)
            /\ EnvironmentOnce(texts) =>
                 Append(dialer[url], url) = Append(Only(Passing(texts, url), URLs), url)
        BY <3>3, ProxyLeads
      <4> QED
        BY <4>1, <4>2
    <3> QED
      BY <1>1, <1>3, <2>1, <3>4, <3>5
  <2>4. CASE ~(e \in URLs /\ a \notin environ.noProxy)
    <3>1. next[a] = dialer[a]
      BY <1>10, <2>4 DEF FromEnvironmentUsing
    <3>2. Passing(more, a) = Append(Passing(texts, e), ProxyDirect)
      BY <1>4, <1>10, <2>1, <2>4
    <3>3. Only(Passing(more, a), URLs) = Only(Passing(texts, e), URLs)
      BY <1>5, <1>6, <3>2
    <3> QED
      BY <1>1, <1>3, <1>7, <2>1, <2>2, <3>1, <3>3
  <2> QED
    BY <2>3, <2>4
<1> QED
  BY <1>8, <1>9, <1>10

\* The environment does not change, so a dialer leads where it led.
LEMMA LeadsStay ==
  ASSUME environ' = environ
  PROVE  /\ Leads(proxyDialer, SubSeq(chain, 1, element - 1))' <=>
              Leads(proxyDialer', SubSeq(chain', 1, element' - 1))
         /\ \A n : Leads(proxychains[n], List(n))' <=> Leads(proxychains'[n], List(n)')
<1>1. Explicits' = Explicits
  BY DEF Explicits
<1>2. ASSUME NEW texts, NEW a PROVE Passing(texts, a)' = Passing(texts, a)
  <2>1. Hops(texts, a)' = Hops(texts, a)
    BY DEF Hops, Dialed
  <2> QED
    BY <2>1 DEF Passing
<1>3. \A d, texts : Leads(d, texts)' <=> Leads(d, texts)
  BY <1>1, <1>2 DEF Leads
<1>4. Leads(proxyDialer, SubSeq(chain, 1, element - 1))' <=>
        Leads(proxyDialer', SubSeq(chain', 1, element' - 1))
  BY <1>3 DEF Leads
<1>5. ASSUME NEW n
      PROVE  Leads(proxychains[n], List(n))' <=> Leads(proxychains'[n], List(n)')
  <2> PICK d, texts : d = proxychains'[n] /\ texts = List(n)'
    OBVIOUS
  <2>1. Leads(d, texts)' <=> Leads(d, texts)
    BY <1>3
  <2> QED
    BY <2>1 DEF Leads
<1> QED
  BY <1>4, <1>5

\* A dialer that passes nothing is what no text at all leads to.
LEMMA DirectLeads ==
  ASSUME NEW T, NEW texts \in Seq(T), Len(texts) = 0
  PROVE  Leads(Direct, texts)
<1> SUFFICES ASSUME NEW a \in Addrs
             PROVE  /\ Direct[a] \in Seq(URLs)
                    /\ Only(Direct[a], Explicits) = Only(texts, Explicits)
                    /\ Direct[a] = Only(Passing(texts, a), URLs)
  BY DEF Leads
<1> PICK d \in Seq(URLs) : d = Direct[a] /\ Len(d) = 0
  <2>1. Direct[a] = <<>>
    BY DEF Direct
  <2>2. <<>> \in Seq(URLs) /\ Len(<<>>) = 0
    OBVIOUS
  <2> QED
    BY <2>1, <2>2
<1>1. \A set : Only(d, set) = <<>>
  BY OnlyOfNone
<1>2. \A set : Only(texts, set) = <<>>
  BY OnlyOfNone
<1>3. Only(Passing(texts, a), URLs) = <<>>
  <2> PICK T2, old, set : T2 = URLs \cup {ProxyDirect} /\ old = Passing(texts, a) /\ set = URLs
    OBVIOUS
  <2>1. old \in Seq(T2) /\ Len(old) = 0
    BY PassingType
  <2>2. Only(old, set) = <<>>
    BY ONLY <2>1, OnlyOfNone
  <2> QED
    BY <2>2
<1>4. d = <<>>
  BY EmptySeq
<1> QED
  BY <1>1, <1>2, <1>3, <1>4

LEMMA InitDialInv == Init => DialInv
BY DEF Init, ChainInit, DialInv

LEMMA DialInvStep == LoadInv /\ ChainInv /\ DialInv /\ [Next]_vars => DialInv'
<1> SUFFICES ASSUME LoadInv, ChainInv, DialInv, [Next]_vars PROVE DialInv'
  OBVIOUS
<1>0. environ' = environ
  BY DEF Next, StartChain, Build, KeepChain, Ready, Returned, vars
<1>1. ASSUME right' = right, proxychains' = proxychains,
             state' \in {"build", "built"} =>
               Leads(proxyDialer', SubSeq(chain', 1, element' - 1))
      PROVE  DialInv'
  <2>1. \A n : List(n)' = List(n)
    BY <1>1, ChainsStay
  <2> QED
    BY <1>0, <1>1, <2>1, LeadsStay DEF DialInv
<1>2. CASE Load /\ UNCHANGED <<environ, chainVars, proxychains, name>>
  <2>1. state = "range" /\ DOMAIN proxychains = {}
    BY <1>2, LoadIsOver DEF ChainInv
  <2>2. state' = "range" /\ DOMAIN proxychains' = {}
    BY <1>2, <2>1 DEF chainVars
  <2> QED
    BY <2>2 DEF DialInv
<1>3. ASSUME NEW n \in Names, StartChain(n) PROVE DialInv'
  <2>1. /\ right' = right /\ proxychains' = proxychains
        /\ element' = 1 /\ chain' = Decoding(List(n)) /\ proxyDialer' = Direct
    BY <1>3 DEF StartChain, NewProxychain, loadVars, mergeVars, Decoding
  <2>2. chain' \in Seq(Decodings)
    BY <2>1, DecodedType
  <2> PICK none : none = SubSeq(chain', 1, 0)
    OBVIOUS
  <2>3. none \in Seq(Decodings) /\ Len(none) = 0
    BY <2>2
  <2>4. Leads(Direct, none)
    BY <2>3, DirectLeads
  <2> QED
    BY <1>1, <2>1, <2>4
<1>4. CASE Build
  <2>1. /\ state = "build" /\ right' = right /\ proxychains' = proxychains /\ chain' = chain
    BY <1>4 DEF Build, BuildChain, DirectFirst, DirectLater, Environment, Explicit,
                UnknownScheme, Built, Wrap, ReturnError, Building, loadVars, mergeVars
  <2>2. /\ name \in Names /\ chain = Decoding(List(name))
        /\ element \in 1..Len(List(name)) + 1
        /\ Leads(proxyDialer, SubSeq(chain, 1, element - 1))
    BY <2>1 DEF ChainInv, DialInv
  <2>3. chain \in Seq(Decodings) /\ Len(chain) = Len(List(name)) /\ Len(chain) \in Nat
    BY <2>2, DecodedType
  <2>4. CASE DirectFirst \/ Environment \/ Explicit
    <3>1. element \in 1..Len(chain) /\ element' = element + 1
      BY <2>2, <2>3, <2>4 DEF DirectFirst, Environment, Explicit, Building, Wrap
    <3> PICK texts, text : texts = SubSeq(chain, 1, element - 1) /\ text = chain[element]
      OBVIOUS
    <3>2. /\ texts \in Seq(Decodings) /\ Len(texts) = element - 1 /\ text \in Decodings
          /\ SubSeq(chain, 1, element) = Append(texts, text)
      BY <2>3, <3>1, ChainPrefix
    <3>3. \/ text = ProxyDirect /\ element = 1 /\ proxyDialer' = proxyDialer
          \/ text = ProxyEnvironment /\ proxyDialer' = FromEnvironmentUsing(proxyDialer)
          \/ text \in URLs /\ proxyDialer' = FromURL(text, proxyDialer)
      BY <2>4 DEF DirectFirst, Environment, Explicit, Wrap
    <3>4. element = 1 => texts = <<>>
      BY <3>2, EmptySeq
    <3>5. Leads(proxyDialer, texts)
      BY <2>2
    <3>6. Leads(proxyDialer', Append(texts, text))
      BY <3>2, <3>3, <3>4, <3>5, StepLeads
    <3>7. element' - 1 = element
      BY <3>1
    <3> QED
      BY <1>1, <2>1, <3>2, <3>6, <3>7
  <2>5. CASE DirectLater \/ UnknownScheme
    BY <1>1, <2>1, <2>5 DEF DirectLater, UnknownScheme, ReturnError
  <2>6. CASE Built
    BY <1>1, <2>1, <2>2, <2>6 DEF Built
  <2> QED
    BY <1>4, <2>4, <2>5, <2>6 DEF Build, BuildChain
<1>5. CASE KeepChain
  <2>1. /\ state = "built" /\ state' = "range" /\ right' = right
        /\ proxychains' = [n \in DOMAIN proxychains \cup {name} |->
                             IF n = name THEN proxyDialer ELSE proxychains[n]]
    BY <1>5 DEF KeepChain, loadVars, mergeVars
  <2>2. /\ name \in Names /\ chain = Decoding(List(name)) /\ element = Len(List(name)) + 1
        /\ \A i \in 1..element - 1 : GoodText(List(name), i)
        /\ Leads(proxyDialer, SubSeq(chain, 1, element - 1))
    BY <2>1 DEF ChainInv, DialInv
  <2>3. List(name) \in Seq(ChainTexts) /\ Len(List(name)) \in Nat
    BY <2>2, ChainTextsType
  <2>4. element - 1 = Len(List(name))
    BY <2>2, <2>3
  <2>5. UsableChain(List(name))
    BY <2>2, <2>3, <2>4, UsableIs
  <2>6. chain = List(name)
    BY <2>2, <2>5, DecodedType
  <2>7. Leads(proxyDialer, List(name))
    BY <2>2, <2>3, <2>4, <2>6, SubSeqFull
  <2>8. \A n : List(n)' = List(n)
    BY <2>1, ChainsStay
  <2>9. \A n \in DOMAIN proxychains' : Leads(proxychains'[n], List(n))
    BY <2>1, <2>7 DEF DialInv
  <2> QED
    BY <1>0, <2>1, <2>8, <2>9, LeadsStay DEF DialInv
<1>6. CASE Ready
  <2>1. state' = "ready" /\ right' = right /\ proxychains' = proxychains
    BY <1>6 DEF Ready, loadVars, mergeVars
  <2> QED
    BY <1>1, <2>1
<1>7. CASE UNCHANGED vars
  <2>1. /\ right' = right /\ proxychains' = proxychains
        /\ UNCHANGED <<state, chain, element, proxyDialer>>
    BY <1>7 DEF vars, loadVars, mergeVars, chainVars
  <2> QED
    BY <1>1, <2>1 DEF DialInv
<1> QED
  BY <1>2, <1>3, <1>4, <1>5, <1>6, <1>7 DEF Next, Returned

LEMMA DialInvHolds == Spec => []DialInv
<1>1. Spec => [](LoadInv /\ ChainInv)
  BY LoadInvHolds, ChainInvHolds, PTL
<1> QED
  BY <1>1, InitDialInv, DialInvStep, PTL DEF Spec

\* When Server goes on, each dialer leads where the texts of its chain say.
LEMMA ReadyLeads ==
  ASSUME LoadInv, ChainInv, DialInv, state = "ready"
  PROVE  /\ Names \cup Written = Names
         /\ \A n \in Names : Leads(proxychains[n], TextsOf(n))
<1>1. pc = "loaded" /\ Names = DOMAIN proxychains
  BY DEF ChainInv
<1>2. Names \cup Written = Names /\ \A n \in Names : TextsOf(n) = List(n)
  BY <1>1, TextsAreListed
<1> QED
  BY <1>1, <1>2 DEF DialInv

\* Every connection through a chain passes the proxies that were configured by
\* their URLs, all of them and in the chain's order, for chains of any length.
THEOREM ProxiesInOrder == Spec => []ExplicitInOrder
<1>1. LoadInv /\ ChainInv /\ DialInv => ExplicitInOrder
  <2> SUFFICES ASSUME LoadInv, ChainInv, DialInv, state = "ready",
                      NEW n \in Names \cup Written, NEW t \in Targets
               PROVE  Only(proxychains[n][t], Explicits) = Only(TextsOf(n), Explicits)
    BY DEF ExplicitInOrder
  <2>1. Leads(proxychains[n], TextsOf(n))
    BY ReadyLeads
  <2>2. t \in Addrs
    BY DEF Addrs
  <2> QED
    BY <2>1, <2>2 DEF Leads
<1> QED
  BY <1>1, LoadInvHolds, ChainInvHolds, DialInvHolds, PTL

\* A connection passes, one after the other and for chains of any length, the
\* proxies of the chain's elements, the environment's where the chain asks for it,
\* if it is set and NO_PROXY does not name what is dialed behind it.
THEOREM EnvironmentIsPassed == Spec => []EnvironmentInPlace
<1>1. LoadInv /\ ChainInv /\ DialInv => EnvironmentInPlace
  <2> SUFFICES ASSUME LoadInv, ChainInv, DialInv, state = "ready",
                      NEW n \in Names, NEW t \in Targets, EnvironmentOnce(TextsOf(n))
               PROVE  proxychains[n][t] = Only(Passing(TextsOf(n), t), URLs)
    BY DEF EnvironmentInPlace
  <2>1. Leads(proxychains[n], TextsOf(n))
    BY ReadyLeads
  <2>2. t \in Addrs
    BY DEF Addrs
  <2> QED
    BY <2>1, <2>2 DEF Leads
<1> QED
  BY <1>1, LoadInvHolds, ChainInvHolds, DialInvHolds, PTL

=============================================================================
