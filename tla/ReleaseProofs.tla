--------------------------- MODULE ReleaseProofs ----------------------------
(***************************************************************************)
(* Theorems about BuildPool and ReleaseFiles, for all platforms, numbers   *)
(* of commands and slots, edits and runs.  What is proved of the pool of   *)
(* one ReleaseAll first carries over to many of them, of which all but the *)
(* last may have been killed.                                              *)
(***************************************************************************)
EXTENDS ReleaseFiles, FiniteSetTheorems, TLAPS

-----------------------------------------------------------------------------
(* The pool of one ReleaseAll.                                             *)

\* The jobs a platform has not come to are not started.
Unstarted ==
  \A j \in Jobs :
    /\ phase[j[1]] = "build" /\ j[2] = "archive" => job[j] = "none"
    /\ phase[j[1]] = j[2] /\ ~sent[j[1]] /\ j[3] >= next[j[1]] => job[j] = "none"

\* The induction hypothesis about slots.
SlotInv ==
  /\ TypeOK
  /\ Unstarted
  /\ IsFiniteSet(Holding) /\ SlotsAreHeld

-----------------------------------------------------------------------------
(* Jobs.                                                                   *)

\* A job is a platform, a phase and a position in the batch.
LEMMA JobShape ==
  ASSUME NEW j \in Jobs
  PROVE  /\ j[1] \in Platforms /\ j[2] \in Phase /\ j[3] \in 1..Size(j[1], j[2])
         /\ j = <<j[1], j[2], j[3]>>
<1>1. PICK p \in Platforms, ph \in Phase : j \in {<<p, ph, k>> : k \in 1..Size(p, ph)}
  BY DEF Jobs
<1>2. PICK k \in 1..Size(p, ph) : j = <<p, ph, k>>
  BY <1>1
<1> QED BY <1>2

\* And whatever has this shape is a job.
LEMMA JobOf ==
  ASSUME NEW p \in Platforms, NEW ph \in Phase, NEW k \in 1..Size(p, ph)
  PROVE  <<p, ph, k>> \in Jobs
<1> DEFINE batch(q, f) == {<<q, f, i>> : i \in 1..Size(q, f)}
           batches == {batch(q, f) : q \in Platforms, f \in Phase}
<1>1. <<p, ph, k>> \in batch(p, ph)
  OBVIOUS
<1>2. Jobs = UNION batches
  BY DEF Jobs
<1>3. batch(p, ph) \in batches
  OBVIOUS
<1> HIDE DEF batches, batch
<1> QED BY <1>1, <1>2, <1>3

LEMMA SizeType == ASSUME NEW p, NEW ph PROVE Size(p, ph) \in Nat
BY NumbersAssumption DEF Size

\* A job that takes a slot is one more that holds one; a job that gives it back
\* is one less.
LEMMA HoldingGrows ==
  ASSUME NEW j \in Jobs, IsFiniteSet(Holding), j \notin Holding,
         Holding' = Holding \cup {j}
  PROVE  IsFiniteSet(Holding') /\ Cardinality(Holding') = Cardinality(Holding) + 1
BY FS_AddElement

LEMMA HoldingShrinks ==
  ASSUME NEW j \in Jobs, IsFiniteSet(Holding), j \in Holding,
         Holding' = Holding \ {j}
  PROVE  /\ IsFiniteSet(Holding') /\ Cardinality(Holding') = Cardinality(Holding) - 1
         /\ Cardinality(Holding) > 0
<1>1. Cardinality(Holding) \in Nat /\ Cardinality(Holding) # 0
  BY FS_CardinalityType, FS_EmptySet
<1> QED BY <1>1, FS_RemoveElement

-----------------------------------------------------------------------------
(* Slots.                                                                  *)

LEMMA InitSlotInv == Init => SlotInv
<1> SUFFICES ASSUME Init PROVE SlotInv
  OBVIOUS
<1>1. Holding = {}
  BY DEF Init, Holding
<1>2. IsFiniteSet(Holding) /\ SlotsAreHeld
  BY <1>1, FS_EmptySet DEF Init, SlotsAreHeld
<1>3. TypeOK
  BY NumbersAssumption DEF Init, TypeOK, Phase
<1>4. Unstarted
  BY DEF Init, Unstarted
<1> QED BY <1>2, <1>3, <1>4 DEF SlotInv

LEMMA PlatformSlotInv == ASSUME SlotInv, NEW p \in Platforms, Platform(p) PROVE SlotInv'
<1> USE DEF SlotInv
<1>1. CASE ConcurrentRun(p)
  <2> DEFINE j == <<p, phase[p], next[p]>>
  <2>1. Size(p, phase[p]) \in Nat /\ next[p] \in Nat \ {0}
    BY SizeType DEF TypeOK
  <2>2. j \in Jobs
    BY <1>1, <2>1, JobOf DEF ConcurrentRun
  <2>3. job[j] = "none"
    BY <1>1, <2>1, <2>2 DEF ConcurrentRun, Unstarted
  <2>4. job' = [job EXCEPT ![j] = "running"]
    BY <1>1 DEF ConcurrentRun
  <2>5. Holding' = Holding \cup {j} /\ j \notin Holding
    BY <2>2, <2>3, <2>4 DEF Holding, TypeOK
  <2>6. IsFiniteSet(Holding') /\ SlotsAreHeld'
    BY <1>1, <2>2, <2>5, HoldingGrows DEF SlotsAreHeld, ConcurrentRun
  <2>7. TypeOK'
    BY <1>1, <2>2, NumbersAssumption DEF ConcurrentRun, TypeOK
  <2>8. Unstarted'
    <3> SUFFICES ASSUME NEW i \in Jobs
                 PROVE  /\ phase'[i[1]] = "build" /\ i[2] = "archive" => job'[i] = "none"
                        /\ phase'[i[1]] = i[2] /\ ~sent'[i[1]] /\ i[3] >= next'[i[1]]
                             => job'[i] = "none"
      BY DEF Unstarted
    <3>1. i[1] \in Platforms /\ i[3] \in Nat
      BY JobShape, SizeType
    <3>2. CASE i = j
      BY <1>1, <2>1, <3>2 DEF ConcurrentRun, TypeOK
    <3>3. CASE i # j
      <4>1. job'[i] = job[i] /\ phase' = phase /\ sent' = sent
        BY <1>1, <2>4, <3>3 DEF ConcurrentRun, TypeOK
      <4>2. next'[i[1]] >= next[i[1]]
        BY <1>1, <3>1 DEF ConcurrentRun, TypeOK
      <4>3. next'[i[1]] \in Nat /\ next[i[1]] \in Nat
        BY <2>7, <3>1 DEF TypeOK
      <4> QED BY <3>1, <4>1, <4>2, <4>3 DEF Unstarted
    <3> QED BY <3>2, <3>3
  <2> QED BY <2>6, <2>7, <2>8
<1>2. CASE WaitResults(p)
  <2>1. Holding' = Holding /\ queue' = queue
    BY <1>2 DEF WaitResults, Holding
  <2>2. TypeOK'
    BY <1>2 DEF WaitResults, TypeOK
  <2>3. Unstarted'
    BY <1>2, JobShape DEF WaitResults, TypeOK, Unstarted
  <2> QED BY <2>1, <2>2, <2>3 DEF SlotsAreHeld
<1>3. CASE BatchDone(p)
  <2>1. Holding' = Holding /\ queue' = queue
    BY <1>3 DEF BatchDone, Holding
  <2>2. TypeOK'
    BY <1>3 DEF BatchDone, TypeOK, Phase
  <2>3. Unstarted'
    <3> SUFFICES ASSUME NEW i \in Jobs
                 PROVE  /\ phase'[i[1]] = "build" /\ i[2] = "archive" => job'[i] = "none"
                        /\ phase'[i[1]] = i[2] /\ ~sent'[i[1]] /\ i[3] >= next'[i[1]]
                             => job'[i] = "none"
      BY DEF Unstarted
    <3>1. i[1] \in Platforms /\ i[2] \in Phase /\ job' = job
      BY <1>3, JobShape DEF BatchDone
    <3>2. CASE i[1] # p
      BY <1>3, <3>1, <3>2 DEF BatchDone, TypeOK, Unstarted
    <3>3. CASE i[1] = p
      <4>1. phase[p] \in Phase /\ phase'[p] \in {"archive", "done", "failed"}
        BY <1>3 DEF BatchDone, TypeOK
      <4>2. phase'[p] = "archive" => phase[p] = "build"
        BY <1>3, <4>1 DEF BatchDone, TypeOK, Phase
      <4>3. phase[p] = "build" /\ i[2] = "archive" => job[i] = "none"
        BY <3>3 DEF Unstarted
      <4> QED BY <3>1, <3>3, <4>1, <4>2, <4>3 DEF Phase
    <3> QED BY <3>2, <3>3
  <2> QED BY <2>1, <2>2, <2>3 DEF SlotsAreHeld
<1> QED BY <1>1, <1>2, <1>3 DEF Platform

LEMMA JobSlotInv == ASSUME SlotInv, NEW j \in Jobs, Job(j) PROVE SlotInv'
<1> USE DEF SlotInv
<1>0. job[j] # "none"
  BY DEF Job, Return, Receive, Release
<1>1. /\ phase' = phase /\ next' = next /\ sent' = sent
      /\ \A i \in Jobs : job'[i] # job[i] => i = j
  BY DEF Job, Return, Receive, Release, TypeOK
<1>2. Unstarted'
  BY <1>0, <1>1 DEF Unstarted
<1>3. CASE Return(j)
  <2>1. Holding' = Holding /\ queue' = queue
    BY <1>3 DEF Return, Holding, TypeOK
  <2>2. TypeOK'
    BY <1>3 DEF Return, TypeOK
  <2> QED BY <1>2, <2>1, <2>2 DEF SlotsAreHeld
<1>4. CASE Receive(j)
  <2>1. Holding' = Holding /\ queue' = queue
    BY <1>4 DEF Receive, Holding, TypeOK
  <2>2. TypeOK'
    BY <1>4 DEF Receive, TypeOK
  <2> QED BY <1>2, <2>1, <2>2 DEF SlotsAreHeld
<1>5. CASE Release(j)
  <2>1. j \in Holding /\ Holding' = Holding \ {j}
    BY <1>5 DEF Release, Holding, TypeOK
  <2>2. /\ IsFiniteSet(Holding') /\ Cardinality(Holding') = Cardinality(Holding) - 1
        /\ Cardinality(Holding) > 0
    BY <2>1, HoldingShrinks
  <2>3. SlotsAreHeld' /\ queue > 0
    BY <1>5, <2>2 DEF Release, SlotsAreHeld
  <2>4. TypeOK'
    BY <1>5, <2>3, NumbersAssumption DEF Release, TypeOK
  <2> QED BY <1>2, <2>2, <2>3, <2>4
<1> QED BY <1>3, <1>4, <1>5 DEF Job

LEMMA SlotInvStep == SlotInv /\ [Next]_vars => SlotInv'
<1> SUFFICES ASSUME SlotInv, [Next]_vars PROVE SlotInv'
  OBVIOUS
<1>1. CASE \E p \in Platforms : Platform(p)
  BY <1>1, PlatformSlotInv
<1>2. CASE \E j \in Jobs : Job(j)
  BY <1>2, JobSlotInv
<1>3. CASE ReleaseAll
  BY <1>3 DEF ReleaseAll, SlotInv, TypeOK, Unstarted, Holding, SlotsAreHeld
<1>4. CASE UNCHANGED vars
  BY <1>4 DEF vars, SlotInv, TypeOK, Unstarted, Holding, SlotsAreHeld
<1> QED BY <1>1, <1>2, <1>3, <1>4 DEF Next

\* At every moment the length of the queue is the number of jobs that have
\* begun and not given their slot back.
THEOREM SlotsCounted == Spec => []SlotsAreHeld
<1>1. SlotInv => SlotsAreHeld
  BY DEF SlotInv
<1> QED BY InitSlotInv, SlotInvStep, <1>1, PTL DEF Spec

\* Every variable keeps its type; the queue is never longer than its capacity.
THEOREM PoolTypeCorrect == Spec => []TypeOK
<1>1. SlotInv => TypeOK
  BY DEF SlotInv
<1> QED BY InitSlotInv, SlotInvStep, <1>1, PTL DEF Spec

-----------------------------------------------------------------------------
(* Errors.                                                                 *)

\* A job whose result is received, and a batch of them without an error.
Over(j) == job[j] \in {"received", "released"}
Good(p, ph) == \A j \in Batch(p, ph) : Over(j) /\ j \notin failed

\* Archives are made from good builds, a platform is done only when both its
\* batches were good, and only an error of a job makes one fail.
ErrorInv ==
  /\ \A j \in failed : job[j] \notin {"none", "running"}
  /\ \A j \in Jobs : j[2] = "archive" /\ job[j] # "none" => Good(j[1], "build")
  /\ \A p \in Platforms :
       /\ phase[p] \in {"archive", "done"} => Good(p, "build")
       /\ phase[p] = "done" => Good(p, "archive")
       /\ phase[p] = "failed" => failed # {}
  /\ main = "ok" => \A p \in Platforms : phase[p] = "done"
  /\ main = "error" => failed # {}

LEMMA InitErrorInv == Init => ErrorInv
BY DEF Init, ErrorInv

\* What is over stays over, and a good batch stays good: only a running job can
\* still fail.
LEMMA GoodStays ==
  ASSUME SlotInv, ErrorInv, Next, NEW p \in Platforms, NEW ph \in Phase, Good(p, ph)
  PROVE  Good(p, ph)'
<1> SUFFICES ASSUME NEW i \in Batch(p, ph)
             PROVE  Over(i)' /\ i \notin failed'
  BY DEF Good, Batch
<1>1. i \in Jobs /\ Over(i) /\ i \notin failed
  BY DEF Good, Batch
<1>2. TypeOK
  BY DEF SlotInv
<1>3. CASE \E q \in Platforms : Platform(q)
  <2>1. PICK q \in Platforms : Platform(q)
    BY <1>3
  <2>2. CASE ConcurrentRun(q)
    <3> DEFINE j == <<q, phase[q], next[q]>>
    <3>1. j \in Jobs /\ job[j] = "none"
      <4>1. Size(q, phase[q]) \in Nat /\ next[q] \in Nat \ {0}
        BY <1>2, SizeType DEF TypeOK
      <4>2. j \in Jobs
        BY <2>2, <4>1, JobOf DEF ConcurrentRun
      <4> QED BY <2>2, <4>1, <4>2 DEF ConcurrentRun, SlotInv, Unstarted
    <3>2. i # j
      BY <1>1, <3>1 DEF Over
    <3>3. job' = [job EXCEPT ![j] = "running"] /\ failed' = failed
      BY <2>2 DEF ConcurrentRun
    <3> QED BY <1>1, <1>2, <3>2, <3>3 DEF Over, TypeOK
  <2>3. CASE WaitResults(q) \/ BatchDone(q)
    BY <1>1, <2>3 DEF WaitResults, BatchDone, Over
  <2> QED BY <2>1, <2>2, <2>3 DEF Platform
<1>4. CASE \E j \in Jobs : Job(j)
  <2>1. PICK j \in Jobs : Job(j)
    BY <1>4
  <2>2. CASE Return(j)
    BY <1>1, <1>2, <2>2 DEF Return, Over, TypeOK
  <2>3. CASE Receive(j) \/ Release(j)
    BY <1>1, <1>2, <2>3 DEF Receive, Release, Over, TypeOK
  <2> QED BY <2>1, <2>2, <2>3 DEF Job
<1>5. CASE ReleaseAll
  BY <1>1, <1>5 DEF ReleaseAll, Over
<1> QED BY <1>3, <1>4, <1>5 DEF Next

LEMMA PlatformErrorInv ==
  ASSUME SlotInv, ErrorInv, NEW p \in Platforms, Platform(p) PROVE ErrorInv'
<1>0. TypeOK /\ Next
  BY DEF SlotInv, Next
<1>1. failed' = failed /\ main' = main
  BY DEF Platform, ConcurrentRun, WaitResults, BatchDone
<1>2. phase[p] \in Phase
  BY DEF Platform, ConcurrentRun, WaitResults, BatchDone
<1>3. main # "ok"
  BY <1>2 DEF ErrorInv, Phase
<1>4. CASE ConcurrentRun(p)
  <2> DEFINE j == <<p, phase[p], next[p]>>
  <2>1. phase' = phase /\ \A i \in Jobs : i # j => job'[i] = job[i]
    BY <1>0, <1>4 DEF ConcurrentRun, TypeOK
  <2>2. Size(p, phase[p]) \in Nat /\ next[p] \in Nat \ {0}
    BY <1>0, SizeType DEF TypeOK
  <2>3. j \in Jobs
    BY <1>4, <2>2, JobOf DEF ConcurrentRun
  <2>4. job[j] = "none"
    BY <1>4, <2>2, <2>3 DEF ConcurrentRun, SlotInv, Unstarted
  <2>5. \A i \in failed' : job'[i] \notin {"none", "running"}
    BY <1>0, <1>1, <2>1, <2>4 DEF ErrorInv, TypeOK
  <2>6. \A i \in Jobs : i[2] = "archive" /\ job'[i] # "none" => Good(i[1], "build")'
    <3> SUFFICES ASSUME NEW i \in Jobs, i[2] = "archive", job'[i] # "none"
                 PROVE  Good(i[1], "build")'
      OBVIOUS
    <3>1. i[1] \in Platforms
      BY JobShape
    <3>2. Good(i[1], "build")
      <4>1. CASE i = j
        BY <1>4, <4>1 DEF ErrorInv
      <4>2. CASE i # j
        BY <2>1, <4>2 DEF ErrorInv
      <4> QED BY <4>1, <4>2
    <3> QED BY <1>0, <3>1, <3>2, GoodStays DEF Phase
  <2>7. \A q \in Platforms :
          /\ phase'[q] \in {"archive", "done"} => Good(q, "build")'
          /\ phase'[q] = "done" => Good(q, "archive")'
          /\ phase'[q] = "failed" => failed' # {}
    BY <1>0, <1>1, <2>1, GoodStays DEF ErrorInv, Phase
  <2> QED BY <1>1, <1>3, <2>5, <2>6, <2>7 DEF ErrorInv
<1>5. CASE WaitResults(p)
  <2>1. phase' = phase /\ job' = job
    BY <1>5 DEF WaitResults
  <2> QED BY <1>0, <1>1, <1>3, <2>1, JobShape, GoodStays DEF ErrorInv, Phase
<1>6. CASE BatchDone(p)
  <2>1. job' = job /\ \A q \in Platforms : q # p => phase'[q] = phase[q]
    BY <1>0, <1>6 DEF BatchDone, TypeOK
  <2>2. \A i \in Jobs : i[2] = "archive" /\ job'[i] # "none" => Good(i[1], "build")'
    BY <1>0, <2>1, JobShape, GoodStays DEF ErrorInv, Phase
  <2>3. /\ phase'[p] \in {"archive", "done"} => Good(p, phase[p])
        /\ phase'[p] = "archive" => phase[p] = "build"
        /\ phase'[p] = "done" => phase[p] = "archive"
        /\ phase'[p] = "failed" => failed # {}
    BY <1>0, <1>2, <1>6 DEF BatchDone, TypeOK, Good, Over, Phase
  <2>4. /\ phase'[p] \in {"archive", "done"} => Good(p, "build")
        /\ phase'[p] = "done" => Good(p, "archive")
    BY <2>3 DEF ErrorInv
  <2>5. \A q \in Platforms :
          /\ phase'[q] \in {"archive", "done"} => Good(q, "build")'
          /\ phase'[q] = "done" => Good(q, "archive")'
          /\ phase'[q] = "failed" => failed' # {}
    BY <1>0, <1>1, <2>1, <2>3, <2>4, GoodStays DEF ErrorInv, Phase
  <2> QED BY <1>1, <1>3, <2>1, <2>2, <2>5 DEF ErrorInv
<1> QED BY <1>4, <1>5, <1>6 DEF Platform

LEMMA JobErrorInv ==
  ASSUME SlotInv, ErrorInv, NEW j \in Jobs, Job(j) PROVE ErrorInv'
<1>0. TypeOK /\ Next
  BY DEF SlotInv, Next
<1>1. /\ phase' = phase /\ main' = main /\ failed \subseteq failed'
      /\ \A i \in Jobs : job'[i] # job[i] => i = j
      /\ job[j] # "none" /\ job'[j] \notin {"none", "running"}
      /\ \A i \in failed' : i \in failed \/ i = j
  BY <1>0 DEF Job, Return, Receive, Release, TypeOK
<1>2. \A i \in failed' : job'[i] \notin {"none", "running"}
  BY <1>0, <1>1 DEF ErrorInv, TypeOK
<1>3. \A i \in Jobs : i[2] = "archive" /\ job'[i] # "none" => Good(i[1], "build")'
  BY <1>0, <1>1, JobShape, GoodStays DEF ErrorInv, Phase
<1>4. \A q \in Platforms :
        /\ phase'[q] \in {"archive", "done"} => Good(q, "build")'
        /\ phase'[q] = "done" => Good(q, "archive")'
        /\ phase'[q] = "failed" => failed' # {}
  BY <1>0, <1>1, GoodStays DEF ErrorInv, Phase
<1>5. /\ main' = "ok" => \A p \in Platforms : phase'[p] = "done"
      /\ main' = "error" => failed' # {}
  BY <1>1 DEF ErrorInv
<1> QED BY <1>2, <1>3, <1>4, <1>5 DEF ErrorInv

LEMMA ErrorInvStep == SlotInv /\ ErrorInv /\ [Next]_vars => ErrorInv'
<1> SUFFICES ASSUME SlotInv, ErrorInv, [Next]_vars PROVE ErrorInv'
  OBVIOUS
<1>1. CASE \E p \in Platforms : Platform(p)
  BY <1>1, PlatformErrorInv
<1>2. CASE \E j \in Jobs : Job(j)
  BY <1>2, JobErrorInv
<1>3. CASE ReleaseAll
  BY <1>3 DEF ReleaseAll, ErrorInv, Good, Over
<1>4. CASE UNCHANGED vars
  BY <1>4 DEF vars, ErrorInv, Good, Over
<1> QED BY <1>1, <1>2, <1>3, <1>4 DEF Next

LEMMA ErrorInvImplies == SlotInv /\ ErrorInv => NoErrorLost
<1> SUFFICES ASSUME SlotInv, ErrorInv PROVE NoErrorLost
  OBVIOUS
<1>1. \A j \in Jobs : j[2] = "archive" /\ job[j] # "none" =>
        \A b \in Batch(j[1], "build") : job[b] \in {"received", "released"} /\ b \notin failed
  BY DEF ErrorInv, Good, Over
<1>2. ASSUME main = "ok", NEW j \in Jobs
      PROVE  job[j] \in {"received", "released"} /\ j \notin failed
  <2>1. j[1] \in Platforms /\ j[2] \in Phase
    BY JobShape
  <2>2. Good(j[1], "build") /\ Good(j[1], "archive")
    BY <1>2, <2>1 DEF ErrorInv
  <2> QED BY <2>1, <2>2 DEF Good, Over, Batch, Phase
<1>3. main = "ok" => failed = {} /\ \A j \in Jobs : job[j] \in {"received", "released"}
  BY <1>2 DEF SlotInv, TypeOK
<1> QED BY <1>1, <1>3 DEF NoErrorLost, ErrorInv

\* No platform is archived from a failed build, ReleaseAll returns an error
\* exactly if a job did, and without one everything has been built.
THEOREM ErrorsReachTheResult == Spec => []NoErrorLost
BY InitSlotInv, SlotInvStep, InitErrorInv, ErrorInvStep, ErrorInvImplies, PTL DEF Spec

-----------------------------------------------------------------------------
(* The pool, over several runs.                                            *)

\* A new process starts where the first one did.
LEMMA AgainIsInit == ReleaseAgain => Init'
BY DEF ReleaseAgain, Init

\* Every step of the files' model is one of the pool's, does not touch it, or
\* starts a new process.
LEMMA PoolStep == [ReleaseNext]_releaseVars => [Next \/ ReleaseAgain]_vars
<1> SUFFICES ASSUME [ReleaseNext]_releaseVars PROVE Next \/ ReleaseAgain \/ UNCHANGED vars
  OBVIOUS
<1>1. ASSUME NEW p \in Platforms, PlatformStep(p) PROVE Next
  BY <1>1 DEF PlatformStep, Next
<1>2. ASSUME NEW j \in Jobs, FileJob(j) PROVE Next \/ UNCHANGED vars
  <2>1. Job(j) \/ UNCHANGED vars
    BY <1>2
       DEF FileJob, BeginBuild, SkipBuild, EndBuild, BeginArchive, EndArchive, JobFails, Job
  <2> QED
    BY <2>1 DEF Next
<1>3. CASE ReleaseAllStep
  BY <1>3 DEF ReleaseAllStep, Next
<1>4. ASSUME Clean \/ \E s \in Sources : Edit(s) PROVE UNCHANGED vars
  BY <1>4 DEF Clean, Edit
<1>5. CASE UNCHANGED releaseVars
  BY <1>5 DEF releaseVars
<1> QED
  BY <1>1, <1>2, <1>3, <1>4, <1>5 DEF ReleaseNext

\* What is true of a new pool is true of it after any step that starts one.
PoolInv == SlotInv /\ ErrorInv

LEMMA InitPoolInv == Init => PoolInv
BY InitSlotInv, InitErrorInv DEF PoolInv

LEMMA AgainPoolInv == Init' => PoolInv'
BY InitPoolInv, PTL

\* PoolInv is inductive for the files' model.
LEMMA PoolInvStep == PoolInv /\ [ReleaseNext]_releaseVars => PoolInv'
<1> SUFFICES ASSUME PoolInv, [ReleaseNext]_releaseVars PROVE PoolInv'
  OBVIOUS
<1>1. Next \/ ReleaseAgain \/ UNCHANGED vars
  BY PoolStep
<1>2. ASSUME Next \/ UNCHANGED vars PROVE PoolInv'
  BY <1>2, SlotInvStep, ErrorInvStep DEF PoolInv
<1> QED
  BY <1>1, <1>2, AgainIsInit, AgainPoolInv

\* The pool inside the files' model is one that BuildPool describes, and that is
\* started over from nothing every time ReleaseAll is called.
THEOREM PoolIsImplemented == ReleaseSpec => Init /\ [][Next \/ Init']_vars
<1>1. ReleaseInit => Init
  BY DEF ReleaseInit
<1>2. [ReleaseNext]_releaseVars => [Next \/ Init']_vars
  BY PoolStep, AgainIsInit
<1> QED
  BY <1>1, <1>2, PTL DEF ReleaseSpec

LEMMA PoolInvHolds == ReleaseSpec => []PoolInv
<1>1. ReleaseInit => PoolInv
  BY InitPoolInv DEF ReleaseInit
<1> QED
  BY <1>1, PoolInvStep, PTL DEF ReleaseSpec

\* In every run of ReleaseAll the queue is never longer than its capacity.
THEOREM ReleasePoolTypeCorrect == ReleaseSpec => []TypeOK
<1>1. PoolInv => TypeOK
  BY DEF PoolInv, SlotInv
<1> QED
  BY <1>1, PoolInvHolds, PTL

\* In every run the queue's length is the number of jobs that hold a slot: none
\* is left over from a run that was killed.
THEOREM ReleaseSlotsCounted == ReleaseSpec => []SlotsAreHeld
<1>1. PoolInv => SlotsAreHeld
  BY DEF PoolInv, SlotInv
<1> QED
  BY <1>1, PoolInvHolds, PTL

\* No run, whatever was left by the one before, archives a platform whose builds
\* failed, or loses an error.
THEOREM ReleaseErrorsReachTheResult == ReleaseSpec => []NoErrorLost
<1>1. PoolInv => NoErrorLost
  BY ErrorInvImplies DEF PoolInv
<1> QED
  BY <1>1, PoolInvHolds, PTL

-----------------------------------------------------------------------------
(* The files: types.                                                       *)

\* What may be there, and is written <<x>> if it is.
Opt(S) == {<<>>} \cup {<<x>> : x \in S}

Snapshots == [from : [Sources -> Nat], overtaken : BOOLEAN]
Executables ==
  [from : [Sources -> Nat], overtaken : BOOLEAN, mtime : Nat, whole : BOOLEAN]

FilesTypeOK ==
  /\ source \in [Sources -> Nat] /\ begun \in [Sources -> Nat]
  /\ work \in [Jobs -> Opt(Snapshots)]
  /\ binary \in [Binaries -> Opt(Executables)]
  /\ archive \in [Archives -> {<<>>} \cup [1..Commands -> Opt(Executables)]]
  /\ runs \in Nat

LEMMA OptIs ==
  ASSUME NEW S, NEW x
  PROVE  /\ <<>> \in Opt(S)
         /\ x \in S => <<x>> \in Opt(S)
         /\ x \in Opt(S) /\ x # <<>> => x = <<x[1]>> /\ x[1] \in S
BY DEF Opt

\* The file of a build is a binary, and no other build writes it.
LEMMA BuildFile ==
  ASSUME NEW j \in Jobs, j[2] = "build"
  PROVE  /\ FileOf(j) \in Binaries
         /\ j = <<FileOf(j)[1], "build", FileOf(j)[2]>>
BY JobShape DEF Binaries, FileOf

LEMMA ArchiveFile ==
  ASSUME NEW j \in Jobs, j[2] = "archive"
  PROVE  /\ FileOf(j) \in Archives
         /\ j = <<FileOf(j)[1], "archive", FileOf(j)[2]>>
BY JobShape DEF Archives, FileOf

\* A platform has a binary of every command.
LEMMA BinaryOf ==
  ASSUME NEW p \in Platforms, NEW k \in 1..Commands
  PROVE  <<p, k>> \in Binaries
<1>1. <<p, "build", k>> \in Jobs
  BY JobOf DEF Phase, Size
<1> QED
  BY <1>1 DEF Binaries

LEMMA FileKinds ==
  ASSUME NEW w \in Snapshots, NEW mtime \in Nat, NEW whole \in BOOLEAN
  PROVE  /\ File(w, mtime, whole) \in Executables
         /\ File(w, mtime, whole).from = w.from
         /\ File(w, mtime, whole).overtaken = w.overtaken
         /\ File(w, mtime, whole).mtime = mtime
         /\ File(w, mtime, whole).whole = whole
BY DEF File, Snapshots, Executables

LEMMA Overtaken ==
  ASSUME NEW w \in Snapshots
  PROVE  LET v == [w EXCEPT !.overtaken = TRUE]
         IN  v \in Snapshots /\ v.from = w.from /\ v.overtaken
BY DEF Snapshots

LEMMA InitFilesType == ReleaseInit => FilesTypeOK
<1> SUFFICES ASSUME ReleaseInit PROVE FilesTypeOK
  OBVIOUS
<1>1. \A S : <<>> \in Opt(S)
  BY OptIs
<1> QED
  BY <1>1 DEF ReleaseInit, FilesTypeOK

\* The types of files are inductive.
LEMMA FilesTypeStep == FilesTypeOK /\ [ReleaseNext]_releaseVars => FilesTypeOK'
<1> SUFFICES ASSUME FilesTypeOK, [ReleaseNext]_releaseVars PROVE FilesTypeOK'
  OBVIOUS
<1> USE DEF FilesTypeOK
<1>0. \A S, x : /\ <<>> \in Opt(S)
                /\ x \in S => <<x>> \in Opt(S)
                /\ x \in Opt(S) /\ x # <<>> => x = <<x[1]>> /\ x[1] \in S
  BY OptIs
<1>1. ASSUME UNCHANGED fileVars PROVE FilesTypeOK'
  BY <1>1 DEF fileVars
<1>2. ASSUME NEW j \in Jobs, FileJob(j) PROVE FilesTypeOK'
  <2>1. [from |-> source, overtaken |-> FALSE] \in Snapshots
    BY DEF Snapshots
  <2>2. CASE BeginBuild(j)
    BY <1>0, <2>1, <2>2 DEF BeginBuild, SetWork
  <2>3. CASE EndBuild(j)
    <3>1. work[j][1] \in Snapshots
      BY <1>0, <2>3 DEF EndBuild
    <3>2. File(work[j][1], source["go"], TRUE) \in Executables
      BY <3>1, FileKinds DEF Sources
    <3>3. /\ binary' \in [Binaries -> Opt(Executables)]
          /\ work' \in [Jobs -> Opt(Snapshots)]
      BY <1>0, <2>3, <3>2 DEF EndBuild, SetWork
    <3> QED
      BY <2>3, <3>3 DEF EndBuild
  <2>4. CASE BeginArchive(j)
    BY <1>0, <2>1, <2>4 DEF BeginArchive, SetWork
  <2>5. CASE EndArchive(j)
    <3>1. j[1] \in Platforms
      BY JobShape
    <3>2. [k \in 1..Commands |-> binary[<<j[1], k>>]] \in [1..Commands -> Opt(Executables)]
      BY <3>1, BinaryOf
    <3>3. archive' \in [Archives -> {<<>>} \cup [1..Commands -> Opt(Executables)]]
      BY <2>5, <3>2 DEF EndArchive
    <3>4. work' \in [Jobs -> Opt(Snapshots)]
      BY <1>0, <2>5 DEF EndArchive, SetWork
    <3> QED
      BY <2>5, <3>3, <3>4 DEF EndArchive
  <2>6. CASE JobFails(j)
    BY <1>0, <2>6 DEF JobFails, SetWork
  <2> QED
    BY <1>1, <1>2, <2>2, <2>3, <2>4, <2>5, <2>6 DEF FileJob, SkipBuild
<1>3. ASSUME NEW s \in Sources, Edit(s) PROVE FilesTypeOK'
  <2>1. \A j \in Jobs : work[j] # <<>> =>
          [work[j][1] EXCEPT !.overtaken = TRUE] \in Snapshots
    <3> SUFFICES ASSUME NEW j \in Jobs, work[j] # <<>>
                 PROVE  [work[j][1] EXCEPT !.overtaken = TRUE] \in Snapshots
      OBVIOUS
    <3>1. work[j][1] \in Snapshots
      BY <1>0
    <3> QED
      BY <3>1, Overtaken
  <2>2. work' \in [Jobs -> Opt(Snapshots)]
    BY <1>0, <1>3, <2>1 DEF Edit
  <2>3. source' \in [Sources -> Nat] /\ begun' \in [Sources -> Nat]
    BY <1>3 DEF Edit
  <2> QED
    BY <1>3, <2>2, <2>3 DEF Edit
<1>4. CASE ReleaseAgain
  <2>1. PICK cut \in SUBSET {j \in Jobs : j[2] = "build" /\ work[j] # <<>>} :
          binary' = [b \in Binaries |->
            IF \E j \in cut : FileOf(j) = b
            THEN <<File(work[<<b[1], "build", b[2]>>][1], source["go"], FALSE)>> ELSE binary[b]]
    BY <1>4 DEF ReleaseAgain
  <2>2. ASSUME NEW j \in cut
        PROVE  File(work[<<FileOf(j)[1], "build", FileOf(j)[2]>>][1], source["go"], FALSE)
                 \in Executables
    <3>1. work[j][1] \in Snapshots /\ source["go"] \in Nat
      BY <1>0 DEF Sources
    <3>2. j = <<FileOf(j)[1], "build", FileOf(j)[2]>>
      BY BuildFile
    <3> QED
      BY <3>1, <3>2, FileKinds
  <2>3. binary' \in [Binaries -> Opt(Executables)]
    <3> SUFFICES ASSUME NEW b \in Binaries
                 PROVE  (IF \E j \in cut : FileOf(j) = b
                         THEN <<File(work[<<b[1], "build", b[2]>>][1], source["go"], FALSE)>>
                         ELSE binary[b]) \in Opt(Executables)
      BY <2>1
    <3>1. CASE \E j \in cut : FileOf(j) = b
      <4>1. PICK j \in cut : FileOf(j) = b
        BY <3>1
      <4>2. File(work[<<b[1], "build", b[2]>>][1], source["go"], FALSE) \in Executables
        BY <4>1, <2>2
      <4>3. <<File(work[<<b[1], "build", b[2]>>][1], source["go"], FALSE)>> \in Opt(Executables)
        BY <4>2 DEF Opt
      <4> QED
        BY <3>1, <4>3
    <3>2. CASE ~\E j \in cut : FileOf(j) = b
      BY <3>2
    <3> QED
      BY <3>1, <3>2
  <2>4. work' \in [Jobs -> Opt(Snapshots)]
    BY <1>0, <1>4 DEF ReleaseAgain
  <2>5. runs' \in Nat /\ begun' = source /\ source' = source /\ archive' = archive
    BY <1>4 DEF ReleaseAgain
  <2> QED
    BY <2>3, <2>4, <2>5
<1>5. CASE Clean
  BY <1>0, <1>5 DEF Clean
<1> QED
  BY <1>1, <1>2, <1>3, <1>4, <1>5 DEF ReleaseNext, PlatformStep, ReleaseAllStep, releaseVars

\* The files keep their types, over runs that are killed while they are written.
THEOREM FilesTypeCorrect == ReleaseSpec => []FilesTypeOK
BY InitFilesType, FilesTypeStep, PTL DEF ReleaseSpec

-----------------------------------------------------------------------------
(* The files: what is current.                                             *)

\* A binary that was compiled since this run began, or is newer than the Go
\* sources without it.
Current(b) ==
  /\ binary[b] # <<>>
  /\ \/ binary[b][1].from["go"] >= begun["go"]
     \/ binary[b][1].overtaken \/ ~binary[b][1].whole

Holds(a) == archive[a] = [k \in 1..Commands |-> binary[<<a[1], k>>]]

\* A job that returned no error.
Done(j) == job[j] \in {"sending", "received", "released"} /\ j \notin failed

\* Only running jobs have read sources, and none from before this run; what they
\* have read is what there is, unless it was overtaken.
WorkInv ==
  /\ begun["go"] <= source["go"]
  /\ \A j \in Jobs : work[j] # <<>> =>
       /\ job[j] = "running"
       /\ work[j][1].from["go"] >= begun["go"]
       /\ ~work[j][1].overtaken => work[j][1].from["go"] = source["go"]

\* The time of a binary that was written in peace tells its sources.
TimesInv ==
  \A b \in Binaries :
    binary[b] # <<>> /\ binary[b][1].whole /\ ~binary[b][1].overtaken =>
      binary[b][1].from["go"] = binary[b][1].mtime

BuiltInv == \A j \in Jobs : j[2] = "build" /\ Done(j) => Current(FileOf(j))

ArchivedInv == \A j \in Jobs : j[2] = "archive" /\ Done(j) => Holds(FileOf(j))

FileInv == PoolInv /\ FilesTypeOK /\ WorkInv /\ TimesInv /\ BuiltInv /\ ArchivedInv

LEMMA InitFileInv == ReleaseInit => FileInv
<1> SUFFICES ASSUME ReleaseInit PROVE FileInv
  OBVIOUS
<1>1. PoolInv /\ FilesTypeOK
  BY InitPoolInv, InitFilesType DEF ReleaseInit
<1>2. \A j \in Jobs : job[j] = "none" /\ work[j] = <<>>
  BY DEF ReleaseInit, Init
<1>3. begun["go"] <= source["go"] /\ \A b \in Binaries : binary[b] = <<>>
  BY DEF ReleaseInit, Sources
<1> QED
  BY <1>1, <1>2, <1>3 DEF FileInv, WorkInv, TimesInv, BuiltInv, ArchivedInv, Done

\* A file keeps what is true of it while it, the sources' beginning and the jobs
\* with an effect on it stay.
LEMMA CurrentStays ==
  ASSUME NEW b, Current(b), binary'[b] = binary[b], begun' = begun
  PROVE  Current(b)'
BY DEF Current

LEMMA HoldsStays ==
  ASSUME NEW a, Holds(a), archive'[a] = archive[a],
         \A k \in 1..Commands : binary'[<<a[1], k>>] = binary[<<a[1], k>>]
  PROVE  Holds(a)'
BY DEF Holds

\* A step of the pool alone, that ends no job, disturbs nothing.
LEMMA PoolOnly ==
  ASSUME FileInv, PoolInv', FilesTypeOK', UNCHANGED fileVars,
         \A j \in Jobs : /\ Done(j)' => Done(j)
                         /\ work[j] # <<>> => job'[j] = job[j]
  PROVE  FileInv'
<1>1. WorkInv' /\ TimesInv'
  BY DEF FileInv, WorkInv, TimesInv, fileVars
<1>2. BuiltInv'
  BY CurrentStays DEF FileInv, BuiltInv, fileVars
<1>3. ArchivedInv'
  BY HoldsStays DEF FileInv, ArchivedInv, fileVars
<1> QED
  BY <1>1, <1>2, <1>3 DEF FileInv

\* What a platform's goroutine does ends no job, and begins only new ones.
LEMMA PlatformFileInv ==
  ASSUME FileInv, PoolInv', FilesTypeOK', NEW p \in Platforms, PlatformStep(p)
  PROVE  FileInv'
<1>0. TypeOK /\ Unstarted
  BY DEF FileInv, PoolInv, SlotInv
<1>1. failed' = failed /\ UNCHANGED fileVars
  BY DEF PlatformStep, Platform, ConcurrentRun, WaitResults, BatchDone
<1>2. CASE ConcurrentRun(p)
  <2> DEFINE j == <<p, phase[p], next[p]>>
  <2>1. Size(p, phase[p]) \in Nat /\ next[p] \in Nat \ {0}
    BY <1>0, SizeType DEF TypeOK
  <2>2. j \in Jobs
    BY <1>2, <2>1, JobOf DEF ConcurrentRun
  <2>3. job[j] = "none"
    BY <1>0, <1>2, <2>1, <2>2 DEF ConcurrentRun, Unstarted
  <2>4. job' = [job EXCEPT ![j] = "running"]
    BY <1>2 DEF ConcurrentRun
  <2>5. \A i \in Jobs : /\ Done(i)' => Done(i)
                        /\ work[i] # <<>> => job'[i] = job[i]
    BY <1>0, <1>1, <2>3, <2>4 DEF Done, TypeOK, FileInv, WorkInv
  <2> QED
    BY <1>1, <2>5, PoolOnly
<1>3. CASE WaitResults(p) \/ BatchDone(p)
  <2>1. job' = job
    BY <1>3 DEF WaitResults, BatchDone
  <2>2. \A i \in Jobs : Done(i)' => Done(i)
    BY <1>1, <2>1 DEF Done
  <2> QED
    BY <1>1, <2>1, <2>2, PoolOnly
<1> QED
  BY <1>2, <1>3 DEF PlatformStep, Platform

\* What a job does to itself alone.
LEMMA OwnJob ==
  ASSUME FileInv, NEW j \in Jobs, FileJob(j)
  PROVE  /\ \A i \in Jobs \ {j} : job'[i] = job[i] /\ Done(i)' = Done(i)
         /\ \A i \in Jobs \ {j} : work'[i] = work[i]
         /\ begun' = begun /\ source' = source
<1>1. TypeOK /\ FilesTypeOK
  BY DEF FileInv, PoolInv, SlotInv
<1>2. \A i \in Jobs \ {j} : job'[i] = job[i] /\ (i \in failed' <=> i \in failed)
  BY <1>1
     DEF FileJob, BeginBuild, SkipBuild, EndBuild, BeginArchive, EndArchive, JobFails,
         Return, Receive, Release, TypeOK, vars
<1>3. \A i \in Jobs \ {j} : Done(i)' = Done(i)
  BY <1>2 DEF Done
<1>4. \A i \in Jobs \ {j} : work'[i] = work[i]
  BY <1>1
     DEF FileJob, BeginBuild, SkipBuild, EndBuild, BeginArchive, EndArchive, JobFails,
         FilesTypeOK, SetWork, fileVars
<1>5. begun' = begun /\ source' = source
  BY DEF FileJob, BeginBuild, SkipBuild, EndBuild, BeginArchive, EndArchive, JobFails, fileVars
<1> QED
  BY <1>2, <1>3, <1>4, <1>5

\* A job that has nothing in work, or what it has just read, keeps WorkInv.
LEMMA JobWorkInv ==
  ASSUME FileInv, FilesTypeOK', NEW j \in Jobs, FileJob(j)
  PROVE  WorkInv'
<1>1. /\ \A i \in Jobs \ {j} : job'[i] = job[i] /\ work'[i] = work[i]
      /\ begun' = begun /\ source' = source
  BY OwnJob
<1>2. TypeOK /\ FilesTypeOK /\ WorkInv
  BY DEF FileInv, PoolInv, SlotInv
<1>3. \/ work'[j] = <<>>
      \/ job'[j] = "running" /\ work'[j] = <<[from |-> source, overtaken |-> FALSE]>>
  <2>1. CASE BeginBuild(j) \/ BeginArchive(j)
    BY <1>2, <2>1 DEF BeginBuild, BeginArchive, Open, SetWork, FilesTypeOK, vars
  <2>2. CASE SkipBuild(j)
    BY <2>2 DEF SkipBuild, Open, fileVars
  <2>3. CASE EndBuild(j) \/ EndArchive(j) \/ JobFails(j)
    BY <1>2, <2>3 DEF EndBuild, EndArchive, JobFails, SetWork, FilesTypeOK
  <2>4. CASE (Receive(j) \/ Release(j)) /\ UNCHANGED fileVars
    BY <1>2, <2>4 DEF Receive, Release, WorkInv, fileVars
  <2> QED
    BY <2>1, <2>2, <2>3, <2>4 DEF FileJob
<1>4. source["go"] >= begun["go"] /\ source["go"] \in Nat
  BY <1>2 DEF WorkInv, FilesTypeOK, Sources
<1>5. work'[j] # <<>> =>
        /\ job'[j] = "running"
        /\ work'[j][1].from["go"] >= begun["go"]
        /\ work'[j][1].from["go"] = source["go"]
  BY <1>3, <1>4
<1> QED
  BY <1>1, <1>2, <1>5 DEF WorkInv

\* A build writes its own binary only, and not after an archive of its platform
\* has begun; everything else leaves binaries alone.
LEMMA BinariesOf ==
  ASSUME FileInv, NEW j \in Jobs, FileJob(j)
  PROVE  /\ \A b \in Binaries : binary'[b] # binary[b] => EndBuild(j) /\ b = FileOf(j)
         /\ EndBuild(j) => \A i \in Jobs : i[2] = "archive" /\ job[i] # "none" => i[1] # j[1]
<1>1. \A b \in Binaries : binary'[b] # binary[b] => EndBuild(j) /\ b = FileOf(j)
  BY DEF FileJob, BeginBuild, SkipBuild, EndBuild, BeginArchive, EndArchive, JobFails,
         FileInv, FilesTypeOK, fileVars
<1>2. ASSUME EndBuild(j), NEW i \in Jobs, i[2] = "archive", job[i] # "none", i[1] = j[1]
      PROVE  FALSE
  <2>1. job[j] = "running" /\ j \in Batch(i[1], "build")
    BY <1>2 DEF EndBuild, Return, Batch
  <2>2. Over(j)
    BY <1>2, <2>1 DEF FileInv, PoolInv, ErrorInv, Good
  <2> QED
    BY <2>1, <2>2 DEF Over
<1> QED
  BY <1>1, <1>2

\* A job is done by ending its own work, or by finding a binary that is not older
\* than the sources.
LEMMA JobBuiltInv ==
  ASSUME FileInv, FilesTypeOK', NEW j \in Jobs, FileJob(j)
  PROVE  BuiltInv'
<1> SUFFICES ASSUME NEW i \in Jobs, i[2] = "build", Done(i)'
             PROVE  Current(FileOf(i))'
  BY DEF BuiltInv
<1>1. TypeOK /\ FilesTypeOK /\ WorkInv /\ TimesInv
  BY DEF FileInv, PoolInv, SlotInv
<1>2. FileOf(i) \in Binaries /\ begun' = begun /\ begun["go"] \in Nat /\ source["go"] \in Nat
  BY <1>1, BuildFile, OwnJob DEF FilesTypeOK, Sources
<1>3. CASE i # j \/ (Done(i) /\ ~EndBuild(j))
  <2>1. Done(i)
    BY <1>3, OwnJob
  <2>2. binary'[FileOf(i)] = binary[FileOf(i)]
    <3>1. EndBuild(j) => FileOf(i) # FileOf(j)
      BY <1>3, BuildFile DEF EndBuild
    <3> QED
      BY <1>2, <3>1, BinariesOf
  <2> QED
    BY <1>2, <2>1, <2>2, CurrentStays DEF FileInv, BuiltInv
<1>4. CASE i = j /\ EndBuild(j)
  <2>1. work[j] # <<>> /\ work[j] \in Opt(Snapshots)
    BY <1>1, <1>4 DEF EndBuild, FilesTypeOK
  <2>2. work[j][1] \in Snapshots /\ work[j][1].from["go"] >= begun["go"]
    BY <1>1, <2>1, OptIs DEF WorkInv
  <2> DEFINE f == File(work[j][1], source["go"], TRUE)
  <2>3. f.from = work[j][1].from
    BY <1>2, <2>2, FileKinds
  <2>4. binary'[FileOf(j)] = <<f>>
    BY <1>1, <1>2, <1>4 DEF EndBuild, FilesTypeOK
  <2> HIDE DEF f
  <2> QED
    BY <1>2, <1>4, <2>2, <2>3, <2>4 DEF Current
<1>5. CASE i = j /\ SkipBuild(j)
  <2> DEFINE b == FileOf(j)
  <2>1. binary[b] # <<>> /\ ~(source["go"] > binary[b][1].mtime)
    BY <1>5 DEF SkipBuild, Changed
  <2>2. binary[b] \in Opt(Executables)
    BY <1>1, <1>2, <1>5 DEF FilesTypeOK
  <2>3. binary[b][1] \in Executables
    BY <2>1, <2>2, OptIs
  <2>4. /\ binary[b][1].mtime \in Nat /\ binary[b][1].from["go"] \in Nat
        /\ binary[b][1].whole \in BOOLEAN /\ binary[b][1].overtaken \in BOOLEAN
    BY <2>3 DEF Executables, Sources
  <2>5. begun["go"] <= source["go"]
    BY <1>1 DEF WorkInv
  <2>6. binary[b][1].whole /\ ~binary[b][1].overtaken =>
          binary[b][1].from["go"] = binary[b][1].mtime
    BY <1>1, <1>2, <1>5, <2>1 DEF TimesInv
  <2>7. binary[b][1].from["go"] >= begun["go"]
          \/ binary[b][1].overtaken \/ ~binary[b][1].whole
    BY <1>2, <2>1, <2>4, <2>5, <2>6
  <2>8. Current(b)
    BY <2>1, <2>7 DEF Current
  <2>9. binary' = binary
    BY <1>5 DEF SkipBuild, fileVars
  <2> QED
    BY <1>2, <1>5, <2>8, <2>9, CurrentStays
<1>6. CASE i = j /\ ~Done(i) /\ ~EndBuild(j) /\ ~SkipBuild(j)
  BY <1>1, <1>6
     DEF FileJob, BeginBuild, BeginArchive, EndArchive, JobFails, Open,
         Return, Receive, Release, TypeOK, Done, vars
<1>7. CASE i = j
  <2>1. CASE EndBuild(j)
    BY <1>4, <1>7, <2>1
  <2>2. CASE ~EndBuild(j)
    <3>1. CASE Done(i)
      BY <1>3, <2>2, <3>1
    <3>2. CASE ~Done(i)
      BY <1>5, <1>6, <1>7, <2>2, <3>2
    <3> QED
      BY <3>1, <3>2
  <2> QED
    BY <2>1, <2>2
<1> QED
  BY <1>3, <1>7

\* What a finished archive holds stays: its platform's builds are over, and only
\* its own job writes it.
LEMMA JobArchivedInv ==
  ASSUME FileInv, FilesTypeOK', NEW j \in Jobs, FileJob(j)
  PROVE  ArchivedInv'
<1> SUFFICES ASSUME NEW i \in Jobs, i[2] = "archive", Done(i)'
             PROVE  Holds(FileOf(i))'
  BY DEF ArchivedInv
<1> DEFINE a == FileOf(i)
<1>1. TypeOK /\ FilesTypeOK
  BY DEF FileInv, PoolInv, SlotInv
<1>2. a \in Archives /\ i = <<a[1], "archive", a[2]>> /\ a[1] = i[1] /\ i[1] \in Platforms
  BY ArchiveFile, JobShape DEF FileOf
<1>3. ASSUME job[i] # "none"
      PROVE  \A k \in 1..Commands : binary'[<<a[1], k>>] = binary[<<a[1], k>>]
  <2> SUFFICES ASSUME NEW k \in 1..Commands, binary'[<<a[1], k>>] # binary[<<a[1], k>>]
               PROVE  FALSE
    OBVIOUS
  <2>1. EndBuild(j) /\ <<a[1], k>> = FileOf(j)
    BY <1>2, BinaryOf, BinariesOf
  <2>2. j[1] = a[1]
    BY <2>1 DEF FileOf
  <2> QED
    BY <1>2, <1>3, <2>1, <2>2, BinariesOf
<1>4. CASE Done(i) /\ ~BeginArchive(i) /\ ~EndArchive(i)
  <2>1. job[i] # "none"
    BY <1>4 DEF Done
  <2>2. archive'[a] = archive[a]
    <3>1. ASSUME BeginArchive(j) \/ EndArchive(j)
          PROVE  a # FileOf(j)
      <4>1. j[2] = "archive"
        BY <3>1 DEF BeginArchive, EndArchive
      <4>2. j = <<FileOf(j)[1], "archive", FileOf(j)[2]>>
        BY <4>1, ArchiveFile
      <4> QED
        BY <1>2, <1>4, <3>1, <4>2
    <3> QED
      BY <1>1, <1>2, <3>1
         DEF FileJob, BeginBuild, SkipBuild, EndBuild, BeginArchive, EndArchive, JobFails,
             FilesTypeOK, fileVars
  <2> QED
    BY <1>3, <1>4, <2>1, <2>2, HoldsStays DEF FileInv, ArchivedInv
<1>5. CASE i = j /\ EndArchive(j)
  <2>1. /\ archive'[a] = [k \in 1..Commands |-> binary[<<j[1], k>>]]
        /\ binary' = binary
    BY <1>1, <1>2, <1>5 DEF EndArchive, FilesTypeOK
  <2> QED
    BY <1>2, <1>5, <2>1 DEF Holds
<1>6. ASSUME i = j, ~EndArchive(j)
      PROVE  Done(i) /\ ~BeginArchive(i)
  BY <1>1, <1>6
     DEF FileJob, BeginBuild, SkipBuild, EndBuild, BeginArchive, JobFails, Open,
         Return, Receive, Release, TypeOK, Done, vars
<1>7. ASSUME i # j
      PROVE  Done(i) /\ ~BeginArchive(i) /\ ~EndArchive(i)
  <2>1. Done(i)
    BY <1>7, OwnJob
  <2> QED
    BY <2>1 DEF Done, BeginArchive, EndArchive, Open, Return
<1> QED
  BY <1>4, <1>5, <1>6, <1>7

LEMMA JobFileInv ==
  ASSUME FileInv, PoolInv', FilesTypeOK', NEW j \in Jobs, FileJob(j)
  PROVE  FileInv'
<1>1. WorkInv' /\ BuiltInv' /\ ArchivedInv'
  BY JobWorkInv, JobBuiltInv, JobArchivedInv
<1>2. TimesInv'
  <2> SUFFICES ASSUME NEW b \in Binaries,
                      binary'[b] # <<>>, binary'[b][1].whole, ~binary'[b][1].overtaken
               PROVE  binary'[b][1].from["go"] = binary'[b][1].mtime
    BY DEF TimesInv
  <2>1. CASE binary'[b] = binary[b]
    BY <2>1 DEF FileInv, TimesInv
  <2>2. CASE binary'[b] # binary[b]
    <3>1. EndBuild(j) /\ b = FileOf(j)
      BY <2>2, BinariesOf
    <3>2. work[j] # <<>> /\ work[j] \in Opt(Snapshots) /\ source["go"] \in Nat
      BY <3>1 DEF EndBuild, FileInv, FilesTypeOK, Sources
    <3>3. work[j][1] \in Snapshots
      BY <3>2, OptIs
    <3>4. ~work[j][1].overtaken => work[j][1].from["go"] = source["go"]
      BY <3>2 DEF FileInv, WorkInv
    <3> DEFINE f == File(work[j][1], source["go"], TRUE)
    <3>5. /\ f.from = work[j][1].from /\ f.overtaken = work[j][1].overtaken
          /\ f.mtime = source["go"]
      BY <3>2, <3>3, FileKinds
    <3>6. binary'[b] = <<f>>
      BY <3>1 DEF EndBuild, FileInv, FilesTypeOK
    <3> HIDE DEF f
    <3> QED
      BY <3>4, <3>5, <3>6
  <2> QED
    BY <2>1, <2>2
<1> QED
  BY <1>1, <1>2 DEF FileInv

\* An edit overtakes the work under way; the run begins later only if no job has.
LEMMA EditFileInv ==
  ASSUME FileInv, PoolInv', FilesTypeOK', NEW s \in Sources, Edit(s)
  PROVE  FileInv'
<1>1. TypeOK /\ FilesTypeOK /\ WorkInv
  BY DEF FileInv, PoolInv, SlotInv
<1>2. UNCHANGED <<vars, binary, archive>>
  BY DEF Edit
<1>3. /\ source["go"] \in Nat /\ source'["go"] \in Nat /\ begun["go"] \in Nat
      /\ source'["go"] >= source["go"] /\ (s # "go" => source'["go"] = source["go"])
  BY <1>1 DEF Edit, FilesTypeOK, Sources
<1>4. CASE \A j \in Jobs : job[j] = "none"
  <2>1. begun' = source'
    BY <1>4 DEF Edit
  <2>2. \A j \in Jobs : job'[j] = "none" /\ work'[j] = <<>>
    BY <1>1, <1>2, <1>4 DEF vars, Edit, WorkInv
  <2>3. WorkInv' /\ BuiltInv' /\ ArchivedInv'
    BY <1>3, <2>1, <2>2 DEF WorkInv, BuiltInv, ArchivedInv, Done
  <2>4. TimesInv'
    BY <1>2 DEF FileInv, TimesInv
  <2> QED
    BY <2>3, <2>4 DEF FileInv
<1>5. CASE \E j \in Jobs : job[j] # "none"
  <2>1. begun' = begun
    BY <1>5 DEF Edit
  <2>2. WorkInv'
    <3>1. begun'["go"] <= source'["go"]
      BY <1>1, <1>3, <2>1 DEF WorkInv
    <3>2. ASSUME NEW j \in Jobs, work'[j] # <<>>
          PROVE  /\ job'[j] = "running"
                 /\ work'[j][1].from["go"] >= begun'["go"]
                 /\ ~work'[j][1].overtaken => work'[j][1].from["go"] = source'["go"]
      <4>1. work[j] # <<>>
        BY <3>2 DEF Edit
      <4>2. work[j] \in Opt(Snapshots)
        BY <1>1 DEF FilesTypeOK
      <4>3. work[j][1] \in Snapshots
        BY <4>1, <4>2, OptIs
      <4>4. /\ job[j] = "running" /\ work[j][1].from["go"] >= begun["go"]
            /\ ~work[j][1].overtaken => work[j][1].from["go"] = source["go"]
        BY <1>1, <4>1 DEF WorkInv
      <4>5. CASE s = "go"
        <5> DEFINE v == [work[j][1] EXCEPT !.overtaken = TRUE]
        <5>1. v.from = work[j][1].from /\ v.overtaken
          BY <4>3, Overtaken
        <5>2. work'[j] = <<v>>
          BY <4>1, <4>5 DEF Edit
        <5> HIDE DEF v
        <5> QED
          BY <1>2, <2>1, <4>4, <5>1, <5>2 DEF vars
      <4>6. CASE s # "go"
        <5>1. work'[j] = work[j]
          BY <4>6 DEF Edit
        <5> QED
          BY <1>2, <1>3, <2>1, <4>4, <4>6, <5>1 DEF vars
      <4> QED
        BY <4>5, <4>6
    <3> QED
      BY <3>1, <3>2 DEF WorkInv
  <2>3. \A j \in Jobs : Done(j)' = Done(j)
    BY <1>2 DEF vars, Done
  <2>4. BuiltInv'
    BY <1>2, <2>1, <2>3, CurrentStays DEF FileInv, BuiltInv
  <2>5. ArchivedInv'
    BY <1>2, <2>3, HoldsStays DEF FileInv, ArchivedInv
  <2>6. TimesInv'
    BY <1>2 DEF FileInv, TimesInv
  <2> QED
    BY <2>2, <2>4, <2>5, <2>6 DEF FileInv
<1> QED
  BY <1>4, <1>5

\* A run that begins finds binaries that were written in peace, were overtaken, or
\* are cut.
LEMMA AgainFileInv ==
  ASSUME FileInv, PoolInv', FilesTypeOK', ReleaseAgain
  PROVE  FileInv'
<1>1. \A j \in Jobs : job'[j] = "none" /\ work'[j] = <<>>
  BY DEF ReleaseAgain
<1>2. begun' = source /\ source' = source /\ source["go"] \in Nat
  BY DEF ReleaseAgain, FileInv, FilesTypeOK, Sources
<1>3. WorkInv' /\ BuiltInv' /\ ArchivedInv'
  BY <1>1, <1>2 DEF WorkInv, BuiltInv, ArchivedInv, Done
<1>4. TimesInv'
  <2> SUFFICES ASSUME NEW b \in Binaries,
                      binary'[b] # <<>>, binary'[b][1].whole, ~binary'[b][1].overtaken
               PROVE  binary'[b][1].from["go"] = binary'[b][1].mtime
    BY DEF TimesInv
  <2>1. PICK cut \in SUBSET {j \in Jobs : j[2] = "build" /\ work[j] # <<>>} :
          binary' = [c \in Binaries |->
            IF \E j \in cut : FileOf(j) = c
            THEN <<File(work[<<c[1], "build", c[2]>>][1], source["go"], FALSE)>> ELSE binary[c]]
    BY DEF ReleaseAgain
  <2>2. CASE \E j \in cut : FileOf(j) = b
    <3> DEFINE w == work[<<b[1], "build", b[2]>>][1]
               f == File(w, source["go"], FALSE)
    <3>1. PICK j \in cut : FileOf(j) = b
      BY <2>2
    <3>2. j = <<b[1], "build", b[2]>> /\ work[j] # <<>> /\ work[j] \in Opt(Snapshots)
      BY <3>1, BuildFile DEF FileInv, FilesTypeOK
    <3>3. w \in Snapshots
      BY <3>2, OptIs
    <3>4. f.whole = FALSE
      BY <1>2, <3>3, FileKinds
    <3>5. binary'[b] = <<f>>
      BY <2>1, <2>2
    <3> HIDE DEF f
    <3> QED
      BY <3>4, <3>5
  <2>3. CASE ~\E j \in cut : FileOf(j) = b
    BY <2>1, <2>3 DEF FileInv, TimesInv
  <2> QED
    BY <2>2, <2>3
<1> QED
  BY <1>3, <1>4 DEF FileInv

LEMMA CleanFileInv ==
  ASSUME FileInv, PoolInv', FilesTypeOK', Clean
  PROVE  FileInv'
<1>1. /\ \A j \in Jobs : job[j] = "none" /\ ~Done(j)'
      /\ \A b \in Binaries : binary'[b] = <<>>
      /\ UNCHANGED <<vars, source, work, begun>>
  BY DEF Clean, Done, vars
<1> QED
  BY <1>1 DEF FileInv, WorkInv, TimesInv, BuiltInv, ArchivedInv, vars

\* FileInv is inductive.
LEMMA FileInvStep == FileInv /\ [ReleaseNext]_releaseVars => FileInv'
<1> SUFFICES ASSUME FileInv, [ReleaseNext]_releaseVars PROVE FileInv'
  OBVIOUS
<1>1. PoolInv' /\ FilesTypeOK'
  BY PoolInvStep, FilesTypeStep DEF FileInv
<1>2. CASE \E p \in Platforms : PlatformStep(p)
  BY <1>1, <1>2, PlatformFileInv
<1>3. CASE \E j \in Jobs : FileJob(j)
  BY <1>1, <1>3, JobFileInv
<1>4. CASE \E s \in Sources : Edit(s)
  BY <1>1, <1>4, EditFileInv
<1>5. CASE ReleaseAgain
  BY <1>1, <1>5, AgainFileInv
<1>6. CASE Clean
  BY <1>1, <1>6, CleanFileInv
<1>7. CASE ReleaseAllStep \/ UNCHANGED releaseVars
  <2>1. UNCHANGED fileVars /\ job' = job /\ failed' = failed
    BY <1>7 DEF ReleaseAllStep, ReleaseAll, releaseVars, vars
  <2>2. \A j \in Jobs : Done(j)' => Done(j)
    BY <2>1 DEF Done
  <2> QED
    BY <1>1, <2>1, <2>2, PoolOnly
<1> QED
  BY <1>2, <1>3, <1>4, <1>5, <1>6, <1>7 DEF ReleaseNext

LEMMA FileInvImplies == FileInv => ReleasedIsCurrent
<1> SUFFICES ASSUME FileInv, main = "ok" PROVE ReleasedIsCurrent
  BY DEF ReleasedIsCurrent
<1>1. \A j \in Jobs : Done(j)
  BY ErrorInvImplies DEF FileInv, PoolInv, NoErrorLost, Done
<1>2. ASSUME NEW a \in Archives PROVE Holds(a)
  <2>1. PICK j \in Jobs : j[2] = "archive" /\ a = FileOf(j)
    BY DEF Archives, FileOf
  <2> QED
    BY <1>1, <2>1 DEF FileInv, ArchivedInv
<1>3. ASSUME NEW b \in Binaries PROVE Current(b)
  <2>1. PICK j \in Jobs : j[2] = "build" /\ b = FileOf(j)
    BY DEF Binaries, FileOf
  <2> QED
    BY <1>1, <2>1 DEF FileInv, BuiltInv
<1> QED
  BY <1>2, <1>3 DEF ReleasedIsCurrent, Holds, Current

\* However often files are edited and runs are killed, a ReleaseAll without an
\* error leaves whole archives of the binaries there are, and every binary is as
\* new as the run, or was overtaken or cut.
THEOREM ReleaseIsCurrent == ReleaseSpec => []ReleasedIsCurrent
BY InitFileInv, FileInvStep, FileInvImplies, PTL DEF ReleaseSpec

=============================================================================
