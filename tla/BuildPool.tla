----------------------------- MODULE BuildPool -----------------------------
(***************************************************************************)
(* ReleaseAll of magefile.go: one goroutine per platform builds the        *)
(* commands and then the archives, every single build and archive runs in  *)
(* a goroutine of concurrentRun, and concurrencyQueue bounds how many do.  *)
(*                                                                         *)
(* concurrentRun takes its slot before it returns, in the caller; the job  *)
(* gives it back only after its result was received; and the receivers are *)
(* started by waitResults, after the last job of a batch has its slot.     *)
(***************************************************************************)
EXTENDS Naturals, FiniteSets

CONSTANTS
  Platforms,    \* platformsLookup
  Windows,      \* the platforms that get a zip archive as well
  Commands,     \* how many commands there are to build (goCmds)
  Concurrency   \* the capacity of concurrencyQueue

ASSUME PlatformsAssumption == IsFiniteSet(Platforms) /\ Windows \subseteq Platforms
ASSUME NumbersAssumption == Commands \in Nat /\ Concurrency \in Nat \ {0}

Phase == {"build", "archive"}

\* A batch is what one waitResults waits for: the jobs of one platform and phase.
Size(p, phase) ==
  IF phase = "build" THEN Commands ELSE IF p \in Windows THEN 2 ELSE 1

Jobs == UNION {{<<p, phase, k>> : k \in 1..Size(p, phase)} :
                 p \in Platforms, phase \in Phase}

VARIABLES
  queue,  \* len(concurrencyQueue)
  phase,  \* what a platform's goroutine is at: a phase, "done" or "failed"
  next,   \* the job of the batch its loop starts next
  sent,   \* has waitResults been called for the batch
  job,    \* "none", "running", "sending", "received", "released"
  failed, \* the jobs that returned an error
  main    \* "waiting", then what ReleaseAll returns: "ok" or "error"

vars == <<queue, phase, next, sent, job, failed, main>>

Init ==
  /\ queue = 0
  /\ phase = [p \in Platforms |-> "build"]
  /\ next = [p \in Platforms |-> 1]
  /\ sent = [p \in Platforms |-> FALSE]
  /\ job = [j \in Jobs |-> "none"]
  /\ failed = {}
  /\ main = "waiting"

Batch(p, ph) == {j \in Jobs : j[1] = p /\ j[2] = ph}

-----------------------------------------------------------------------------
(* A platform's goroutine.                                                 *)

\* A mutant: the slot is taken without waiting for a free one.
ConcurrentRunUnbounded(p) ==
  /\ phase[p] \in Phase /\ ~sent[p] /\ next[p] <= Size(p, phase[p])
  /\ queue' = queue + 1
  /\ job' = [job EXCEPT ![<<p, phase[p], next[p]>>] = "running"]
  /\ next' = [next EXCEPT ![p] = @ + 1]
  /\ UNCHANGED <<phase, sent, failed, main>>

\* concurrentRun, called in the loop over the batch: blocks while the queue is full.
ConcurrentRun(p) ==
  /\ phase[p] \in Phase /\ ~sent[p] /\ next[p] <= Size(p, phase[p])
  /\ queue < Concurrency
  /\ queue' = queue + 1
  /\ job' = [job EXCEPT ![<<p, phase[p], next[p]>>] = "running"]
  /\ next' = [next EXCEPT ![p] = @ + 1]
  /\ UNCHANGED <<phase, sent, failed, main>>

\* waitResults starts a receiver for every job of the batch.
WaitResults(p) ==
  /\ phase[p] \in Phase /\ ~sent[p] /\ next[p] > Size(p, phase[p])
  /\ sent' = [sent EXCEPT ![p] = TRUE]
  /\ UNCHANGED <<queue, phase, next, job, failed, main>>

\* A mutant: the errors of the builds are printed but not returned.
BatchDoneDropsErrors(p) ==
  /\ phase[p] \in Phase /\ sent[p]
  /\ \A j \in Batch(p, phase[p]) : job[j] \in {"received", "released"}
  /\ phase' = [phase EXCEPT ![p] = IF @ = "build" THEN "archive" ELSE "done"]
  /\ next' = [next EXCEPT ![p] = 1]
  /\ sent' = [sent EXCEPT ![p] = FALSE]
  /\ UNCHANGED <<queue, job, failed, main>>

\* All results of the batch are in.  An error of the builds skips the archives.
BatchDone(p) ==
  /\ phase[p] \in Phase /\ sent[p]
  /\ \A j \in Batch(p, phase[p]) : job[j] \in {"received", "released"}
  /\ phase' = [phase EXCEPT ![p] =
       IF Batch(p, @) \cap failed # {} THEN "failed"
       ELSE IF @ = "build" THEN "archive" ELSE "done"]
  /\ next' = [next EXCEPT ![p] = 1]
  /\ sent' = [sent EXCEPT ![p] = FALSE]
  /\ UNCHANGED <<queue, job, failed, main>>

-----------------------------------------------------------------------------
(* A job's goroutine, and its receiver.                                    *)

\* A mutant: the slot is given back before the result is sent.
ReturnReleases(j) ==
  /\ job[j] = "running"
  /\ job' = [job EXCEPT ![j] = "sending"]
  /\ queue' = queue - 1
  /\ failed' \in {failed, failed \cup {j}}
  /\ UNCHANGED <<phase, next, sent, main>>

\* fn runs to its end, with or without an error.
Return(j) ==
  /\ job[j] = "running"
  /\ job' = [job EXCEPT ![j] = "sending"]
  /\ failed' \in {failed, failed \cup {j}}
  /\ UNCHANGED <<queue, phase, next, sent, main>>

\* rCh has no buffer: the send waits for a receiver.
Receive(j) ==
  /\ job[j] = "sending"
  /\ phase[j[1]] = j[2] /\ sent[j[1]]
  /\ job' = [job EXCEPT ![j] = "received"]
  /\ UNCHANGED <<queue, phase, next, sent, failed, main>>

\* A mutant: a job that failed ends without giving its slot back.
ReleaseUnlessFailed(j) ==
  /\ job[j] = "received"
  /\ job' = [job EXCEPT ![j] = "released"]
  /\ queue' = IF j \in failed THEN queue ELSE queue - 1
  /\ UNCHANGED <<phase, next, sent, failed, main>>

Release(j) ==
  /\ job[j] = "received"
  /\ job' = [job EXCEPT ![j] = "released"]
  /\ queue' = queue - 1
  /\ UNCHANGED <<phase, next, sent, failed, main>>

-----------------------------------------------------------------------------

\* ReleaseAll's own waitResults.
ReleaseAll ==
  /\ main = "waiting"
  /\ \A p \in Platforms : phase[p] \in {"done", "failed"}
  /\ main' = IF \E p \in Platforms : phase[p] = "failed" THEN "error" ELSE "ok"
  /\ UNCHANGED <<queue, phase, next, sent, job, failed>>

Platform(p) == ConcurrentRun(p) \/ WaitResults(p) \/ BatchDone(p)
Job(j) == Return(j) \/ Receive(j) \/ Release(j)

Next ==
  \/ \E p \in Platforms : Platform(p)
  \/ \E j \in Jobs : Job(j)
  \/ ReleaseAll

Spec == Init /\ [][Next]_vars

\* The scheduler runs every goroutine that can run, and builds end.
FairSpec ==
  /\ Spec
  /\ \A p \in Platforms : WF_vars(Platform(p))
  /\ \A j \in Jobs : WF_vars(Job(j))
  /\ WF_vars(ReleaseAll)

-----------------------------------------------------------------------------
(* Properties.                                                             *)

\* The variables have their types, and the queue never exceeds its capacity:
\* concurrentRun acquires a slot only while one is free.
TypeOK ==
  /\ queue \in 0..Concurrency
  /\ phase \in [Platforms -> Phase \cup {"done", "failed"}]
  /\ next \in [Platforms -> Nat \ {0}]
  /\ sent \in [Platforms -> BOOLEAN]
  /\ job \in [Jobs -> {"none", "running", "sending", "received", "released"}]
  /\ failed \subseteq Jobs
  /\ main \in {"waiting", "ok", "error"}

Holding == {j \in Jobs : job[j] \in {"running", "sending", "received"}}

\* "while respecting concurrency limits": every job that has begun and has not
\* given its slot back is counted, so no more than Concurrency of them exist.
SlotsAreHeld == queue = Cardinality(Holding)

\* A platform is archived only from builds that all succeeded, and when
\* ReleaseAll returns no error, everything was built and archived and no error
\* of any job was lost.
NoErrorLost ==
  /\ \A j \in Jobs : j[2] = "archive" /\ job[j] # "none" =>
       \A b \in Batch(j[1], "build") : job[b] \in {"received", "released"} /\ b \notin failed
  /\ main = "ok" => failed = {} /\ \A j \in Jobs : job[j] \in {"received", "released"}
  /\ main = "error" => failed # {}

\* "Ensure we always have at least 1 process": with the slots there are, every
\* job gets its turn and ReleaseAll returns.  Not so when every slot is held by
\* a platform that waits for one more before it starts its receivers.
ReleaseAllReturns == []<>(main # "waiting")
=============================================================================
