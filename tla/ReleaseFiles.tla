---------------------------- MODULE ReleaseFiles ----------------------------
(***************************************************************************)
(* What the jobs of ReleaseAll (BuildPool) do to the files: a command is   *)
(* compiled if one of the Go sources is newer than its binary, and then    *)
(* the binaries of a platform are archived.  Sources may be edited at any  *)
(* time, and a run may be killed and be followed by another one, which     *)
(* finds the files as they were left.                                      *)
(*                                                                         *)
(* Times are counted in edits of Go sources, of which every one is later   *)
(* than what was written before it.                                        *)
(***************************************************************************)
EXTENDS BuildPool

CONSTANTS
  MaxEdits,  \* how often sources are edited
  MaxRuns    \* how often ReleaseAll is called

ASSUME FilesAssumption == MaxEdits \in Nat /\ MaxRuns \in Nat

Sources == {"go", "other"}
Binaries == {<<j[1], j[3]>> : j \in {j \in Jobs : j[2] = "build"}}
Archives == {<<j[1], j[3]>> : j \in {j \in Jobs : j[2] = "archive"}}
FileOf(j) == <<j[1], j[3]>>

VARIABLES
  source,   \* how often Go files were edited, and what else is compiled in
  work,     \* the sources as a running job has read them, or <<>> before that
  binary,   \* in binDir: <<>>, or the file
  archive,  \* in releaseDir: the binaries in it, or <<>> if it is not whole
  runs,     \* how often ReleaseAll was called
  begun     \* history: source when the first job of this run began

fileVars == <<source, work, binary, archive, runs, begun>>
releaseVars == <<vars, fileVars>>

\* A binary: the sources it was made from, when it was written, whether a Go file
\* was edited while it was compiled, and whether it was written to its end.
File(w, mtime, whole) == [from |-> w.from, overtaken |-> w.overtaken, mtime |-> mtime, whole |-> whole]

ReleaseInit ==
  /\ Init
  /\ source = [s \in Sources |-> 0] /\ begun = source
  /\ work = [j \in Jobs |-> <<>>]
  /\ binary = [b \in Binaries |-> <<>>]
  /\ archive = [a \in Archives |-> <<>>]
  /\ runs = 1

\* target.Path: is there no binary, or a Go source that is newer?
Changed(b) == binary[b] # <<>> => source["go"] > binary[b][1].mtime

Open(j) == job[j] = "running" /\ work[j] = <<>>
SetWork(j, w) == work' = [work EXCEPT ![j] = w]

-----------------------------------------------------------------------------
(* makeBuilder.                                                            *)

BeginBuild(j) ==
  /\ Open(j) /\ j[2] = "build" /\ Changed(FileOf(j))
  /\ SetWork(j, <<[from |-> source, overtaken |-> FALSE]>>)
  /\ UNCHANGED <<vars, source, binary, archive, runs, begun>>

\* return nil
SkipBuild(j) ==
  /\ Open(j) /\ j[2] = "build" /\ ~Changed(FileOf(j))
  /\ Return(j) /\ failed' = failed
  /\ UNCHANGED fileVars

EndBuild(j) ==
  /\ j[2] = "build" /\ work[j] # <<>>
  /\ Return(j) /\ failed' = failed
  /\ binary' = [binary EXCEPT ![FileOf(j)] = <<File(work[j][1], source["go"], TRUE)>>]
  /\ SetWork(j, <<>>)
  /\ UNCHANGED <<source, archive, runs, begun>>

-----------------------------------------------------------------------------
(* doRelease.                                                              *)

\* A mutant: an archive that is there is left alone.
BeginArchiveUnlessThere(j) ==
  /\ Open(j) /\ j[2] = "archive"
  /\ \/ /\ archive[FileOf(j)] = <<>>
        /\ SetWork(j, <<[from |-> source, overtaken |-> FALSE]>>)
        /\ UNCHANGED <<vars, source, binary, archive, runs, begun>>
     \/ /\ archive[FileOf(j)] # <<>>
        /\ Return(j) /\ failed' = failed
        /\ UNCHANGED fileVars

\* The archive is removed and created.
BeginArchive(j) ==
  /\ Open(j) /\ j[2] = "archive"
  /\ archive' = [archive EXCEPT ![FileOf(j)] = <<>>]
  /\ SetWork(j, <<[from |-> source, overtaken |-> FALSE]>>)
  /\ UNCHANGED <<vars, source, binary, runs, begun>>

EndArchive(j) ==
  /\ j[2] = "archive" /\ work[j] # <<>>
  /\ Return(j) /\ failed' = failed
  /\ archive' = [archive EXCEPT ![FileOf(j)] = [k \in 1..Commands |-> binary[<<j[1], k>>]]]
  /\ SetWork(j, <<>>)
  /\ UNCHANGED <<source, binary, runs, begun>>

\* The compiler or the archiver fails: the old binary stays, the archive is not whole.
JobFails(j) ==
  /\ Return(j) /\ failed' = failed \cup {j}
  /\ SetWork(j, <<>>)
  /\ UNCHANGED <<source, binary, archive, runs, begun>>

FileJob(j) ==
  \/ BeginBuild(j) \/ SkipBuild(j) \/ EndBuild(j)
  \/ BeginArchive(j) \/ EndArchive(j)
  \/ JobFails(j)
  \/ (Receive(j) \/ Release(j)) /\ UNCHANGED fileVars

-----------------------------------------------------------------------------
(* What else happens.                                                      *)

\* A file is edited, which the compilations under way may have read before.
Edit(s) ==
  /\ source["go"] + source["other"] < MaxEdits
  /\ source' = [source EXCEPT ![s] = @ + 1]
  /\ work' = [j \in Jobs |->
       IF work[j] # <<>> /\ s = "go" THEN <<[work[j][1] EXCEPT !.overtaken = TRUE]>> ELSE work[j]]
  /\ begun' = IF \A j \in Jobs : job[j] = "none" THEN source' ELSE begun
  /\ UNCHANGED <<vars, binary, archive, runs>>

\* ReleaseAll is called in a new process.  If the last one was killed, binaries
\* that the compiler was writing in place are cut.
ReleaseAgain ==
  /\ runs < MaxRuns
  /\ runs' = runs + 1
  /\ \E cut \in SUBSET {j \in Jobs : j[2] = "build" /\ work[j] # <<>>} :
       binary' = [b \in Binaries |->
         IF \E j \in cut : FileOf(j) = b
         THEN <<File(work[<<b[1], "build", b[2]>>][1], source["go"], FALSE)>> ELSE binary[b]]
  /\ queue' = 0
  /\ phase' = [p \in Platforms |-> "build"]
  /\ next' = [p \in Platforms |-> 1]
  /\ sent' = [p \in Platforms |-> FALSE]
  /\ job' = [j \in Jobs |-> "none"]
  /\ failed' = {} /\ main' = "waiting"
  /\ work' = [j \in Jobs |-> <<>>]
  /\ begun' = source
  /\ UNCHANGED <<source, archive>>

\* Clean, between two runs.
Clean ==
  /\ \A j \in Jobs : job[j] = "none"
  /\ binary' = [b \in Binaries |-> <<>>]
  /\ archive' = [a \in Archives |-> <<>>]
  /\ UNCHANGED <<vars, source, work, runs, begun>>

PlatformStep(p) == Platform(p) /\ UNCHANGED fileVars
ReleaseAllStep == ReleaseAll /\ UNCHANGED fileVars

ReleaseNext ==
  \/ \E p \in Platforms : PlatformStep(p)
  \/ \E j \in Jobs : FileJob(j)
  \/ ReleaseAllStep
  \/ \E s \in Sources : Edit(s)
  \/ ReleaseAgain
  \/ Clean

ReleaseSpec == ReleaseInit /\ [][ReleaseNext]_releaseVars

\* As in BuildPool.  Nobody has to edit, to clean up or to call it again.
FairReleaseSpec ==
  /\ ReleaseSpec
  /\ \A p \in Platforms : WF_releaseVars(PlatformStep(p))
  /\ \A j \in Jobs : WF_releaseVars(FileJob(j))
  /\ WF_releaseVars(ReleaseAllStep)

-----------------------------------------------------------------------------
(* Properties.                                                             *)

\* After a ReleaseAll without an error every archive is whole and holds the
\* binaries that are there, whatever earlier runs have left; each was compiled
\* from Go sources no older than this run, except for one that was overtaken by an
\* edit while it was compiled, or cut when a run was killed: these are newer than
\* the sources, and stay until the next edit (magefile.go:711-719, 822-841).
ReleasedIsCurrent ==
  main = "ok" =>
    /\ \A a \in Archives : archive[a] = [k \in 1..Commands |-> binary[<<a[1], k>>]]
    /\ \A b \in Binaries :
         /\ binary[b] # <<>>
         /\ \/ binary[b][1].from["go"] >= begun["go"]
            \/ binary[b][1].overtaken \/ ~binary[b][1].whole

-----------------------------------------------------------------------------
(* What the code logs, and does not do.                                    *)

\* "Checking for changes" (magefile.go:710) notices them: what is compiled in from
\* elsewhere, such as the default configuration and the version, counts as well.
OtherChangesNoticed ==
  main = "ok" => \A b \in Binaries : binary[b][1].from["other"] >= begun["other"]
=============================================================================
