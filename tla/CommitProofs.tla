---------------------------- MODULE CommitProofs ----------------------------
(***************************************************************************)
(* Theorems about Commit, for all hooks, scripts, files and tools, and any *)
(* number of calls of Autogen and of slots.                                *)
(***************************************************************************)
EXTENDS Commit, SequenceTheorems, FiniteSetTheorems, TLAPS

-----------------------------------------------------------------------------
(* The tools.                                                              *)

\* A tool that is not installed has failed, or is still being built.
ToolsInv ==
  /\ tools \in {"idle", "waiting", "ok", "error"}
  /\ build \in [ToolNames -> {"none", "blocked", "running", "sent", "over"}]
  /\ tools = "idle" =>
       resultErr = FALSE /\ DOMAIN results = {} /\ \A t \in ToolNames : build[t] = "none"
  /\ tools # "idle" => \A t \in ToolNames :
       /\ build[t] = "none" => t \in installed
       /\ build[t] \in {"sent", "over"} =>
            t \in installed \/ resultErr \/ (t \in DOMAIN results /\ results[t])
  /\ tools = "ok" => ToolNames \subseteq installed

LEMMA InitToolsInv == Init => ToolsInv
BY DEF Init, ToolsInit, ToolsInv, NoResults

LEMMA GoroutineToolsInv ==
  ASSUME ToolsInv, Goroutines
  PROVE  ToolsInv' /\ installed \subseteq installed' /\ (tools = "idle" <=> tools' = "idle")
<1>1. ASSUME NEW t \in ToolNames, Acquire(t)
      PROVE  ToolsInv' /\ installed \subseteq installed' /\ tools' = tools
  BY <1>1 DEF ToolsInv, Acquire
<1>2. ASSUME NEW t \in ToolNames, Install(t)
      PROVE  ToolsInv' /\ installed \subseteq installed' /\ tools' = tools
  <2>1. PICK err \in BOOLEAN :
          /\ results' = [u \in DOMAIN results \cup {t} |-> IF u = t THEN err ELSE results[u]]
          /\ installed' = IF err THEN installed ELSE installed \cup {t}
    BY <1>2 DEF Install
  <2>2. /\ build[t] = "running" /\ build' = [build EXCEPT ![t] = "sent"]
        /\ tools' = tools /\ resultErr' = resultErr
    BY <1>2 DEF Install
  <2>3. installed \subseteq installed' /\ tools # "idle"
    BY <2>1, <2>2 DEF ToolsInv
  <2>4. ASSUME NEW u \in ToolNames
        PROVE  /\ build'[u] = "none" => u \in installed'
               /\ build'[u] \in {"sent", "over"} =>
                    u \in installed' \/ resultErr' \/ (u \in DOMAIN results' /\ results'[u])
    <3>1. CASE u = t
      BY <2>1, <2>2, <3>1 DEF ToolsInv
    <3>2. CASE u # t
      <4>1. build'[u] = build[u]
        BY <2>2, <3>2 DEF ToolsInv
      <4>2. u \in DOMAIN results /\ results[u] => u \in DOMAIN results' /\ results'[u]
        BY <2>1, <3>2
      <4> QED
        BY <2>2, <2>3, <4>1, <4>2 DEF ToolsInv
    <3> QED
      BY <3>1, <3>2
  <2> QED
    BY <2>2, <2>3, <2>4 DEF ToolsInv
<1>3. ASSUME NEW t \in ToolNames, GiveBack(t)
      PROVE  ToolsInv' /\ installed \subseteq installed' /\ tools' = tools
  BY <1>3 DEF ToolsInv, GiveBack
<1>4. ASSUME NEW t \in ToolNames, Receive(t)
      PROVE  ToolsInv' /\ installed \subseteq installed' /\ tools' = tools
  <2>1. /\ tools = "waiting" /\ t \in DOMAIN results
        /\ resultErr' = (resultErr \/ results[t])
        /\ results' = [u \in DOMAIN results \ {t} |-> results[u]]
        /\ UNCHANGED <<installed, tools, build>>
    BY <1>4 DEF Receive, Take
  <2>2. ASSUME NEW u \in ToolNames, u \in DOMAIN results /\ results[u]
        PROVE  resultErr' \/ (u \in DOMAIN results' /\ results'[u])
    BY <2>1, <2>2
  <2> QED
    BY <2>1, <2>2 DEF ToolsInv
<1>5. ASSUME ToolsReturns
      PROVE  ToolsInv' /\ installed \subseteq installed' /\ tools # "idle" /\ tools' # "idle"
  <2>1. /\ tools = "waiting" /\ Pending = {} /\ UNCHANGED <<installed, build, results, resultErr>>
        /\ tools' = IF resultErr THEN "error" ELSE "ok"
    BY <1>5 DEF ToolsReturns
  <2>2. ASSUME ~resultErr PROVE ToolNames \subseteq installed
    <3> SUFFICES ASSUME NEW t \in ToolNames PROVE t \in installed
      OBVIOUS
    <3>1. build[t] \notin {"blocked", "running"} /\ t \notin DOMAIN results
      BY <2>1 DEF Pending
    <3> QED
      BY <2>1, <2>2, <3>1 DEF ToolsInv
  <2> QED
    BY <2>1, <2>2 DEF ToolsInv
<1> QED
  BY <1>1, <1>2, <1>3, <1>4, <1>5 DEF Goroutines

-----------------------------------------------------------------------------
(* The calls.                                                              *)

\* The scripts of a hook up to one of them, as lines of a file.
Calls(lines, h, n) == \A j \in 1..n : ScriptsOf[h][j] \in Range(lines)

\* A file is a sequence.
FilesInv ==
  /\ DOMAIN files = Range(Hooks) /\ \A h \in Range(Hooks) : IsSeq(files[h])
  /\ IsSeq(updated)

\* Behind the loop, every hook calls all of its scripts; at it, those that were
\* added so far.
AutogenInv ==
  /\ FilesInv
  /\ hook \in 1..Len(Hooks) + 1 /\ script \in Nat
  /\ hook \in DOMAIN Hooks => script <= Len(ScriptsOf[name])
  /\ pc \in {"write", "fill"} => hook \in DOMAIN Hooks /\ Calls(updated, name, script)
  /\ pc = "read" /\ hook \in DOMAIN Hooks => Calls(files[name], name, script)
  /\ pc = "done" => hook = Len(Hooks) + 1
  /\ pc \in {"read", "write", "fill", "done"} =>
       \A i \in 1..hook - 1 : Calls(files[Hooks[i]], Hooks[i], Len(ScriptsOf[Hooks[i]]))

\* The shell has passed the first lines of a hook that calls all of its scripts, and
\* those called there have succeeded, or the last one is running.
Whole ==
  /\ Range(ScriptsOf[PreCommit]) \subseteq Range(Lines)
  /\ Len(behind) \in 0..Len(Lines) /\ behind = SubSeq(Lines, 1, Len(behind))
  /\ commit = "linting" => Len(behind) > 0
  /\ \A i \in 1..Len(behind) : Lines[i] \in AllScripts =>
       Lines[i] \in passed \/ (commit = "linting" /\ i = Len(behind))

\* As long as nobody writes to it.
CommitInv ==
  /\ commit \in {"none", "script", "linting", "accepted", "refused"}
  /\ commit # "linting" => tools = "idle"
  /\ passed # {} => ToolNames \subseteq installed
  /\ version = "whole" /\ commit \in {"script", "linting"} => Whole
  /\ version = "whole" /\ commit = "accepted" => Range(ScriptsOf[PreCommit]) \subseteq passed

LEMMA OwnElements ==
  ASSUME NEW S, NEW s \in Seq(S)
  PROVE  IsSeq(s) /\ Range(s) = {s[i] : i \in 1..Len(s)}
<1>1. DOMAIN s = 1..Len(s) /\ Range(s) = {s[i] : i \in 1..Len(s)} /\ Len(s) \in Nat
  BY LenProperties DEF Range
<1>2. s \in [1..Len(s) -> Range(s)]
  BY <1>1
<1> QED
  BY <1>1, <1>2 DEF IsSeq

\* What is in the parts of a sequence is in the whole.
LEMMA PartsIn ==
  ASSUME NEW S, NEW a \in Seq(S), NEW b \in Seq(S), NEW c \in Seq(S)
  PROVE  a \o b \o c \in Seq(S) /\ \A j \in 1..Len(b) : b[j] \in Range(a \o b \o c)
<1> DEFINE ab == a \o b
           abc == ab \o c
<1>1. /\ ab \in Seq(S) /\ Len(ab) = Len(a) + Len(b) /\ Len(a) \in Nat /\ Len(b) \in Nat
      /\ \A j \in 1..Len(b) : ab[Len(a) + j] = b[j]
  BY ConcatProperties
<1>2. /\ abc \in Seq(S) /\ Len(abc) = Len(ab) + Len(c) /\ Len(c) \in Nat
      /\ \A j \in 1..Len(ab) : abc[j] = ab[j]
  BY <1>1, ConcatProperties
<1>3. ASSUME NEW j \in 1..Len(b) PROVE b[j] \in Range(abc)
  <2>1. Len(a) + j \in 1..Len(ab) /\ Len(a) + j \in 1..Len(abc)
    BY <1>1, <1>2
  <2>2. abc[Len(a) + j] = b[j] /\ Len(a) + j \in DOMAIN abc
    BY <1>1, <1>2, <2>1
  <2> QED
    BY <2>2 DEF Range
<1> QED
  BY <1>2, <1>3

\* A hook that was updated calls the scripts that its section was made for.
LEMMA UpdatedCalls ==
  ASSUME NEW S, NEW lines \in Seq(S), Len(lines) > 0, Refusal(lines) = "none",
         NEW T, NEW scripts \in Seq(T)
  PROVE  /\ IsSeq(UpdatedScript(lines, scripts))
         /\ \A j \in 1..Len(scripts) : scripts[j] \in Range(UpdatedScript(lines, scripts))
<1> DEFINE U == S \cup T \cup {SectionHead, Note, Blank, SectionFoot}
           h == HeadAt(lines)
           section == ScriptPackage(scripts)
           array == AppendedInPlace(lines, h, section)
           tail == SubSeq(array, TailAt(lines) + 1, Len(lines))
<1>1. section \in Seq(U) /\ \A j \in 1..Len(scripts) : scripts[j] \in Range(section)
  <2>1. <<SectionHead, Note, Blank>> \in Seq(U) /\ <<Blank, SectionFoot>> \in Seq(U)
    OBVIOUS
  <2>2. scripts \in Seq(U)
    BY SeqMonotonic
  <2> QED
    BY <2>1, <2>2, PartsIn DEF ScriptPackage
<1>2. Len(lines) \in Nat /\ DOMAIN lines = 1..Len(lines) /\ lines \in Seq(U)
  BY SeqMonotonic, LenProperties
<1>3. h \in 0..Len(lines) /\ TailAt(lines) \in 1..Len(lines)
  <2>1. Marks(lines, SectionHead) \subseteq 1..Len(lines)
    BY <1>2 DEF Marks
  <2>2. Marks(lines, SectionFoot) \subseteq 1..Len(lines)
    BY <1>2 DEF Marks
  <2>3. h \in 0..Len(lines)
    BY <1>2, <2>1 DEF HeadAt, The
  <2>4. TailAt(lines) \in 1..Len(lines)
    BY <1>2, <2>2 DEF TailAt, The
  <2> QED
    BY <2>3, <2>4
<1>4. array \in Seq(U) /\ Len(array) = Len(lines)
  <2> PICK k \in Nat : k = h
    BY <1>3
  <2> PICK m \in Nat : m = Len(section)
    BY <1>1, LenProperties
  <2>1. CASE k + m > Len(lines)
    BY <1>2, <2>1 DEF AppendedInPlace
  <2>2. CASE ~(k + m > Len(lines))
    <3> DEFINE A(i) == IF i \in (k + 1)..(k + m) THEN section[i - k] ELSE lines[i]
    <3>1. array = [i \in 1..Len(lines) |-> A(i)]
      BY <1>2, <2>2 DEF AppendedInPlace
    <3>2. ASSUME NEW i \in 1..Len(lines) PROVE A(i) \in U
      <4>1. CASE i \in (k + 1)..(k + m)
        <5>1. i - k \in 1..m
          BY <1>2, <4>1
        <5>2. section[i - k] \in U
          BY <1>1, <5>1, ElementOfSeq
        <5> QED
          BY <4>1, <5>2
      <4>2. CASE i \notin (k + 1)..(k + m)
        BY <1>2, <4>2, ElementOfSeq
      <4> QED
        BY <4>1, <4>2
    <3>3. array \in [1..Len(lines) -> U]
      BY <3>1, <3>2
    <3> HIDE DEF array, A
    <3> QED
      BY <1>2, <3>3
  <2> QED
    BY <2>1, <2>2
<1>5. SubSeq(lines, 1, h) \in Seq(U)
  BY <1>2, <1>3, SubSeqProperties
<1>6. tail \in Seq(U)
  BY <1>2, <1>3, <1>4, SubSeqProperties
<1>7. UpdatedScript(lines, scripts) = SubSeq(lines, 1, h) \o section \o tail
  BY DEF UpdatedScript
<1> HIDE DEF U, h, section, tail
<1>8. /\ UpdatedScript(lines, scripts) \in Seq(U)
      /\ \A j \in 1..Len(section) : section[j] \in Range(UpdatedScript(lines, scripts))
  BY <1>1, <1>5, <1>6, <1>7, PartsIn
<1>9. Range(section) \subseteq Range(UpdatedScript(lines, scripts))
  BY <1>1, <1>8, LenProperties DEF Range
<1> QED
  BY <1>1, <1>8, <1>9, OwnElements

-----------------------------------------------------------------------------
(* Autogen.                                                                *)

LEMMA HookNames ==
  /\ Hooks \in Seq(Range(Hooks)) /\ DOMAIN Hooks = 1..Len(Hooks) /\ Len(Hooks) \in Nat
  /\ \A i \in 1..Len(Hooks) : Hooks[i] \in Range(Hooks)
  /\ \A i, j \in 1..Len(Hooks) : i # j => Hooks[i] # Hooks[j]
  /\ \A h \in Range(Hooks) : /\ ScriptsOf[h] \in Seq(Range(ScriptsOf[h]))
                             /\ Len(ScriptsOf[h]) \in Nat
<1>1. Hooks \in Seq(Range(Hooks)) /\ \A h \in Range(Hooks) : ScriptsOf[h] \in Seq(Range(ScriptsOf[h]))
  BY HooksAssumption DEF IsSeq
<1>2. DOMAIN Hooks = 1..Len(Hooks) /\ Len(Hooks) \in Nat
  BY <1>1, LenProperties
<1>3. \A h \in Range(Hooks) : Len(ScriptsOf[h]) \in Nat
  BY <1>1, LenProperties
<1> QED
  BY <1>1, <1>2, <1>3, HooksAssumption DEF Range

LEMMA InitAutogenInv == Init => AutogenInv
<1> SUFFICES ASSUME Init PROVE AutogenInv
  OBVIOUS
<1>1. /\ files \in Originals /\ pc = "idle" /\ hook = 1 /\ script = 0 /\ updated = <<>>
  BY DEF Init, AutogenInit, NoFile
<1>2. IsSeq(updated)
  BY <1>1 DEF IsSeq
<1>3. FilesInv
  BY <1>1, <1>2, HooksAssumption DEF FilesInv
<1>4. hook \in 1..Len(Hooks) + 1 /\ script \in Nat /\ (hook \in DOMAIN Hooks => script <= Len(ScriptsOf[name]))
  BY <1>1, HookNames DEF name
<1> QED
  BY <1>1, <1>3, <1>4 DEF AutogenInv

\* What Autogen reads is a file with a line.
LEMMA ReadLines ==
  ASSUME FilesInv, NEW h \in Range(Hooks)
  PROVE  \E S : ReadHook(h) \in Seq(S) /\ Len(ReadHook(h)) > 0
<1>1. CASE files[h] = NoFile
  <2>1. ReadHook(h) = <<Shebang, Blank>>
    BY <1>1 DEF ReadHook
  <2>2. <<Shebang, Blank>> \in Seq({Shebang, Blank}) /\ Len(<<Shebang, Blank>>) > 0
    OBVIOUS
  <2> QED
    BY <2>1, <2>2
<1>2. CASE files[h] # NoFile
  <2> PICK S, lines : S = Range(files[h]) /\ lines = files[h]
    OBVIOUS
  <2>1. lines \in Seq(S) /\ lines # <<>>
    BY <1>2 DEF FilesInv, IsSeq, NoFile
  <2>2. Len(lines) > 0
    BY <2>1
  <2> QED
    BY <1>2, <2>1, <2>2 DEF ReadHook
<1> QED
  BY <1>1, <1>2

LEMMA AutogenInvStep ==
  ASSUME AutogenInv, AutogenNext
  PROVE  AutogenInv'
<1> USE DEF AutogenInv
<1>0. /\ hook \in 1..Len(Hooks) + 1 /\ Len(Hooks) \in Nat /\ DOMAIN Hooks = 1..Len(Hooks)
      /\ hook \in DOMAIN Hooks => name \in Range(Hooks)
      /\ \A i \in 1..hook - 1 : i \in DOMAIN Hooks /\ i # hook
  BY HookNames DEF name
<1>1. CASE Autogen
  <2>1. /\ pc' = "read" /\ hook' = 1 /\ script' = 0 /\ UNCHANGED <<files, updated>>
    BY <1>1 DEF Autogen
  <2>2. hook' \in 1..Len(Hooks) + 1 /\ 1..hook' - 1 = {} /\ 1..script' = {}
    BY <1>0, <2>1
  <2>3. hook' \in DOMAIN Hooks => script' <= Len(ScriptsOf[name'])
    BY <2>1, HookNames DEF name
  <2> QED
    BY <2>1, <2>2, <2>3 DEF FilesInv, Calls
<1>2. CASE AddScript
  <2> DEFINE lines == ReadHook(name)
             n == script + 1
             scripts == SubSeq(ScriptsOf[name], 1, n)
  <2>1. /\ pc = "read" /\ hook \in DOMAIN Hooks /\ script < Len(ScriptsOf[name]) /\ script' = n
        /\ \/ /\ Refusal(lines) = "none" /\ updated' = UpdatedScript(lines, scripts)
              /\ pc' = "write"
           \/ /\ Refusal(lines) # "none" /\ pc' = Refusal(lines) /\ updated' = updated
        /\ UNCHANGED <<files, hook>>
    BY <1>2 DEF AddScript
  <2>2. name' = name /\ name \in Range(Hooks) /\ Len(ScriptsOf[name]) \in Nat
        /\ n \in Nat /\ n <= Len(ScriptsOf[name])
    BY <1>0, <2>1, HookNames DEF name
  <2>3. CASE Refusal(lines) = "none"
    <3>1. PICK S : lines \in Seq(S) /\ Len(lines) > 0
      BY <2>2, ReadLines
    <3>2. /\ scripts \in Seq(Range(ScriptsOf[name])) /\ Len(scripts) = n
          /\ \A j \in 1..n : scripts[j] = ScriptsOf[name][j]
      BY <2>2, HookNames, SubSeqProperties
    <3> HIDE DEF lines, scripts, n
    <3>3. IsSeq(updated') /\ \A j \in 1..n : scripts[j] \in Range(updated')
      <4>1. Refusal(lines) \notin {"write"} /\ updated' = UpdatedScript(lines, scripts)
        BY <2>1, <2>3
      <4> QED
        BY <2>3, <3>1, <3>2, <4>1, UpdatedCalls
    <3>4. Calls(updated', name, n)
      BY <3>2, <3>3 DEF Calls
    <3>5. pc' = "write"
      BY <2>1, <2>3
    <3>6. FilesInv'
      BY <2>1, <3>3 DEF FilesInv, IsSeq
    <3> QED
      BY <2>1, <2>2, <3>4, <3>5, <3>6 DEF Calls
  <2>4. CASE Refusal(lines) # "none"
    <3>1. pc' \in {"format", "multiple"}
      BY <2>1, <2>4 DEF Refusal
    <3> QED
      BY <2>1, <2>2, <2>4, <3>1 DEF FilesInv
  <2> QED
    BY <2>3, <2>4
<1>3. CASE OpenHook
  <2>1. /\ pc = "write" /\ pc' = "fill" /\ files' = [files EXCEPT ![name] = <<Blank>>]
        /\ UNCHANGED <<hook, script, updated>> /\ name' = name /\ name \in Range(Hooks)
    BY <1>0, <1>3 DEF OpenHook, name
  <2>2. IsSeq(<<Blank>>)
    BY DEF IsSeq, Range
  <2>3. FilesInv'
    BY <2>1, <2>2 DEF FilesInv
  <2>4. \A i \in 1..hook - 1 : files'[Hooks[i]] = files[Hooks[i]]
    BY <1>0, <2>1, HookNames DEF name, FilesInv
  <2> QED
    BY <2>1, <2>3, <2>4 DEF Calls
<1>4. CASE WriteHook
  <2>1. /\ pc = "fill" /\ pc' = "read" /\ files' = [files EXCEPT ![name] = updated]
        /\ updated' = NoFile
        /\ UNCHANGED <<hook, script>> /\ name' = name /\ name \in Range(Hooks)
    BY <1>0, <1>4 DEF WriteHook, name
  <2>2. IsSeq(NoFile)
    BY DEF IsSeq, NoFile
  <2>3. FilesInv' /\ files'[name] = updated
    BY <2>1, <2>2 DEF FilesInv
  <2>4. \A i \in 1..hook - 1 : files'[Hooks[i]] = files[Hooks[i]]
    BY <1>0, <2>1, HookNames DEF name, FilesInv
  <2> QED
    BY <2>1, <2>3, <2>4 DEF Calls
<1>5. CASE WriteFails \/ Interrupt
  <2>1. pc' = "stopped" /\ updated' = NoFile /\ UNCHANGED <<files, hook, script>> /\ name' = name
    BY <1>5 DEF WriteFails, Interrupt, name
  <2>2. IsSeq(NoFile)
    BY DEF IsSeq, NoFile
  <2> QED
    BY <2>1, <2>2 DEF FilesInv
<1>6. CASE NextHook
  <2>1. /\ pc = "read" /\ hook \in DOMAIN Hooks /\ script = Len(ScriptsOf[name])
        /\ hook' = hook + 1 /\ script' = 0 /\ UNCHANGED <<files, pc, updated>>
    BY <1>6 DEF NextHook
  <2>2. hook' \in 1..Len(Hooks) + 1 /\ \A i \in 1..hook' - 1 : i \in 1..hook - 1 \/ i = hook
    BY <1>0, <2>1
  <2>3. hook' \in DOMAIN Hooks => script' <= Len(ScriptsOf[name'])
    BY <1>0, <2>1, HookNames DEF name
  <2>4. Calls(files[Hooks[hook]], Hooks[hook], Len(ScriptsOf[Hooks[hook]]))
    BY <2>1 DEF name
  <2>5. 1..script' = {}
    BY <2>1
  <2> QED
    BY <2>1, <2>2, <2>3, <2>4, <2>5 DEF FilesInv, Calls
<1>7. CASE AutogenReturns
  <2>1. /\ pc = "read" /\ hook > Len(Hooks) /\ pc' = "done"
        /\ UNCHANGED <<files, hook, script, updated>> /\ name' = name
    BY <1>7 DEF AutogenReturns, name
  <2>2. hook = Len(Hooks) + 1
    BY <1>0, <2>1
  <2> QED
    BY <2>1, <2>2 DEF FilesInv
<1> QED
  BY <1>1, <1>2, <1>3, <1>4, <1>5, <1>6, <1>7 DEF AutogenNext

-----------------------------------------------------------------------------
(* A commit.                                                               *)

LEMMA InitCommitInv == Init => CommitInv
  BY DEF Init, ToolsInit, CommitInv

\* Every script of the hook that git runs is a script.
LEMMA PreCommitScripts ==
  /\ PreCommit \in Range(Hooks) /\ Range(ScriptsOf[PreCommit]) \subseteq AllScripts
  /\ ScriptsOf[PreCommit] # <<>> => Range(ScriptsOf[PreCommit]) # {}
<1>1. PreCommit \in Range(Hooks)
  BY PreCommitAssumption
<1>2. Range(ScriptsOf[PreCommit]) \subseteq AllScripts
  BY <1>1 DEF AllScripts
<1> PICK scripts : scripts = ScriptsOf[PreCommit]
  OBVIOUS
<1>3. ASSUME scripts # <<>> PROVE Range(scripts) # {}
  <2>1. scripts \in Seq(Range(scripts))
    BY <1>1, HookNames
  <2>2. 1 \in DOMAIN scripts
    BY <1>3, <2>1
  <2> QED
    BY <2>2 DEF Range
<1> QED
  BY <1>1, <1>2, <1>3

\* A hook that nobody has written to since is where the shell left it.
LEMMA WholePlace ==
  ASSUME Whole, IsSeq(Lines)
  PROVE  ~Moved /\ Places = {Len(behind)}
<1> PICK S, lines, n : S = Range(Lines) /\ lines = Lines /\ n = Len(behind)
  OBVIOUS
<1>1. lines \in Seq(S) /\ n \in 0..Len(lines) /\ Len(lines) \in Nat /\ behind = SubSeq(lines, 1, n)
  BY LenProperties DEF IsSeq, Whole
<1>2. behind \in Seq(S) /\ n <= Len(lines)
  BY <1>1, SubSeqProperties
<1>3. SubSeq(behind, 1, n) = behind
  BY <1>2, SubSeqFull
<1>4. IsPrefix(behind, lines)
  BY <1>1, <1>2, <1>3 DEF IsPrefix
<1> QED
  BY <1>4 DEF Moved, Places

\* The finished hook calls all of its scripts.
LEMMA DoneCalls ==
  ASSUME AutogenInv, pc = "done"
  PROVE  Range(ScriptsOf[PreCommit]) \subseteq Range(Lines)
<1>1. PICK i \in DOMAIN Hooks : Hooks[i] = PreCommit
  BY PreCommitScripts DEF Range
<1>2. i \in 1..hook - 1
  BY HookNames DEF AutogenInv
<1>3. Calls(files[PreCommit], PreCommit, Len(ScriptsOf[PreCommit]))
  BY <1>1, <1>2 DEF AutogenInv
<1> PICK scripts, S : scripts = ScriptsOf[PreCommit] /\ S = Range(scripts)
  OBVIOUS
<1>4. scripts \in Seq(S)
  BY HookNames, PreCommitScripts
<1>5. Range(scripts) = {scripts[j] : j \in 1..Len(scripts)}
  BY <1>4, OwnElements
<1> QED
  BY <1>3, <1>5 DEF Calls, Lines

LEMMA WholeRun ==
  ASSUME Whole, IsSeq(Lines), RunScript
  PROVE  Whole'
<1>1. /\ commit = "script" /\ commit' = "linting" /\ UNCHANGED <<passed, version>>
      /\ Lines' = Lines
  BY DEF RunScript, autogenVars, Lines
<1>0. PICK place \in Places : \E i \in Called(place) :
        (\A j \in Called(place) : i <= j) /\ behind' = SubSeq(Lines, 1, i)
  BY DEF RunScript
<1>2. PICK i \in Called(place) :
        (\A j \in Called(place) : i <= j) /\ behind' = SubSeq(Lines, 1, i)
  BY <1>0
<1> PICK S, lines, n : S = Range(Lines) /\ lines = Lines /\ n = Len(behind)
  OBVIOUS
<1>3. /\ lines \in Seq(S) /\ n \in 0..Len(lines) /\ Len(lines) \in Nat
      /\ DOMAIN lines = 1..Len(lines)
  BY LenProperties DEF IsSeq, Whole
<1>4. place = n
  BY <1>0, WholePlace
<1>5. i \in 1..Len(lines) /\ i > n
  BY <1>2, <1>3, <1>4 DEF Called
<1>6. Len(behind') = i
  BY <1>2, <1>3, <1>5, SubSeqProperties
<1>7. ASSUME NEW k \in 1..i, lines[k] \in AllScripts
      PROVE  lines[k] \in passed \/ k = i
  <2>1. CASE k <= n
    BY <1>1, <1>3, <1>7, <2>1 DEF Whole
  <2>2. CASE k > n
    <3>1. k \in Called(place)
      BY <1>3, <1>4, <1>5, <1>7, <2>2 DEF Called
    <3> QED
      BY <1>2, <1>5, <1>7, <3>1
  <2> QED
    BY <1>3, <1>7, <2>1, <2>2
<1> QED
  BY <1>1, <1>2, <1>3, <1>5, <1>6, <1>7 DEF Whole, AllScripts

LEMMA WholeLint ==
  ASSUME Whole, IsSeq(Lines), Lint
  PROVE  Whole'
<1>1. /\ commit = "linting" /\ commit' = "script" /\ UNCHANGED <<behind, version>>
      /\ passed' = passed \cup {Last(behind)} /\ Lines' = Lines
  BY DEF Lint, autogenVars, Lines
<1> PICK S, lines, n : S = Range(Lines) /\ lines = Lines /\ n = Len(behind)
  OBVIOUS
<1>0. lines \in Seq(S) /\ Len(lines) \in Nat
  BY LenProperties DEF IsSeq
<1>2. n \in 1..Len(lines) /\ behind = SubSeq(lines, 1, n)
  <2>1. n \in 0..Len(lines) /\ n > 0 /\ behind = SubSeq(lines, 1, n)
    BY <1>1 DEF Whole
  <2> QED
    BY <1>0, <2>1
<1>3. Last(behind) = lines[n]
  BY <1>0, <1>2, SubSeqProperties DEF Last
<1> QED
  BY <1>1, <1>2, <1>3 DEF Whole, AllScripts

LEMMA WholeEnd ==
  ASSUME Whole, IsSeq(Lines), Accept
  PROVE  Range(ScriptsOf[PreCommit]) \subseteq passed
<1>1. commit = "script" /\ Called(Len(behind)) = {}
  BY WholePlace DEF Accept
<1> PICK S, lines, n : S = Range(Lines) /\ lines = Lines /\ n = Len(behind)
  OBVIOUS
<1>2. lines \in Seq(S) /\ n \in 0..Len(lines) /\ Len(lines) \in Nat /\ DOMAIN lines = 1..Len(lines)
  BY LenProperties DEF IsSeq, Whole
<1>3. ASSUME NEW line \in Range(ScriptsOf[PreCommit]) PROVE line \in passed
  <2>1. line \in AllScripts /\ line \in Range(Lines)
    BY <1>3, PreCommitScripts DEF Whole
  <2>2. PICK k \in 1..Len(lines) : lines[k] = line
    BY <1>2, <2>1 DEF Range
  <2>3. k <= n
    BY <1>1, <1>2, <2>1, <2>2 DEF Called
  <2> QED
    BY <1>1, <1>2, <2>1, <2>2, <2>3 DEF Whole
<1> QED
  BY <1>3

LEMMA CommitInvStep ==
  ASSUME ToolsInv, AutogenInv, CommitInv, [Next]_vars
  PROVE  ToolsInv' /\ CommitInv'
<1> USE DEF CommitInv
<1>1. IsSeq(Lines)
  BY PreCommitScripts DEF AutogenInv, FilesInv, Lines
<1>2. ASSUME UNCHANGED <<toolVars, commit, behind, passed>>,
             version' = "whole" => version = "whole" /\ Lines' = Lines
      PROVE  ToolsInv' /\ CommitInv'
  <2>1. version' = "whole" /\ Whole => Whole'
    BY <1>2 DEF Whole, AllScripts
  <2> QED
    BY <1>2, <2>1 DEF ToolsInv, toolVars
<1>3. CASE UNCHANGED vars
  BY <1>2, <1>3 DEF vars, commitVars, autogenVars, Lines
<1>4. CASE /\ AutogenNext
           /\ version' = IF version = "whole" /\ files'[PreCommit] # Lines THEN "rewritten" ELSE version
           /\ UNCHANGED <<toolVars, commit, behind, passed>>
  BY <1>2, <1>4 DEF Lines
<1>5. CASE GitCommit
  <2>1. /\ commit' = "script" /\ behind' = <<>> /\ passed' = {} /\ commit # "linting"
        /\ version' = "whole" => pc = "done"
        /\ UNCHANGED <<installed, tools, build, results, resultErr>> /\ Lines' = Lines
    BY <1>5 DEF GitCommit, toolVars, autogenVars, Lines
  <2>2. ToolsInv'
    BY <2>1 DEF ToolsInv
  <2>3. ASSUME pc = "done" PROVE Whole'
    <3>1. Len(Lines) \in Nat /\ SubSeq(Lines, 1, 0) = <<>>
      BY <1>1, LenProperties, SubSeqProperties DEF IsSeq
    <3> QED
      BY <2>1, <2>3, <3>1, DoneCalls DEF Whole
  <2> QED
    BY <2>1, <2>2, <2>3
<1>6. CASE RunScript
  <2>1. /\ commit = "script" /\ commit' = "linting" /\ Tools
        /\ UNCHANGED <<passed, version>>
    BY <1>6 DEF RunScript
  <2>2. /\ tools = "idle" /\ tools' = "waiting"
        /\ build' = [t \in ToolNames |-> IF t \in Needed THEN "blocked" ELSE "none"]
        /\ UNCHANGED <<installed, results, resultErr>>
    BY <2>1 DEF Tools
  <2>3. ToolsInv'
    BY <2>2 DEF ToolsInv, Needed
  <2> QED
    BY <1>1, <1>6, <2>1, <2>2, <2>3, WholeRun
<1>7. ASSUME ProcessEnds PROVE ToolsInv' /\ installed' = installed /\ tools' = "idle"
  BY <1>7 DEF ProcessEnds, ToolsInv, NoResults
<1>8. CASE ScriptFails
  BY <1>7, <1>8 DEF ScriptFails
<1>9. CASE Lint
  <2>1. /\ commit = "linting" /\ tools = "ok" /\ ProcessEnds /\ commit' = "script"
        /\ version' = version
    BY <1>9 DEF Lint
  <2>2. ToolNames \subseteq installed'
    BY <1>7, <2>1 DEF ToolsInv
  <2> QED
    BY <1>1, <1>7, <1>9, <2>1, <2>2, WholeLint
<1>10. ASSUME commit = "script", commit' \in {"accepted", "refused"},
              UNCHANGED <<toolVars, behind, passed, version>>,
              Accept \/ commit' = "refused"
       PROVE  ToolsInv' /\ CommitInv'
  <2>1. ToolsInv'
    BY <1>10 DEF toolVars, ToolsInv
  <2>2. version = "whole" /\ commit' = "accepted" => Range(ScriptsOf[PreCommit]) \subseteq passed'
    BY <1>1, <1>10, WholeEnd
  <2> QED
    BY <1>10, <2>1, <2>2 DEF toolVars
<1>11. CASE OtherLineFails
  BY <1>10, <1>11 DEF OtherLineFails
<1>12. CASE Accept
  BY <1>10, <1>12 DEF Accept
<1>13. CASE Goroutines /\ UNCHANGED <<autogenVars, commitVars>>
  <2>1. UNCHANGED <<commit, behind, passed, version>> /\ Lines' = Lines
    BY <1>13 DEF commitVars, autogenVars, Lines
  <2>2. Whole => Whole'
    BY <2>1 DEF Whole, AllScripts
  <2> QED
    BY <1>13, <2>1, <2>2, GoroutineToolsInv
<1> QED
  BY <1>3, <1>4, <1>5, <1>6, <1>8, <1>9, <1>11, <1>12, <1>13 DEF Next, Hook

LEMMA AutogenInvStays ==
  ASSUME AutogenInv, [Next]_vars
  PROVE  AutogenInv'
<1>1. CASE AutogenNext
  BY <1>1, AutogenInvStep
<1>2. CASE UNCHANGED autogenVars
  <2>1. UNCHANGED <<files, pc, hook, script, updated>> /\ name' = name
    BY <1>2 DEF autogenVars, name
  <2> QED
    BY <2>1 DEF AutogenInv, FilesInv
<1> QED
  BY <1>1, <1>2 DEF Next, GitCommit, Hook, RunScript, ScriptFails, Lint, OtherLineFails, Accept, vars

\* Whatever stood in the hooks, however often Autogen was stopped or failed on the
\* way, and whichever tools fail to build: a commit that the finished hook has let
\* through, without being written to while it ran, has passed every script, with all
\* tools in place.
THEOREM AcceptedIsChecked == FairSpec => []CommitIsChecked
<1>1. ToolsInv /\ AutogenInv /\ CommitInv /\ [Next]_vars => (ToolsInv /\ AutogenInv /\ CommitInv)'
  BY CommitInvStep, AutogenInvStays
<1>2. CommitInv => CommitIsChecked
  BY PreCommitScripts DEF CommitInv, CommitIsChecked, Checked
<1> QED
  BY <1>1, <1>2, InitToolsInv, InitAutogenInv, InitCommitInv, PTL DEF FairSpec

-----------------------------------------------------------------------------
(* What is left in a hook.                                                 *)

\* A set of lines holds more than one if two of them differ.
LEMMA MoreThanOne ==
  ASSUME NEW n \in Nat, NEW S \in SUBSET (1..n)
  PROVE  Cardinality(S) > 1 <=> \E i, j \in S : i # j
<1>1. IsFiniteSet(S)
  <2>1. IsFiniteSet(1..n)
    BY FS_Interval
  <2> QED
    BY <2>1, FS_Subset
<1>2. ASSUME NEW i \in S, NEW j \in S, i # j PROVE Cardinality(S) > 1
  <2>1. IsFiniteSet({i}) /\ Cardinality({i}) = 1
    BY FS_Singleton
  <2>2. Cardinality({i} \cup {j}) = 2
    BY <1>2, <2>1, FS_AddElement
  <2>3. {i} \cup {j} \subseteq S
    OBVIOUS
  <2>4. Cardinality({i} \cup {j}) <= Cardinality(S) /\ Cardinality(S) \in Nat
    BY <1>1, <2>3, FS_Subset, FS_CardinalityType
  <2> QED
    BY <2>2, <2>4
<1>3. ASSUME \A i, j \in S : i = j PROVE ~(Cardinality(S) > 1)
  <2>1. CASE S = {}
    BY <2>1, FS_EmptySet
  <2>2. CASE S # {}
    <3>1. PICK i \in S : TRUE
      BY <2>2
    <3>2. S = {i}
      BY <1>3, <3>1
    <3>3. Cardinality({i}) = 1
      BY FS_Singleton
    <3> QED
      BY <3>2, <3>3
  <2> QED
    BY <2>1, <2>2
<1> QED
  BY <1>2, <1>3

\* Three parts of a sequence, line by line.
LEMMA Pieces ==
  ASSUME NEW U, NEW b \in Seq(U), NEW s \in Seq(U), NEW c \in Seq(U), NEW whole, whole = b \o s \o c
  PROVE  /\ whole \in Seq(U) /\ Len(b) \in Nat /\ Len(s) \in Nat /\ Len(c) \in Nat
         /\ Len(whole) = Len(b) + Len(s) + Len(c)
         /\ \A i \in 1..Len(b) : whole[i] = b[i]
         /\ \A i \in 1..Len(s) : whole[Len(b) + i] = s[i]
         /\ \A i \in 1..Len(c) : whole[Len(b) + Len(s) + i] = c[i]
<1> DEFINE front == b \o s
<1>1. /\ front \in Seq(U) /\ Len(front) = Len(b) + Len(s) /\ Len(b) \in Nat /\ Len(s) \in Nat
      /\ \A i \in 1..Len(b) : front[i] = b[i]
      /\ \A i \in 1..Len(s) : front[Len(b) + i] = s[i]
  BY ConcatProperties
<1> HIDE DEF front
<1>2. /\ whole \in Seq(U) /\ Len(whole) = Len(front) + Len(c) /\ Len(c) \in Nat
      /\ \A i \in 1..Len(front) : whole[i] = front[i]
      /\ \A i \in 1..Len(c) : whole[Len(front) + i] = c[i]
  BY <1>1, ConcatProperties DEF front
<1>3. /\ \A i \in 1..Len(b) : i \in 1..Len(front)
      /\ \A i \in 1..Len(s) : Len(b) + i \in 1..Len(front)
  BY <1>1
<1> QED
  BY <1>1, <1>2, <1>3

\* Two sequences of the same three parts, line by line.
LEMMA SamePieces ==
  ASSUME NEW U, NEW b \in Seq(U), NEW s \in Seq(U), NEW c \in Seq(U), NEW whole \in Seq(U),
         Len(whole) = Len(b) + Len(s) + Len(c),
         \A i \in 1..Len(b) : whole[i] = b[i],
         \A i \in 1..Len(s) : whole[Len(b) + i] = s[i],
         \A i \in 1..Len(c) : whole[Len(b) + Len(s) + i] = c[i]
  PROVE  whole = b \o s \o c
<1> DEFINE other == b \o s \o c
<1>1. /\ other \in Seq(U) /\ Len(b) \in Nat /\ Len(s) \in Nat /\ Len(c) \in Nat
      /\ Len(other) = Len(b) + Len(s) + Len(c)
      /\ \A i \in 1..Len(b) : other[i] = b[i]
      /\ \A i \in 1..Len(s) : other[Len(b) + i] = s[i]
      /\ \A i \in 1..Len(c) : other[Len(b) + Len(s) + i] = c[i]
  BY Pieces
<1> HIDE DEF other
<1>2. ASSUME NEW i \in 1..Len(whole) PROVE whole[i] = other[i]
  <2>1. CASE i \in 1..Len(b)
    BY <1>1, <2>1
  <2>2. CASE i - Len(b) \in 1..Len(s)
    <3>1. Len(b) + (i - Len(b)) = i
      BY <1>1
    <3> QED
      BY <1>1, <2>2, <3>1
  <2>3. CASE i - (Len(b) + Len(s)) \in 1..Len(c)
    <3>1. Len(b) + Len(s) + (i - (Len(b) + Len(s))) = i
      BY <1>1
    <3> QED
      BY <1>1, <2>3, <3>1
  <2> QED
    BY <1>1, <2>1, <2>2, <2>3
<1> QED
  BY <1>1, <1>2, SeqEqual DEF other

Marker == {SectionHead, SectionFoot}
Fixed == {Shebang, SectionHead, SectionFoot, Note, Blank}

\* A section, line by line.
LEMMA SectionLines ==
  ASSUME NEW U, Fixed \subseteq U, NEW scripts \in Seq(U),
         \A i \in 1..Len(scripts) : scripts[i] \notin Marker,
         NEW s, s = ScriptPackage(scripts)
  PROVE  /\ s \in Seq(U) /\ Len(scripts) \in Nat /\ Len(s) = Len(scripts) + 5
         /\ s[1] = SectionHead /\ s[Len(scripts) + 5] = SectionFoot
         /\ \A i \in 1..Len(s) : /\ s[i] = SectionHead => i = 1
                                 /\ s[i] = SectionFoot => i = Len(s)
<1> DEFINE top == <<SectionHead, Note, Blank>>
           end == <<Blank, SectionFoot>>
           n == Len(scripts)
<1>1. /\ top \in Seq(U) /\ Len(top) = 3
      /\ top[1] = SectionHead /\ top[2] = Note /\ top[3] = Blank
  BY DEF Fixed
<1>2. end \in Seq(U) /\ Len(end) = 2 /\ end[1] = Blank /\ end[2] = SectionFoot
  BY DEF Fixed
<1>3. s = top \o scripts \o end
  BY DEF ScriptPackage
<1> HIDE DEF top, end
<1>4. /\ s \in Seq(U) /\ n \in Nat /\ Len(s) = 3 + n + 2
      /\ \A i \in 1..3 : s[i] = top[i]
      /\ \A i \in 1..n : s[3 + i] = scripts[i]
      /\ \A i \in 1..2 : s[3 + n + i] = end[i]
  <2>1. /\ s \in Seq(U) /\ Len(scripts) \in Nat
        /\ Len(s) = Len(top) + Len(scripts) + Len(end)
        /\ \A i \in 1..Len(top) : s[i] = top[i]
        /\ \A i \in 1..Len(scripts) : s[Len(top) + i] = scripts[i]
        /\ \A i \in 1..Len(end) : s[Len(top) + Len(scripts) + i] = end[i]
    <3>1. top \in Seq(U) /\ end \in Seq(U)
      BY <1>1, <1>2
    <3> QED
      BY ONLY <3>1, <1>3, scripts \in Seq(U), Pieces
  <2> QED
    BY ONLY <2>1, <1>1, <1>2
<1> HIDE DEF n
<1>5. /\ s[1] = SectionHead /\ s[2] = Note /\ s[3] = Blank
      /\ s[n + 4] = Blank /\ s[n + 5] = SectionFoot
  <2>1. 3 + n + 1 = n + 4 /\ 3 + n + 2 = n + 5
    BY <1>4
  <2> QED
    BY <1>1, <1>2, <1>4, <2>1
<1>6. ASSUME NEW i \in 1..Len(s)
      PROVE  (s[i] = SectionHead => i = 1) /\ (s[i] = SectionFoot => i = n + 5)
  <2>1. i \in {1, 2, 3} \/ i - 3 \in 1..n \/ i \in {n + 4, n + 5}
    BY <1>4
  <2>2. CASE i \in {1, 2, 3}
    BY <1>5, <2>2 DEF SectionHead, SectionFoot, Note, Blank
  <2>3. CASE i - 3 \in 1..n
    <3>1. 3 + (i - 3) = i
      BY <1>4
    <3>2. s[i] = scripts[i - 3]
      BY <1>4, <2>3, <3>1
    <3> QED
      BY <2>3, <3>2 DEF Marker, n
  <2>4. CASE i \in {n + 4, n + 5}
    BY <1>5, <2>4 DEF SectionHead, SectionFoot, Blank
  <2> QED
    BY <2>1, <2>2, <2>3, <2>4
<1> QED
  BY <1>4, <1>5, <1>6 DEF n

\* The end of a sequence.
LEMMA EndOf ==
  ASSUME NEW U, NEW seq \in Seq(U), NEW k \in 0..Len(seq), NEW c, c = SubSeq(seq, k + 1, Len(seq))
  PROVE  /\ c \in Seq(U) /\ Len(c) \in Nat /\ Len(c) = Len(seq) - k
         /\ \A i \in 1..Len(c) : c[i] = seq[k + i]
<1>1. Len(seq) \in Nat /\ \A i \in 1..Len(seq) : seq[i] \in U
  BY LenProperties
<1>2. k + 1 \in Int /\ Len(seq) \in Int /\ \A i \in k + 1..Len(seq) : seq[i] \in U
  BY <1>1
<1>3. /\ c \in Seq(U) /\ Len(c) = IF k + 1 <= Len(seq) THEN Len(seq) - (k + 1) + 1 ELSE 0
      /\ \A i \in 1..Len(seq) - (k + 1) + 1 : c[i] = seq[k + 1 + i - 1]
  BY <1>2, SubSeqProperties
<1>4. Len(c) = Len(seq) - k
  BY <1>1, <1>3
<1>5. ASSUME NEW i \in 1..Len(c) PROVE c[i] = seq[k + i]
  <2>1. i \in 1..Len(seq) - (k + 1) + 1 /\ k + 1 + i - 1 = k + i
    BY <1>1, <1>4
  <2> QED
    BY <1>3, <2>1
<1> QED
  BY <1>1, <1>3, <1>4, <1>5

\* The start of a sequence.
LEMMA StartOf ==
  ASSUME NEW U, NEW seq \in Seq(U), NEW k \in 0..Len(seq), NEW b, b = SubSeq(seq, 1, k)
  PROVE  b \in Seq(U) /\ Len(b) = k /\ \A i \in 1..k : b[i] = seq[i]
<1>1. Len(seq) \in Nat /\ \A i \in 1..Len(seq) : seq[i] \in U
  BY LenProperties
<1>2. 1 \in Int /\ k \in Int /\ \A i \in 1..k : seq[i] \in U
  BY <1>1
<1>3. /\ b \in Seq(U) /\ Len(b) = IF 1 <= k THEN k - 1 + 1 ELSE 0
      /\ \A i \in 1..k - 1 + 1 : b[i] = seq[1 + i - 1]
  BY <1>2, SubSeqProperties
<1>4. Len(b) = k
  BY <1>1, <1>3
<1>5. ASSUME NEW i \in 1..k PROVE b[i] = seq[i]
  <2>1. i \in 1..k - 1 + 1 /\ 1 + i - 1 = i
    BY <1>1
  <2> QED
    BY <1>3, <2>1
<1> QED
  BY <1>3, <1>4, <1>5

\* The array of the old lines: a section that fits is written over them.
LEMMA ArrayLines ==
  ASSUME NEW U, NEW lines \in Seq(U), NEW section \in Seq(U), NEW h \in 0..Len(lines),
         NEW array, array = AppendedInPlace(lines, h, section)
  PROVE  /\ array \in Seq(U) /\ Len(array) = Len(lines)
         /\ \A i \in 1..Len(lines) : i > h + Len(section) => array[i] = lines[i]
         /\ h + Len(section) <= Len(lines) =>
              \A i \in 1..Len(section) : array[h + i] = section[i]
<1> PICK n, m : n = Len(lines) /\ m = Len(section)
  OBVIOUS
<1>1. n \in Nat /\ m \in Nat /\ DOMAIN lines = 1..n /\ \A i \in 1..n : lines[i] \in U
  BY LenProperties
<1>2. \A i \in 1..m : section[i] \in U
  BY LenProperties
<1>3. CASE h + m > n
  <2>1. array = lines
    BY <1>3 DEF AppendedInPlace
  <2> QED
    BY <1>1, <1>3, <2>1
<1>4. CASE h + m <= n
  <2> DEFINE A(i) == IF i \in (h + 1)..(h + m) THEN section[i - h] ELSE lines[i]
  <2>1. array = [i \in 1..n |-> A(i)]
    BY <1>1, <1>4 DEF AppendedInPlace
  <2>2. ASSUME NEW i \in 1..n PROVE A(i) \in U
    <3>1. i \in (h + 1)..(h + m) => i - h \in 1..m
      BY <1>1
    <3> QED
      BY <1>1, <1>2, <3>1
  <2>3. \A i \in 1..n : array[i] = A(i)
    BY <2>1
  <2>4. array \in [1..n -> U]
    BY <2>1, <2>2
  <2>5. array \in Seq(U) /\ Len(array) = n
    BY <1>1, <2>4
  <2>6. ASSUME NEW i \in 1..n, i > h + m PROVE array[i] = lines[i]
    <3>1. i \notin (h + 1)..(h + m)
      BY <1>1, <2>6
    <3> QED
      BY <2>3, <3>1
  <2>7. ASSUME NEW i \in 1..m PROVE array[h + i] = section[i]
    <3>1. h + i \in 1..n /\ h + i \in (h + 1)..(h + m) /\ (h + i) - h = i
      BY <1>1, <1>4
    <3> QED
      BY <2>3, <3>1
  <2> QED
    BY <2>5, <2>6, <2>7
<1> QED
  BY <1>1, <1>3, <1>4

Unmarked(lines) == \A i \in 1..Len(lines) : lines[i] \notin Marker

\* A section that calls one script has six lines.
LEMMA SmallestSection == Len(ScriptPackage(<<Blank>>)) = 6
<1> PICK U, one, s : U = Fixed /\ one = <<Blank>> /\ s = ScriptPackage(one)
  OBVIOUS
<1>1. one \in Seq(U) /\ Len(one) = 1 /\ one[1] = Blank
  BY DEF Fixed
<1>2. \A i \in 1..Len(one) : one[i] \notin Marker
  <2>1. Blank \notin Marker
    BY DEF Marker, Blank, SectionHead, SectionFoot
  <2>2. \A i \in 1..Len(one) : i = 1
    BY <1>1
  <2> QED
    BY <1>1, <2>1, <2>2
<1>3. Len(s) = Len(one) + 5
  BY ONLY <1>1, <1>2, U = Fixed, s = ScriptPackage(one), SectionLines
<1> QED
  BY <1>1, <1>3

\* A regular file: what is in front of the section and behind it has no marker,
\* and there is a first line.
LEMMA RegularShape ==
  ASSUME NEW U, NEW F \in Seq(U), F # <<>>, Regular(F), NEW b, b = Before(F), NEW a, a = After(F)
  PROVE  /\ b \in Seq(U) /\ Len(b) \in Nat /\ Len(b) > 0 /\ b[1] = Shebang /\ Unmarked(b)
         /\ a \in Seq(U) /\ Len(a) \in Nat /\ Unmarked(a)
         /\ HeadAt(F) = Len(b) /\ TailAt(F) \in Nat /\ Len(F) = TailAt(F) + Len(a)
         /\ Len(b) <= Len(F) /\ b = SubSeq(F, 1, Len(b))
         /\ Refusal(F) = "none"
         /\ Len(a) > 0 => Len(b) + 6 <= TailAt(F)
         /\ \A i \in 1..Len(a) : a[i] = F[TailAt(F) + i]
<1> DEFINE heads == Marks(F, SectionHead)
           feet == Marks(F, SectionFoot)
<1> PICK n, H, T : n = Len(F) /\ H = HeadAt(F) /\ T = TailAt(F)
  OBVIOUS
<1>1. n \in Nat /\ n > 0 /\ DOMAIN F = 1..n
  BY EmptySeq, LenProperties
<1>2. /\ heads \in SUBSET (1..n) /\ \A i \in 1..n : i \in heads <=> F[i] = SectionHead
      /\ feet \in SUBSET (1..n) /\ \A i \in 1..n : i \in feet <=> F[i] = SectionFoot
  BY <1>1 DEF Marks
<1>3. Refusal(F) = "none"
  BY DEF Regular
<1>4. F[1] = Shebang /\ ~(Cardinality(heads) > 1) /\ ~(Cardinality(feet) > 1)
  BY <1>3 DEF Refusal
<1>5. \/ heads = {} /\ feet = {}
      \/ heads # {} /\ feet # {} /\ H + 6 <= T
  BY SmallestSection DEF Regular
<1>6. /\ IF heads = {} THEN H = 1 ELSE H = The(heads) - 1
      /\ IF feet = {} THEN T = n ELSE T = The(feet)
  BY DEF HeadAt, TailAt
<1> HIDE DEF heads, feet
<1>7. (\A i, j \in heads : i = j) /\ (\A i, j \in feet : i = j)
  BY <1>1, <1>2, <1>4, MoreThanOne
<1>8. /\ H \in 1..n /\ T \in 1..n
      /\ \A i \in 1..H : F[i] \notin Marker
      /\ \A i \in T + 1..n : F[i] \notin Marker
      /\ T < n => H + 6 <= T
  <2>1. CASE heads = {} /\ feet = {}
    <3>1. H = 1 /\ T = n
      BY <1>6, <2>1
    <3> QED
      BY <1>1, <1>2, <2>1, <3>1 DEF Marker
  <2>2. CASE heads # {} /\ feet # {} /\ H + 6 <= T
    <3>1. PICK hd \in heads : hd = The(heads)
      BY <2>2 DEF The
    <3>2. PICK ft \in feet : ft = The(feet)
      BY <2>2 DEF The
    <3>3. hd \in 1..n /\ ft \in 1..n /\ H = hd - 1 /\ T = ft
      BY <1>2, <1>6, <2>2, <3>1, <3>2
    <3>4. hd # 1
      BY <1>2, <1>4, <3>1, <3>3 DEF SectionHead, Shebang
    <3>5. ASSUME NEW i \in 1..n, F[i] \in Marker PROVE i = hd \/ i = ft
      <4>1. i \in heads \/ i \in feet
        BY <1>2, <3>5 DEF Marker
      <4> QED
        BY <1>7, <3>1, <3>2, <4>1
    <3> QED
      BY <1>1, <2>2, <3>3, <3>4, <3>5
  <2> QED
    BY <1>5, <2>1, <2>2
<1>9. b \in Seq(U) /\ Len(b) = H /\ b = SubSeq(F, 1, H) /\ \A i \in 1..H : b[i] = F[i]
  <2>1. H \in 0..Len(F) /\ b = SubSeq(F, 1, H)
    BY <1>1, <1>8 DEF Before
  <2> QED
    BY ONLY <2>1, F \in Seq(U), StartOf
<1>10. a \in Seq(U) /\ Len(a) \in Nat /\ Len(a) = n - T /\ \A i \in 1..Len(a) : a[i] = F[T + i]
  <2>1. T \in 0..Len(F) /\ a = SubSeq(F, T + 1, Len(F))
    BY <1>1, <1>8 DEF After
  <2>2. a \in Seq(U) /\ Len(a) \in Nat /\ Len(a) = Len(F) - T /\ \A i \in 1..Len(a) : a[i] = F[T + i]
    BY ONLY <2>1, F \in Seq(U), EndOf
  <2> QED
    BY <2>2
<1>11. Unmarked(b)
  BY <1>8, <1>9 DEF Unmarked
<1>12. ASSUME NEW i \in 1..Len(a) PROVE a[i] \notin Marker
  <2>1. T + i \in T + 1..n
    BY <1>1, <1>8, <1>10
  <2> QED
    BY <1>8, <1>10, <2>1
<1>13. b[1] = Shebang /\ Len(b) > 0 /\ Len(b) \in Nat /\ Len(b) <= Len(F)
  BY <1>1, <1>4, <1>8, <1>9
<1>14. Len(F) = T + Len(a) /\ T \in Nat /\ (Len(a) > 0 => Len(b) + 6 <= T)
  BY <1>1, <1>8, <1>9, <1>10
<1>15. H = Len(b) /\ b = SubSeq(F, 1, Len(b))
  BY <1>9
<1>16. Unmarked(a)
  BY <1>12 DEF Unmarked
<1> QED
  BY <1>3, <1>9, <1>10, <1>11, <1>13, <1>14, <1>15, <1>16

Rest(rest, lines, section, h, t) ==
  /\ Len(rest) \in Nat /\ Len(rest) = Len(lines) - t
  /\ \A i \in 1..Len(rest) : t + i > h + Len(section) => rest[i] = lines[t + i]
  /\ \A i \in 1..Len(rest) : \A j \in 1..Len(section) :
       h + Len(section) <= Len(lines) /\ t + i = h + j => rest[i] = section[j]

\* What a written hook has behind its section: the lines of the array that the
\* section was not written over, and the lines of the section that was.
LEMMA RestLines ==
  ASSUME NEW U, NEW lines \in Seq(U), NEW section \in Seq(U),
         NEW h \in 0..Len(lines), NEW t \in 0..Len(lines),
         NEW array, array = AppendedInPlace(lines, h, section),
         NEW rest, rest = SubSeq(array, t + 1, Len(lines))
  PROVE  rest \in Seq(U) /\ Rest(rest, lines, section, h, t)
<1> PICK n, m : n = Len(lines) /\ m = Len(section)
  OBVIOUS
<1>1. n \in Nat /\ m \in Nat /\ h \in 0..n /\ t \in 0..n
  BY LenProperties
<1>2. /\ array \in Seq(U) /\ Len(array) = n
      /\ \A i \in 1..n : i > h + m => array[i] = lines[i]
      /\ h + m <= n => \A i \in 1..m : array[h + i] = section[i]
  <2>1. h \in 0..Len(lines)
    OBVIOUS
  <2>2. /\ array \in Seq(U) /\ Len(array) = Len(lines)
        /\ \A i \in 1..Len(lines) : i > h + Len(section) => array[i] = lines[i]
        /\ h + Len(section) <= Len(lines) =>
             \A i \in 1..Len(section) : array[h + i] = section[i]
    BY ONLY <2>1, lines \in Seq(U), section \in Seq(U),
            array = AppendedInPlace(lines, h, section), ArrayLines
  <2> QED
    BY <2>2
<1>3. rest \in Seq(U) /\ Len(rest) \in Nat /\ Len(rest) = n - t /\ \A i \in 1..n - t : rest[i] = array[t + i]
  <2>1. t \in 0..Len(array) /\ rest = SubSeq(array, t + 1, Len(array))
    BY <1>1, <1>2
  <2>2. /\ rest \in Seq(U) /\ Len(rest) \in Nat /\ Len(rest) = Len(array) - t
        /\ \A i \in 1..Len(rest) : rest[i] = array[t + i]
    <3>1. array \in Seq(U)
      BY <1>2
    <3> QED
      BY ONLY <2>1, <3>1, EndOf
  <2> QED
    BY <1>2, <2>2
<1>4. ASSUME NEW i \in 1..n - t
      PROVE  /\ t + i > h + m => rest[i] = lines[t + i]
             /\ \A j \in 1..m : h + m <= n /\ t + i = h + j => rest[i] = section[j]
  <2>1. t + i \in 1..n
    BY <1>1
  <2>2. t + i > h + m => rest[i] = lines[t + i]
    BY <1>2, <1>3, <2>1
  <2>3. ASSUME NEW j \in 1..m, h + m <= n, t + i = h + j PROVE rest[i] = section[j]
    <3>1. array[h + j] = section[j]
      BY <1>2, <2>3
    <3> QED
      BY <1>3, <2>3, <3>1
  <2> QED
    BY <2>2, <2>3
<1> QED
  BY <1>3, <1>4 DEF Rest

\* The first script: what is behind the section is still what it was.
LEMMA FirstUpdate ==
  ASSUME NEW U, Fixed \subseteq U, NEW F \in Seq(U), F # <<>>, Regular(F),
         NEW scripts \in Seq(U), Len(scripts) = 1, Unmarked(scripts)
  PROVE  UpdatedScript(F, scripts) = Before(F) \o ScriptPackage(scripts) \o After(F)
<1> PICK b, a, section : b = Before(F) /\ a = After(F) /\ section = ScriptPackage(scripts)
  OBVIOUS
<1>1. /\ b \in Seq(U) /\ Len(b) \in Nat /\ a \in Seq(U) /\ Len(a) \in Nat
      /\ HeadAt(F) = Len(b) /\ TailAt(F) \in Nat /\ Len(F) = TailAt(F) + Len(a)
      /\ Len(b) <= Len(F) /\ b = SubSeq(F, 1, Len(b))
      /\ Len(a) > 0 => Len(b) + 6 <= TailAt(F)
      /\ \A i \in 1..Len(a) : a[i] = F[TailAt(F) + i]
  BY RegularShape
<1>2. section \in Seq(U) /\ Len(section) = 6
  <2>1. section \in Seq(U) /\ Len(section) = Len(scripts) + 5
    BY SectionLines DEF Unmarked
  <2> QED
    BY <2>1
<1> PICK h, t, n, l : h = HeadAt(F) /\ t = TailAt(F) /\ n = Len(F) /\ l = Len(a)
  OBVIOUS
<1>3. h \in 0..n /\ t \in 0..n /\ l = n - t
  <2>1. h \in Nat /\ t \in Nat /\ l \in Nat /\ n = t + l /\ h <= n
    BY <1>1
  <2> QED
    BY ONLY <2>1
<1>4. \A i \in 1..l : a[i] = F[t + i] /\ t + i > h + Len(section)
  <2>1. h \in Nat /\ t \in Nat /\ l \in Nat /\ (l > 0 => h + 6 <= t) /\ \A i \in 1..l : a[i] = F[t + i]
    BY <1>1
  <2> QED
    BY ONLY <2>1, <1>2
<1> PICK array, rest : array = AppendedInPlace(F, h, section) /\ rest = SubSeq(array, t + 1, Len(F))
  OBVIOUS
<1>5. rest \in Seq(U) /\ Rest(rest, F, section, h, t)
  <2>1. h \in 0..Len(F) /\ t \in 0..Len(F) /\ section \in Seq(U)
    BY <1>2, <1>3
  <2> QED
    BY ONLY <2>1, F \in Seq(U), array = AppendedInPlace(F, h, section),
            rest = SubSeq(array, t + 1, Len(F)), RestLines
<1>6. Len(rest) = Len(a) /\ \A i \in 1..Len(rest) : rest[i] = a[i]
  BY <1>3, <1>4, <1>5 DEF Rest
<1>7. rest = a
  BY <1>1, <1>5, <1>6, SeqEqual
<1>8. UpdatedScript(F, scripts) = SubSeq(F, 1, h) \o section \o rest
  BY DEF UpdatedScript
<1> QED
  BY <1>1, <1>7, <1>8

Parts(whole, b, scripts, section, c) ==
  /\ Len(b) \in Nat /\ Len(c) \in Nat /\ Len(scripts) \in Nat
  /\ Len(section) = Len(scripts) + 5
  /\ Len(whole) = Len(b) + Len(section) + Len(c) /\ whole # <<>>
  /\ SubSeq(whole, 1, Len(b)) = b
  /\ \A i \in 1..Len(c) : whole[Len(b) + Len(section) + i] = c[i]
  /\ section[Len(section)] = SectionFoot
  /\ Unmarked(c) => /\ HeadAt(whole) = Len(b) /\ TailAt(whole) = Len(b) + Len(section)
                    /\ Refusal(whole) = "none"
  /\ Len(c) > 0 /\ c[1] = SectionFoot => Refusal(whole) = "multiple"

\* A hook with a section: its markers are those of the section, and of what is
\* behind it.
LEMMA SectionMarks ==
  ASSUME NEW U, Fixed \subseteq U, NEW b \in Seq(U), NEW c \in Seq(U), NEW scripts \in Seq(U),
         Len(b) > 0, b[1] = Shebang, Unmarked(b), Unmarked(scripts),
         NEW section, section = ScriptPackage(scripts), NEW whole, whole = b \o section \o c
  PROVE  whole \in Seq(U) /\ section \in Seq(U) /\ Parts(whole, b, scripts, section, c)
<1> PICK n, m, k, l : n = Len(whole) /\ m = Len(b) /\ k = Len(section) /\ l = Len(c)
  OBVIOUS
<1>1. /\ section \in Seq(U) /\ Len(scripts) \in Nat /\ k = Len(scripts) + 5
      /\ section[1] = SectionHead /\ section[k] = SectionFoot
      /\ \A i \in 1..k : /\ section[i] = SectionHead => i = 1
                         /\ section[i] = SectionFoot => i = k
  <2>1. /\ section \in Seq(U) /\ Len(scripts) \in Nat /\ Len(section) = Len(scripts) + 5
        /\ section[1] = SectionHead /\ section[Len(scripts) + 5] = SectionFoot
        /\ \A i \in 1..Len(section) : /\ section[i] = SectionHead => i = 1
                                      /\ section[i] = SectionFoot => i = Len(section)
    <3>1. \A i \in 1..Len(scripts) : scripts[i] \notin Marker
      BY DEF Unmarked
    <3> QED
      BY ONLY <3>1, Fixed \subseteq U, scripts \in Seq(U), section = ScriptPackage(scripts),
              SectionLines
  <2> QED
    BY <2>1
<1>2. /\ whole \in Seq(U) /\ m \in Nat /\ k \in Nat /\ l \in Nat /\ n = m + k + l
      /\ \A i \in 1..m : whole[i] = b[i]
      /\ \A i \in 1..k : whole[m + i] = section[i]
      /\ \A i \in 1..l : whole[m + k + i] = c[i]
  <2>1. /\ whole \in Seq(U) /\ Len(b) \in Nat /\ Len(section) \in Nat /\ Len(c) \in Nat
        /\ Len(whole) = Len(b) + Len(section) + Len(c)
        /\ \A i \in 1..Len(b) : whole[i] = b[i]
        /\ \A i \in 1..Len(section) : whole[Len(b) + i] = section[i]
        /\ \A i \in 1..Len(c) : whole[Len(b) + Len(section) + i] = c[i]
    BY ONLY <1>1, b \in Seq(U), c \in Seq(U), whole = b \o section \o c, Pieces
  <2> QED
    BY <2>1
<1>3. n > 0 /\ m > 0 /\ DOMAIN whole = 1..n /\ whole # <<>> /\ m <= n
  <2>1. n > 0 /\ m > 0 /\ m <= n
    BY <1>1, <1>2
  <2> QED
    BY <1>2, <2>1, LenProperties, EmptySeq
<1>4. SubSeq(whole, 1, m) = b
  <2> PICK front : front = SubSeq(whole, 1, m)
    OBVIOUS
  <2>1. m \in 0..Len(whole)
    BY <1>2, <1>3
  <2>2. front \in Seq(U) /\ Len(front) = m /\ \A i \in 1..m : front[i] = whole[i]
    BY ONLY <1>2, <2>1, front = SubSeq(whole, 1, m), StartOf
  <2>3. Len(front) = Len(b) /\ \A i \in 1..Len(front) : front[i] = b[i]
    BY <1>2, <2>2
  <2> QED
    BY <2>2, <2>3, SeqEqual
<1>5. whole[1] = Shebang
  BY <1>2, <1>3
<1>6. whole[m + 1] = SectionHead /\ whole[m + k] = SectionFoot /\ m + 1 \in 1..n /\ m + k \in 1..n
  <2>1. 1 \in 1..k /\ k \in 1..k
    BY <1>1, <1>2
  <2>2. m + 1 \in 1..n /\ m + k \in 1..n
    BY ONLY <1>2, <2>1
  <2> QED
    BY ONLY <1>1, <1>2, <2>1, <2>2
<1>7. ASSUME Unmarked(c), NEW i \in 1..n
      PROVE  (whole[i] = SectionHead => i = m + 1) /\ (whole[i] = SectionFoot => i = m + k)
  <2>1. CASE i \in 1..m
    BY <1>2, <2>1 DEF Unmarked, Marker
  <2>2. CASE i - m \in 1..k
    <3>1. m + (i - m) = i
      BY <1>2
    <3>2. whole[i] = section[i - m]
      BY <1>2, <2>2, <3>1
    <3>3. i - m = 1 => i = m + 1
      BY <1>2
    <3>4. i - m = k => i = m + k
      BY <1>2
    <3> QED
      BY <1>1, <2>2, <3>2, <3>3, <3>4
  <2>3. CASE i - (m + k) \in 1..l
    <3>1. m + k + (i - (m + k)) = i
      BY <1>2
    <3>2. whole[i] = c[i - (m + k)]
      BY <1>2, <2>3, <3>1
    <3> QED
      BY <1>7, <2>3, <3>2 DEF Unmarked, Marker
  <2>4. i \in 1..m \/ i - m \in 1..k \/ i - (m + k) \in 1..l
    BY ONLY <1>2, i \in 1..n
  <2> QED
    BY <2>1, <2>2, <2>3, <2>4
<1>8. ASSUME Unmarked(c)
      PROVE  HeadAt(whole) = m /\ TailAt(whole) = m + k /\ Refusal(whole) = "none"
  <2>1. Marks(whole, SectionHead) = {m + 1} /\ Marks(whole, SectionFoot) = {m + k}
    BY <1>3, <1>6, <1>7, <1>8 DEF Marks
  <2>2. HeadAt(whole) = m
    BY <1>2, <2>1 DEF HeadAt, The
  <2>3. TailAt(whole) = m + k
    BY <1>2, <2>1 DEF TailAt, The
  <2>4. Cardinality({m + 1}) = 1 /\ Cardinality({m + k}) = 1
    BY FS_Singleton
  <2> QED
    BY <1>5, <2>1, <2>2, <2>3, <2>4 DEF Refusal
<1>9. ASSUME l > 0, c[1] = SectionFoot PROVE Refusal(whole) = "multiple"
  <2> DEFINE feet == Marks(whole, SectionFoot)
  <2>1. m + k + 1 \in 1..n /\ whole[m + k + 1] = SectionFoot /\ m + k # m + k + 1
    BY <1>2, <1>9
  <2>2. feet \in SUBSET (1..n) /\ m + k \in feet /\ m + k + 1 \in feet
    BY <1>3, <1>6, <2>1 DEF Marks
  <2>3. n \in Nat
    BY <1>2
  <2> HIDE DEF feet
  <2>4. Cardinality(feet) > 1
    BY <2>1, <2>2, <2>3, MoreThanOne
  <2> QED
    BY <1>5, <2>4 DEF Refusal, feet
<1> QED
  BY <1>1, <1>2, <1>3, <1>4, <1>8, <1>9 DEF Parts

\* One script more: the section grows by a line, over the first line behind it.
Grown(c) == IF c = <<>> THEN c ELSE <<SectionFoot>> \o Tail(c)

LEMMA NextUpdate ==
  ASSUME NEW U, Fixed \subseteq U, NEW b \in Seq(U), NEW c \in Seq(U), NEW old \in Seq(U),
         NEW new \in Seq(U), Len(b) > 0, b[1] = Shebang, Unmarked(b), Unmarked(c),
         Unmarked(old), Unmarked(new), Len(new) = Len(old) + 1,
         NEW whole, whole = b \o ScriptPackage(old) \o c
  PROVE  UpdatedScript(whole, new) = b \o ScriptPackage(new) \o Grown(c)
<1> PICK before, section : before = ScriptPackage(old) /\ section = ScriptPackage(new)
  OBVIOUS
<1>1. /\ whole \in Seq(U) /\ Len(before) = Len(old) + 5
      /\ Len(b) \in Nat /\ Len(c) \in Nat /\ Len(old) \in Nat
      /\ Len(whole) = Len(b) + Len(before) + Len(c)
      /\ SubSeq(whole, 1, Len(b)) = b
      /\ \A i \in 1..Len(c) : whole[Len(b) + Len(before) + i] = c[i]
      /\ HeadAt(whole) = Len(b) /\ TailAt(whole) = Len(b) + Len(before)
  <2>1. whole = b \o before \o c
    OBVIOUS
  <2>2. whole \in Seq(U) /\ Parts(whole, b, old, before, c)
    BY ONLY <2>1, Fixed \subseteq U, b \in Seq(U), c \in Seq(U), old \in Seq(U), Len(b) > 0,
            b[1] = Shebang, Unmarked(b), Unmarked(old), before = ScriptPackage(old), SectionMarks
  <2> QED
    BY ONLY <2>2, Unmarked(c) DEF Parts
<1>2. section \in Seq(U) /\ Len(section) = Len(old) + 6 /\ section[Len(old) + 6] = SectionFoot
  <2>1. \A i \in 1..Len(new) : new[i] \notin Marker
    BY DEF Unmarked
  <2>2. section \in Seq(U) /\ Len(section) = Len(new) + 5 /\ section[Len(new) + 5] = SectionFoot
    BY ONLY <2>1, Fixed \subseteq U, new \in Seq(U), section = ScriptPackage(new), SectionLines
  <2>3. Len(new) + 5 = Len(old) + 6
    BY <1>1
  <2> QED
    BY <2>2, <2>3
<1> PICK h, t, n, k, l : /\ h = Len(b) /\ t = Len(b) + Len(before) /\ n = Len(whole)
                         /\ k = Len(old) /\ l = Len(c)
  OBVIOUS
<1>3. h \in Nat /\ k \in Nat /\ l \in Nat /\ t = h + k + 5 /\ n = t + l /\ h \in 0..n /\ t \in 0..n
  <2>1. h \in Nat /\ k \in Nat /\ l \in Nat /\ t = h + (k + 5) /\ n = t + l
    BY <1>1
  <2> QED
    BY ONLY <2>1
<1> PICK array, rest : array = AppendedInPlace(whole, h, section) /\ rest = SubSeq(array, t + 1, Len(whole))
  OBVIOUS
<1>4. rest \in Seq(U) /\ Rest(rest, whole, section, h, t)
  <2>1. h \in 0..Len(whole) /\ t \in 0..Len(whole)
    BY <1>3
  <2> QED
    BY ONLY <1>1, <1>2, <2>1, array = AppendedInPlace(whole, h, section),
            rest = SubSeq(array, t + 1, Len(whole)), RestLines
<1>5. Len(rest) = l
  <2>1. Len(rest) = n - t
    BY <1>4 DEF Rest
  <2> QED
    BY <1>3, <2>1
<1>6. UpdatedScript(whole, new) = b \o section \o rest
  <2>1. HeadAt(whole) = h /\ TailAt(whole) = t /\ SubSeq(whole, 1, h) = b
    BY <1>1
  <2> QED
    BY <2>1 DEF UpdatedScript
<1>7. CASE c = <<>>
  <2>1. l = 0
    BY <1>7
  <2>2. rest = <<>>
    BY <1>4, <1>5, <2>1
  <2> QED
    BY <1>6, <1>7, <2>2 DEF Grown
<1>8. CASE c # <<>>
  <2> PICK tail, more : tail = Tail(c) /\ more = <<SectionFoot>> \o tail
    OBVIOUS
  <2>1. l > 0 /\ tail \in Seq(U) /\ Len(tail) = l - 1 /\ \A i \in 1..l - 1 : tail[i] = c[i + 1]
    <3>1. tail \in Seq(U) /\ Len(tail) = Len(c) - 1 /\ \A i \in 1..Len(tail) : tail[i] = c[i + 1]
      BY <1>8, HeadTailProperties
    <3>2. Len(c) > 0
      BY <1>8, EmptySeq
    <3> QED
      BY <3>1, <3>2
  <2>2. more \in Seq(U) /\ Len(more) = l /\ more[1] = SectionFoot /\ \A i \in 2..l : more[i] = c[i]
    <3> PICK one : one = <<SectionFoot>>
      OBVIOUS
    <3>1. one \in Seq(U) /\ Len(one) = 1 /\ one[1] = SectionFoot
      BY DEF Fixed
    <3>2. /\ more \in Seq(U) /\ Len(more) = Len(one) + Len(tail)
          /\ \A i \in 1..Len(one) + Len(tail) :
               more[i] = IF i <= Len(one) THEN one[i] ELSE tail[i - Len(one)]
      BY <2>1, <3>1, ConcatProperties
    <3>3. Len(more) = l /\ \A i \in 1..l : more[i] = IF i <= 1 THEN one[i] ELSE tail[i - 1]
      BY <1>3, <2>1, <3>1, <3>2
    <3>4. ASSUME NEW i \in 2..l PROVE more[i] = c[i]
      <4>1. i \in 1..l /\ ~(i <= 1) /\ i - 1 \in 1..l - 1 /\ (i - 1) + 1 = i
        BY <1>3
      <4>2. tail[i - 1] = c[(i - 1) + 1]
        BY <2>1, <4>1
      <4> QED
        BY <3>3, <4>1, <4>2
    <3>5. more[1] = SectionFoot
      BY <1>3, <2>1, <3>1, <3>3
    <3> QED
      BY <3>2, <3>3, <3>4, <3>5
  <2>3. rest[1] = SectionFoot
    <3>1. Len(section) = k + 6 /\ Len(whole) = n /\ Len(rest) = l
      BY <1>2, <1>5
    <3>2. 1 \in 1..l /\ k + 6 \in 1..k + 6 /\ h + (k + 6) <= n /\ t + 1 = h + (k + 6)
      <4>1. l > 0
        BY <2>1
      <4> QED
        BY ONLY <1>3, <4>1
    <3>3. rest[1] = section[k + 6]
      <4>1. /\ 1 \in 1..Len(rest) /\ k + 6 \in 1..Len(section)
            /\ h + Len(section) <= Len(whole) /\ t + 1 = h + (k + 6)
        BY ONLY <3>1, <3>2
      <4> QED
        BY ONLY <1>4, <4>1 DEF Rest
    <3> QED
      BY <1>2, <3>3
  <2>4. ASSUME NEW i \in 2..l PROVE rest[i] = c[i]
    <3>1. i \in 1..Len(rest) /\ t + i > h + Len(section) /\ i \in 1..l
      BY <1>2, <1>3, <1>5
    <3>2. rest[i] = whole[t + i]
      BY <1>4, <3>1 DEF Rest
    <3>3. whole[t + i] = c[i]
      BY <1>1, <3>1
    <3> QED
      BY <3>2, <3>3
  <2>5. \A i \in 1..l : i = 1 \/ i \in 2..l
    BY <1>3
  <2>6. rest = more
    <3>1. Len(rest) = Len(more) /\ \A i \in 1..Len(rest) : rest[i] = more[i]
      BY ONLY <1>5, <2>2, <2>3, <2>4, <2>5
    <3> QED
      BY ONLY <1>4, <2>2, <3>1, SeqEqual
  <2> QED
    BY <1>6, <1>8, <2>6 DEF Grown
<1> QED
  BY <1>7, <1>8

-----------------------------------------------------------------------------
(* A hook while Autogen goes over it.                                      *)

Upto(h, k) == SubSeq(ScriptsOf[h], 1, k)
Behind(h, k) ==
  IF k = 2 /\ After(Found(h)) # <<>> THEN <<SectionFoot>> \o Tail(After(Found(h))) ELSE After(Found(h))

\* The hook with its first k scripts, and what is known when it is written.
Stage(h, k) == Before(Found(h)) \o ScriptPackage(Upto(h, k)) \o Behind(h, k)
SoFar(h, k, lines) ==
  Regular(Found(h)) => (After(Found(h)) # <<>> => k <= 2) /\ lines = Stage(h, k)

OriginalInv == DOMAIN original = Range(Hooks) /\ \A h \in Range(Hooks) : IsSeq(original[h])

\* All lines that a hook may have.
LinesOf(h) == Range(Found(h)) \cup Fixed \cup Range(ScriptsOf[h])

LEMMA FoundLines ==
  ASSUME OriginalInv, NEW h \in Range(Hooks)
  PROVE  Found(h) \in Seq(LinesOf(h)) /\ Found(h) # <<>>
<1> PICK U, F : U = LinesOf(h) /\ F = Found(h)
  OBVIOUS
<1>1. F \in Seq(Range(F)) /\ F # <<>>
  <2>1. CASE original[h] = NoFile
    <3>1. F = <<Shebang, Blank>>
      BY <2>1 DEF Found
    <3> PICK S : S = {Shebang, Blank}
      OBVIOUS
    <3>2. F \in Seq(S) /\ F # <<>>
      BY ONLY <3>1, S = {Shebang, Blank}
    <3>3. IsSeq(F)
      BY ONLY <3>2, OwnElements
    <3> QED
      BY <3>2, <3>3 DEF IsSeq
  <2>2. CASE original[h] # NoFile
    BY <2>2 DEF Found, OriginalInv, IsSeq, NoFile
  <2> QED
    BY <2>1, <2>2
<1>2. Range(F) \subseteq U
  BY DEF LinesOf
<1> QED
  BY <1>1, <1>2, SeqMonotonic

\* The scripts up to one of them.
LEMMA UptoLines ==
  ASSUME NEW h \in Range(Hooks), NEW k \in 0..Len(ScriptsOf[h])
  PROVE  Upto(h, k) \in Seq(LinesOf(h)) /\ Len(Upto(h, k)) = k /\ Unmarked(Upto(h, k))
<1> PICK U, all, some : U = LinesOf(h) /\ all = ScriptsOf[h] /\ some = Upto(h, k)
  OBVIOUS
<1>1. all \in Seq(Range(all)) /\ Len(all) \in Nat
  BY HookNames
<1>2. all \in Seq(U) /\ Range(all) \subseteq U
  BY <1>1, SeqMonotonic DEF LinesOf
<1>3. some = SubSeq(all, 1, k) /\ k \in 0..Len(all)
  BY DEF Upto
<1>4. some \in Seq(U) /\ Len(some) = k /\ \A i \in 1..k : some[i] = all[i]
  BY ONLY <1>2, <1>3, StartOf
<1>5. Marker \cap Range(all) = {}
  BY HooksAssumption DEF Marker
<1>6. ASSUME NEW i \in 1..Len(some) PROVE some[i] \notin Marker
  <2>1. i \in 1..k /\ i \in DOMAIN all /\ some[i] = all[i]
    BY <1>1, <1>4
  <2> QED
    BY <1>5, <2>1 DEF Range
<1> QED
  BY <1>4, <1>6 DEF Unmarked

\* A regular hook with its first script.
LEMMA StageFirst ==
  ASSUME OriginalInv, NEW h \in Range(Hooks), Regular(Found(h)), Len(ScriptsOf[h]) > 0
  PROVE  Refusal(Found(h)) = "none" /\ UpdatedScript(Found(h), Upto(h, 1)) = Stage(h, 1)
<1> PICK U, F, scripts : U = LinesOf(h) /\ F = Found(h) /\ scripts = Upto(h, 1)
  OBVIOUS
<1>1. Fixed \subseteq U /\ F \in Seq(U) /\ F # <<>> /\ Regular(F)
  BY FoundLines DEF LinesOf
<1>2. scripts \in Seq(U) /\ Len(scripts) = 1 /\ Unmarked(scripts)
  <2>1. 1 \in 0..Len(ScriptsOf[h])
    BY HookNames
  <2> QED
    BY <2>1, UptoLines
<1>3. UpdatedScript(F, scripts) = Before(F) \o ScriptPackage(scripts) \o After(F)
  BY ONLY <1>1, <1>2, FirstUpdate
<1>4. Behind(h, 1) = After(F)
  BY DEF Behind
<1> QED
  BY <1>3, <1>4 DEF Stage, Regular

\* A regular hook with some scripts, and one more: when there is something behind
\* the section, the third script finds two feet.
LEMMA StageNext ==
  ASSUME OriginalInv, NEW h \in Range(Hooks), Regular(Found(h)),
         NEW k \in 1..Len(ScriptsOf[h]), After(Found(h)) # <<>> => k <= 2
  PROVE  /\ Stage(h, k) # <<>>
         /\ IF k = 2 /\ After(Found(h)) # <<>> THEN Refusal(Stage(h, k)) = "multiple"
            ELSE /\ Refusal(Stage(h, k)) = "none"
                 /\ k < Len(ScriptsOf[h]) => UpdatedScript(Stage(h, k), Upto(h, k + 1)) = Stage(h, k + 1)
<1> PICK U, F, old, new, b, a, c, section, whole :
      /\ U = LinesOf(h) /\ F = Found(h) /\ old = Upto(h, k) /\ new = Upto(h, k + 1)
      /\ b = Before(F) /\ a = After(F) /\ c = Behind(h, k)
      /\ section = ScriptPackage(old) /\ whole = Stage(h, k)
  OBVIOUS
<1>1. Fixed \subseteq U /\ F \in Seq(U) /\ F # <<>> /\ Regular(F)
  BY FoundLines DEF LinesOf
<1>2. /\ b \in Seq(U) /\ Len(b) > 0 /\ b[1] = Shebang /\ Unmarked(b)
      /\ a \in Seq(U) /\ Unmarked(a)
  BY ONLY <1>1, b = Before(F), a = After(F), RegularShape
<1>3. old \in Seq(U) /\ Len(old) = k /\ Unmarked(old) /\ k \in Nat
  <2>1. k \in 0..Len(ScriptsOf[h]) /\ k \in Nat
    BY HookNames
  <2> QED
    BY <2>1, UptoLines
<1>4. whole = b \o section \o c
  BY DEF Stage
<1>5. CASE k = 2 /\ a # <<>>
  <2> PICK one, tail : one = <<SectionFoot>> /\ tail = Tail(a)
    OBVIOUS
  <2>1. one \in Seq(U) /\ Len(one) = 1 /\ one[1] = SectionFoot /\ tail \in Seq(U) /\ Len(tail) \in Nat
    BY <1>1, <1>2, <1>5, HeadTailProperties, LenProperties DEF Fixed
  <2>2. c = one \o tail
    BY <1>5 DEF Behind
  <2>3. c \in Seq(U) /\ Len(c) > 0 /\ c[1] = SectionFoot
    <3>1. /\ c \in Seq(U) /\ Len(c) = Len(one) + Len(tail)
          /\ \A i \in 1..Len(one) + Len(tail) : c[i] = IF i <= Len(one) THEN one[i] ELSE tail[i - Len(one)]
      BY ONLY <2>1, <2>2, ConcatProperties
    <3> QED
      BY ONLY <2>1, <3>1
  <2>4. Parts(whole, b, old, section, c)
    BY ONLY <1>1, <1>2, <1>3, <1>4, <2>3, section = ScriptPackage(old), SectionMarks
  <2>5. Refusal(whole) = "multiple" /\ whole # <<>>
    BY ONLY <2>3, <2>4 DEF Parts
  <2> QED
    BY <1>5, <2>5
<1>6. CASE ~(k = 2 /\ a # <<>>)
  <2>1. c = a
    BY <1>6 DEF Behind
  <2>2. Parts(whole, b, old, section, c)
    BY ONLY <1>1, <1>2, <1>3, <1>4, <2>1, section = ScriptPackage(old), SectionMarks
  <2>3. Refusal(whole) = "none" /\ whole # <<>>
    BY ONLY <1>2, <2>1, <2>2 DEF Parts
  <2>4. ASSUME k < Len(ScriptsOf[h]) PROVE UpdatedScript(whole, new) = Stage(h, k + 1)
    <3>1. new \in Seq(U) /\ Len(new) = Len(old) + 1 /\ Unmarked(new)
      <4>1. k + 1 \in 0..Len(ScriptsOf[h])
        BY <1>3, <2>4, HookNames
      <4> QED
        BY <1>3, <4>1, UptoLines
    <3>2. whole = b \o ScriptPackage(old) \o c
      BY <1>4
    <3>3. UpdatedScript(whole, new) = b \o ScriptPackage(new) \o Grown(c)
      <4>1. /\ Fixed \subseteq U /\ b \in Seq(U) /\ c \in Seq(U) /\ old \in Seq(U) /\ new \in Seq(U)
            /\ Len(b) > 0 /\ b[1] = Shebang /\ Unmarked(b) /\ Unmarked(c)
            /\ Unmarked(old) /\ Unmarked(new) /\ Len(new) = Len(old) + 1
        BY <1>1, <1>2, <1>3, <2>1, <3>1
      <4> QED
        BY ONLY <3>2, <4>1, NextUpdate
    <3>4. Grown(c) = Behind(h, k + 1)
      <4>1. CASE a = <<>>
        BY <2>1, <4>1 DEF Grown, Behind
      <4>2. CASE a # <<>>
        <5>1. k = 1
          BY <1>3, <1>6, <4>2
        <5>2. k + 1 = 2
          BY <5>1
        <5> QED
          BY <2>1, <4>2, <5>2 DEF Grown, Behind
      <4> QED
        BY <4>1, <4>2
    <3> QED
      BY <3>3, <3>4 DEF Stage
  <2> QED
    BY <1>6, <2>3, <2>4
<1> QED
  BY <1>5, <1>6

\* Behind the loop, a regular hook has all of its scripts, and at it those that
\* were added so far; a regular hook is refused only at its third script.
OutcomeInv ==
  /\ OriginalInv
  /\ pc = "idle" => hook = 1
  /\ pc \in {"read", "write", "fill"} =>
       \A i \in DOMAIN Hooks : i > hook \/ (i = hook /\ script = 0) =>
         files[Hooks[i]] = original[Hooks[i]]
  /\ \A i \in 1..hook - 1 :
       Len(ScriptsOf[Hooks[i]]) > 0 => SoFar(Hooks[i], Len(ScriptsOf[Hooks[i]]), files[Hooks[i]])
  /\ pc = "read" /\ hook \in DOMAIN Hooks /\ script > 0 => SoFar(name, script, files[name])
  /\ pc \in {"write", "fill"} => script > 0 /\ SoFar(name, script, updated)
  /\ pc \in {"format", "multiple"} =>
       hook \in DOMAIN Hooks /\ (Regular(Found(name)) => After(Found(name)) # <<>> /\ Len(ScriptsOf[name]) > 2)

LEMMA InitOutcomeInv == Init => OutcomeInv
<1> SUFFICES ASSUME Init PROVE OutcomeInv
  OBVIOUS
<1>1. /\ files \in Originals /\ pc = "idle" /\ hook = 1 /\ original = files
  BY DEF Init, AutogenInit
<1>2. OriginalInv
  BY <1>1, HooksAssumption DEF OriginalInv
<1> QED
  BY <1>1, <1>2 DEF OutcomeInv

\* The step that reads a hook and adds a script to it.
LEMMA AddedScript ==
  ASSUME AutogenInv, OutcomeInv, AddScript, Regular(Found(name))
  PROVE  IF Refusal(ReadHook(name)) = "none"
         THEN SoFar(name, script + 1, UpdatedScript(ReadHook(name), Upto(name, script + 1)))
         ELSE After(Found(name)) # <<>> /\ Len(ScriptsOf[name]) > 2
<1> PICK h, k, lines, n : h = name /\ k = script /\ lines = ReadHook(name) /\ n = Len(ScriptsOf[h])
  OBVIOUS
<1>1. /\ pc = "read" /\ hook \in DOMAIN Hooks /\ k < n /\ k \in Nat /\ n \in Nat /\ h \in Range(Hooks)
      /\ OriginalInv /\ Regular(Found(h))
  BY HookNames DEF AddScript, AutogenInv, OutcomeInv, name
<1>2. CASE k = 0
  <2>1. lines = Found(h)
    BY <1>1, <1>2 DEF OutcomeInv, ReadHook, Found, name
  <2>2. Refusal(Found(h)) = "none" /\ UpdatedScript(Found(h), Upto(h, 1)) = Stage(h, 1)
    BY <1>1, <1>2, StageFirst
  <2>3. SoFar(h, 1, Stage(h, 1))
    BY DEF SoFar
  <2> QED
    BY <1>2, <2>1, <2>2, <2>3
<1>3. CASE k > 0
  <2>1. SoFar(h, k, files[h])
    BY <1>1, <1>3 DEF OutcomeInv
  <2>2. files[h] = Stage(h, k) /\ (After(Found(h)) # <<>> => k <= 2)
    BY <1>1, <2>1 DEF SoFar
  <2>3. k \in 1..Len(ScriptsOf[h])
    BY <1>1, <1>3
  <2>4. /\ Stage(h, k) # <<>>
        /\ IF k = 2 /\ After(Found(h)) # <<>> THEN Refusal(Stage(h, k)) = "multiple"
           ELSE /\ Refusal(Stage(h, k)) = "none"
                /\ k < Len(ScriptsOf[h]) => UpdatedScript(Stage(h, k), Upto(h, k + 1)) = Stage(h, k + 1)
    BY <1>1, <2>2, <2>3, StageNext
  <2>5. lines = Stage(h, k)
    BY <2>2, <2>4 DEF ReadHook, NoFile
  <2>6. CASE k = 2 /\ After(Found(h)) # <<>>
    BY <1>1, <2>4, <2>5, <2>6
  <2>7. CASE ~(k = 2 /\ After(Found(h)) # <<>>)
    <3>1. Refusal(lines) = "none" /\ UpdatedScript(lines, Upto(h, k + 1)) = Stage(h, k + 1)
      BY <1>1, <2>4, <2>5, <2>7
    <3>2. After(Found(h)) # <<>> => k + 1 <= 2
      BY <1>1, <2>2, <2>7
    <3> QED
      BY <3>1, <3>2 DEF SoFar
  <2> QED
    BY <2>6, <2>7
<1> QED
  BY <1>1, <1>2, <1>3

\* What the original files say does not change while Autogen goes over them.
LEMMA SameOriginal ==
  ASSUME original' = original
  PROVE  /\ OriginalInv' = OriginalInv
         /\ \A h : Found(h)' = Found(h)
         /\ \A h, k, lines : SoFar(h, k, lines)' = SoFar(h, k, lines)
BY DEF OriginalInv, Found, SoFar, Stage, Behind

LEMMA OutcomeInvStep ==
  ASSUME AutogenInv, OutcomeInv, AutogenNext
  PROVE  OutcomeInv'
<1> USE DEF OutcomeInv
<1>0. /\ hook \in 1..Len(Hooks) + 1 /\ Len(Hooks) \in Nat /\ DOMAIN Hooks = 1..Len(Hooks)
      /\ hook \in DOMAIN Hooks => name \in Range(Hooks)
      /\ \A i \in 1..hook - 1 : i \in DOMAIN Hooks /\ i # hook
      /\ \A i \in DOMAIN Hooks : i > hook => i # hook
      /\ DOMAIN files = Range(Hooks) /\ script \in Nat
  BY HookNames DEF name, AutogenInv, FilesInv
<1>1. CASE Autogen
  <2>1. pc' = "read" /\ hook' = 1 /\ script' = 0 /\ original' = files /\ files' = files
    BY <1>1 DEF Autogen
  <2>2. OriginalInv'
    BY <2>1 DEF OriginalInv, AutogenInv, FilesInv, IsSeq
  <2>3. 1..hook' - 1 = {} /\ ~(script' > 0)
    BY <2>1
  <2> QED
    BY <2>1, <2>2, <2>3
<1> SUFFICES ASSUME original' = original PROVE OutcomeInv'
  BY <1>1 DEF AutogenNext, AddScript, OpenHook, WriteHook, WriteFails, Interrupt, NextHook, AutogenReturns
<1>2. /\ OriginalInv' /\ (\A h : Found(h)' = Found(h))
      /\ \A h, k, lines : SoFar(h, k, lines)' = SoFar(h, k, lines)
  BY SameOriginal
<1>3. CASE AddScript
  <2>1. /\ pc = "read" /\ hook \in DOMAIN Hooks /\ script' = script + 1
        /\ UNCHANGED <<files, hook>> /\ name' = name
    BY <1>3 DEF AddScript, name
  <2>2. CASE Refusal(ReadHook(name)) = "none"
    <3>1. pc' = "write" /\ updated' = UpdatedScript(ReadHook(name), Upto(name, script + 1))
      BY <1>3, <2>2 DEF AddScript, Upto
    <3>2. SoFar(name, script', updated')
      BY <1>3, <2>1, <2>2, <3>1, AddedScript DEF SoFar
    <3>3. script' > 0
      BY <1>0, <2>1
    <3> QED
      BY <1>0, <1>2, <2>1, <3>1, <3>2, <3>3
  <2>3. CASE Refusal(ReadHook(name)) # "none"
    <3>1. pc' \in {"format", "multiple"}
      BY <1>3, <2>3 DEF AddScript, Refusal
    <3>2. Regular(Found(name)) => After(Found(name)) # <<>> /\ Len(ScriptsOf[name]) > 2
      BY <1>3, <2>3, AddedScript
    <3> QED
      BY <1>0, <1>2, <2>1, <3>1, <3>2
  <2> QED
    BY <2>2, <2>3
<1>4. CASE OpenHook \/ WriteHook
  <2> PICK lines : files' = [files EXCEPT ![name] = lines]
    BY <1>4 DEF OpenHook, WriteHook
  <2>1. /\ pc \in {"write", "fill"} /\ pc' \in {"fill", "read"} /\ UNCHANGED <<hook, script>>
        /\ pc' = "fill" => updated' = updated
        /\ pc' = "read" => files' = [files EXCEPT ![name] = updated]
        /\ name' = name /\ hook \in DOMAIN Hooks
    BY <1>4 DEF OpenHook, WriteHook, name, AutogenInv
  <2>2. \A i \in DOMAIN Hooks : i # hook => files'[Hooks[i]] = files[Hooks[i]]
    BY <1>0, <2>1, HookNames DEF name
  <2>3. pc' = "read" => files'[name] = updated
    BY <1>0, <2>1
  <2>4. script > 0 /\ SoFar(name, script, updated) /\ pc # "idle"
    BY <2>1
  <2>5. \A i \in 1..hook - 1 : files'[Hooks[i]] = files[Hooks[i]]
    BY <1>0, <2>2
  <2>6. \A i \in DOMAIN Hooks : i > hook => files'[Hooks[i]] = files[Hooks[i]]
    BY <1>0, <2>2
  <2>7. script # 0
    BY <1>0, <2>4
  <2> QED
    BY <1>2, <2>1, <2>3, <2>4, <2>5, <2>6, <2>7
<1>5. CASE WriteFails \/ Interrupt
  <2>1. pc' = "stopped" /\ UNCHANGED <<files, hook, script>> /\ name' = name
    BY <1>5 DEF WriteFails, Interrupt, name
  <2> QED
    BY <1>2, <2>1
<1>6. CASE NextHook
  <2>1. /\ pc = "read" /\ hook \in DOMAIN Hooks /\ script = Len(ScriptsOf[name])
        /\ hook' = hook + 1 /\ script' = 0 /\ UNCHANGED <<files, pc>>
    BY <1>6 DEF NextHook
  <2>2. \A i \in 1..hook' - 1 : i \in 1..hook - 1 \/ i = hook
    BY <1>0, <2>1
  <2>3. Len(ScriptsOf[Hooks[hook]]) > 0 => SoFar(Hooks[hook], Len(ScriptsOf[Hooks[hook]]), files[Hooks[hook]])
    BY <2>1 DEF name
  <2>4. \A i \in DOMAIN Hooks : i > hook' \/ i = hook' => i > hook
    BY <1>0, <2>1
  <2>5. ~(script' > 0)
    BY <2>1
  <2> QED
    BY <1>2, <2>1, <2>2, <2>3, <2>4, <2>5
<1>7. CASE AutogenReturns
  <2>1. pc = "read" /\ pc' = "done" /\ UNCHANGED <<files, hook, script>> /\ name' = name
    BY <1>7 DEF AutogenReturns, name
  <2> QED
    BY <1>2, <2>1
<1> QED
  BY <1>1, <1>3, <1>4, <1>5, <1>6, <1>7 DEF AutogenNext

LEMMA OutcomeInvStays ==
  ASSUME AutogenInv, OutcomeInv, [Next]_vars
  PROVE  OutcomeInv'
<1>1. CASE AutogenNext
  BY <1>1, OutcomeInvStep
<1>2. CASE UNCHANGED autogenVars
  <2>1. UNCHANGED <<files, pc, hook, script, updated, original>> /\ name' = name
    BY <1>2 DEF autogenVars, name
  <2> QED
    BY <2>1, SameOriginal DEF OutcomeInv
<1> QED
  BY <1>1, <1>2 DEF Next, GitCommit, Hook, RunScript, ScriptFails, Lint, OtherLineFails, Accept, vars

LEMMA OutcomeInvSays ==
  ASSUME AutogenInv, OutcomeInv
  PROVE  OutcomeFollowsFile
<1>1. ASSUME NEW i \in DOMAIN Hooks, Regular(Found(Hooks[i])), Len(ScriptsOf[Hooks[i]]) > 0, hook > i
      PROVE  LET h == Hooks[i]
                 n == Len(ScriptsOf[h])
                 before == Before(Found(h))
                 after == After(Found(h))
             IN  /\ after # <<>> => n <= 2
                 /\ files[h] = before \o ScriptPackage(ScriptsOf[h]) \o
                                IF n = 2 /\ after # <<>> THEN <<SectionFoot>> \o Tail(after) ELSE after
  <2>1. i \in 1..hook - 1 /\ Hooks[i] \in Range(Hooks)
    BY <1>1, HookNames DEF AutogenInv
  <2> PICK h, all, n : h = Hooks[i] /\ all = ScriptsOf[h] /\ n = Len(all)
    OBVIOUS
  <2>2. SoFar(h, n, files[h])
    BY <1>1, <2>1 DEF OutcomeInv
  <2>3. (After(Found(h)) # <<>> => n <= 2) /\ files[h] = Stage(h, n)
    BY <1>1, <2>2 DEF SoFar
  <2>4. Upto(h, n) = all
    <3>1. all \in Seq(Range(all))
      BY <2>1, HookNames
    <3>2. SubSeq(all, 1, Len(all)) = all
      BY <3>1, SubSeqFull
    <3> QED
      BY <3>2 DEF Upto
  <2> QED
    BY <2>3, <2>4 DEF Stage, Behind
<1>2. pc \in {"format", "multiple"} /\ Regular(Found(name)) =>
        After(Found(name)) # <<>> /\ Len(ScriptsOf[name]) > 2
  BY DEF OutcomeInv
<1> QED
  BY <1>1, <1>2 DEF OutcomeFollowsFile

\* Whatever stood in the hooks, and whenever Autogen was stopped or failed: a hook
\* that Autogen has passed and that was regular calls all of its scripts, keeps
\* what is in front of the section, and what is behind it but for the line that the
\* second script has written over; a regular hook is refused at its third script
\* only, and only if something is behind the section.
THEOREM HookIsKept == FairSpec => []OutcomeFollowsFile
<1>1. AutogenInv /\ OutcomeInv /\ [Next]_vars => (AutogenInv /\ OutcomeInv)'
  BY AutogenInvStays, OutcomeInvStays
<1>2. AutogenInv /\ OutcomeInv => OutcomeFollowsFile
  BY OutcomeInvSays
<1> QED
  BY <1>1, <1>2, InitAutogenInv, InitOutcomeInv, PTL DEF FairSpec

=============================================================================
