----------------------------- MODULE HookMerge -----------------------------
(***************************************************************************)
(* Autogen of magefile.go: for every script of every directory of githooks *)
(* the hook of that name in .git/hooks is read, its managed section is     *)
(* replaced by one that calls the scripts up to this one, and the file is  *)
(* written again, in place.                                                *)
(*                                                                         *)
(* A file is the sequence of its lines; no file is empty, because a split  *)
(* at newlines returns at least one line.  The three parts of the new file *)
(* are appended to a slice of the old one's lines, which have room for as  *)
(* many lines as there are: an append that fits writes over the lines that *)
(* the last append has yet to read.  A marker with one space in front of   *)
(* it, and a first line with blanks behind it, stand for what they are.    *)
(***************************************************************************)
EXTENDS Naturals, FiniteSets, SequencesExt

CONSTANTS
  Hooks,      \* the directories of githooks, in their order
  ScriptsOf,  \* the scripts of a directory, in their order
  Originals,  \* the contents of .git/hooks that Autogen may find
  MaxRuns     \* how often Autogen is called

Shebang == "#!/bin/bash"
SectionHead == "## ++ BUILD SYSTEM MANAGED - DO NOT EDIT ++ ##"
SectionFoot == "## -- BUILD SYSTEM MANAGED - DO NOT EDIT -- ##"
Note == "# added by autogen"
Blank == ""
NoFile == <<>>

\* A sequence, of whatever.
IsSeq(s) == s \in Seq(Range(s))

\* A script is called by a line that starts with a quote, which no marker does.
ASSUME HooksAssumption ==
  /\ IsSeq(Hooks) /\ \A h \in Range(Hooks) : IsSeq(ScriptsOf[h])
  /\ \A h \in Range(Hooks) : {SectionHead, SectionFoot} \cap Range(ScriptsOf[h]) = {}
  /\ \A i, j \in DOMAIN Hooks : i # j => Hooks[i] # Hooks[j]
  /\ DOMAIN ScriptsOf = Range(Hooks)
  /\ \A f \in Originals : DOMAIN f = Range(Hooks) /\ \A h \in Range(Hooks) : IsSeq(f[h])
ASSUME RunsAssumption == MaxRuns \in Nat

VARIABLES
  files,      \* .git/hooks, by name
  pc,         \* "idle", where Autogen is, or how it has ended
  hook,       \* the loop over Hooks
  script,     \* how many scripts of the hook are in its section
  updated,    \* the lines to be written
  runs,       \* how often Autogen was called
  original    \* history: files when it was called

autogenVars == <<files, pc, hook, script, updated, runs, original>>

Ended == {"done", "format", "multiple", "stopped"}
name == Hooks[hook]

-----------------------------------------------------------------------------
(* One file and its section.                                               *)

Marks(lines, mark) == {i \in DOMAIN lines : lines[i] = mark}
The(marks) == CHOOSE i \in marks : TRUE

\* How many lines are kept in front of the section: the first, if there is none.
HeadAt(lines) == IF Marks(lines, SectionHead) = {} THEN 1 ELSE The(Marks(lines, SectionHead)) - 1

\* Mutant: the line of the foot itself is kept.
TailAtFoot(lines) ==
  IF Marks(lines, SectionFoot) = {} THEN Len(lines) ELSE The(Marks(lines, SectionFoot)) - 1

\* The last line that is not kept behind it: the last of all, if there is none.
TailAt(lines) == IF Marks(lines, SectionFoot) = {} THEN Len(lines) ELSE The(Marks(lines, SectionFoot))

\* The section: a line that calls each script, here the script itself.
ScriptPackage(scripts) == <<SectionHead, Note, Blank>> \o scripts \o <<Blank, SectionFoot>>

\* The array of the old lines after the section was appended to its first h.
AppendedInPlace(lines, h, section) ==
  IF h + Len(section) > Len(lines) THEN lines
  ELSE [i \in DOMAIN lines |->
          IF i \in (h + 1)..(h + Len(section)) THEN section[i - h] ELSE lines[i]]

UpdatedScript(lines, scripts) ==
  LET h == HeadAt(lines)
      section == ScriptPackage(scripts)
      array == AppendedInPlace(lines, h, section)
  IN  SubSeq(lines, 1, h) \o section \o SubSeq(array, TailAt(lines) + 1, Len(lines))

\* A hook that cannot be read is a new one.
ReadHook(h) == IF files[h] = NoFile THEN <<Shebang, Blank>> ELSE files[h]

-----------------------------------------------------------------------------

AutogenInit ==
  /\ files \in Originals
  /\ pc = "idle" /\ hook = 1 /\ script = 0 /\ updated = NoFile
  /\ runs = 0 /\ original = files

Autogen ==
  /\ pc \in Ended \cup {"idle"} /\ runs < MaxRuns
  /\ pc' = "read" /\ hook' = 1 /\ script' = 0
  /\ runs' = runs + 1 /\ original' = files
  /\ UNCHANGED <<files, updated>>

\* Why a file is refused, if it is.
Refusal(lines) ==
  IF lines[1] # Shebang THEN "format"
  ELSE IF Cardinality(Marks(lines, SectionHead)) > 1 \/ Cardinality(Marks(lines, SectionFoot)) > 1
       THEN "multiple" ELSE "none"

\* The next script: read the hook, and put the section together.
AddScript ==
  /\ pc = "read" /\ hook \in DOMAIN Hooks /\ script < Len(ScriptsOf[name])
  /\ script' = script + 1
  /\ LET lines == ReadHook(name)
     IN  \/ /\ Refusal(lines) = "none"
            /\ updated' = UpdatedScript(lines, SubSeq(ScriptsOf[name], 1, script + 1))
            /\ pc' = "write"
         \/ /\ Refusal(lines) # "none"
            /\ pc' = Refusal(lines)
            /\ UNCHANGED updated
  /\ UNCHANGED <<files, hook, runs, original>>

\* ioutil.WriteFile empties the file when it opens it.
OpenHook ==
  /\ pc = "write"
  /\ files' = [files EXCEPT ![name] = <<Blank>>]
  /\ pc' = "fill"
  /\ UNCHANGED <<hook, script, updated, runs, original>>

WriteHook ==
  /\ pc = "fill"
  /\ files' = [files EXCEPT ![name] = updated]
  /\ pc' = "read" /\ updated' = NoFile
  /\ UNCHANGED <<hook, script, runs, original>>

\* The file cannot be opened, or the disk is full.
WriteFails ==
  /\ pc \in {"write", "fill"}
  /\ pc' = "stopped" /\ updated' = NoFile
  /\ UNCHANGED <<files, hook, script, runs, original>>

\* The developer stops it.
Interrupt ==
  /\ pc \in {"read", "write", "fill"}
  /\ pc' = "stopped" /\ updated' = NoFile
  /\ UNCHANGED <<files, hook, script, runs, original>>

NextHook ==
  /\ pc = "read" /\ hook \in DOMAIN Hooks /\ script = Len(ScriptsOf[name])
  /\ hook' = hook + 1 /\ script' = 0
  /\ UNCHANGED <<files, pc, updated, runs, original>>

AutogenReturns ==
  /\ pc = "read" /\ hook > Len(Hooks)
  /\ pc' = "done"
  /\ UNCHANGED <<files, hook, script, updated, runs, original>>

AutogenNext ==
  \/ Autogen \/ AddScript \/ OpenHook \/ WriteHook \/ WriteFails \/ Interrupt
  \/ NextHook \/ AutogenReturns

-----------------------------------------------------------------------------
(* Properties.                                                             *)

\* A hook as Autogen finds it, and the lines before and behind its section.
Found(h) == IF original[h] = NoFile THEN <<Shebang, Blank>> ELSE original[h]
Before(lines) == SubSeq(lines, 1, HeadAt(lines))
After(lines) == SubSeq(lines, TailAt(lines) + 1, Len(lines))

\* Without a section, or with one that calls at least one script.
Regular(lines) ==
  /\ Refusal(lines) = "none"
  /\ \/ Marks(lines, SectionHead) = {} /\ Marks(lines, SectionFoot) = {}
     \/ /\ Marks(lines, SectionHead) # {} /\ Marks(lines, SectionFoot) # {}
        /\ HeadAt(lines) + Len(ScriptPackage(<<Blank>>)) <= TailAt(lines)

\* What was found decides what is left, over all the times the file is
\* rewritten on the way (magefile.go:944-984).  The section calls all scripts and
\* what is before it stays.  What is behind it stays too if there is one script;
\* with the second the section has grown by a line, and a second foot is written
\* over the first line behind it; with the third this is found and refused.
\* Nothing else is refused but what somebody else has left in that state.
OutcomeFollowsFile ==
  /\ \A i \in DOMAIN Hooks :
       LET h == Hooks[i]
           n == Len(ScriptsOf[h])
           before == Before(Found(h))
           after == After(Found(h))
       IN  Regular(Found(h)) /\ n > 0 /\ runs > 0 /\ hook > i =>
             /\ after # <<>> => n <= 2
             /\ files[h] = before \o ScriptPackage(ScriptsOf[h]) \o
                            IF n = 2 /\ after # <<>> THEN <<SectionFoot>> \o Tail(after) ELSE after
  /\ pc \in {"format", "multiple"} /\ Regular(Found(name)) =>
       After(Found(name)) # <<>> /\ Len(ScriptsOf[name]) > 2

-----------------------------------------------------------------------------
(* What the markers say, and the code does not do.                         *)

\* "BUILD SYSTEM MANAGED - DO NOT EDIT" (magefile.go:66-67) stands around the
\* section: the lines behind it, which are not managed, are kept.
LinesBehindKept ==
  \A h \in Range(Hooks) :
    pc = "done" /\ Regular(Found(h)) => IsSuffix(After(Found(h)), files[h])
=============================================================================
