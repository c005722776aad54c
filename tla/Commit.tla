------------------------------- MODULE Commit -------------------------------
(***************************************************************************)
(* What the managed hooks are for: git runs the pre-commit hook that       *)
(* Autogen has written, at any time, even while Autogen is rewriting it.   *)
(* Each script that the hook calls is a run of mage.go of its own, which   *)
(* builds the tools and runs the linter (Style and Lint of magefile.go);   *)
(* "|| exit $?" refuses the commit when one of them fails.                 *)
(*                                                                         *)
(* The shell does not take the hook as a whole: after each script it reads *)
(* on at the offset in the file where it was, and Autogen rewrites the     *)
(* file in place.  Lines that are not Autogen's may fail the hook; it is   *)
(* assumed that they do not end it with success.                           *)
(***************************************************************************)
EXTENDS HookMerge, ToolBuild

CONSTANT PreCommit  \* the hook that git runs before a commit

ASSUME PreCommitAssumption == PreCommit \in Range(Hooks)

VARIABLES
  commit,   \* "none", "script", "linting", "accepted", "refused"
  behind,   \* the lines of the hook that the shell has passed, as it read them
  passed,   \* history: the scripts that have succeeded for this commit
  version   \* history: "whole" if Autogen had ended without error when git started
            \* the hook, "unfinished" if not; "rewritten" by Autogen since then

commitVars == <<commit, behind, passed, version>>
vars == <<autogenVars, toolVars, commitVars>>

AllScripts == UNION {Range(ScriptsOf[h]) : h \in Range(Hooks)}
Lines == files[PreCommit]

Init ==
  /\ AutogenInit /\ ToolsInit
  /\ commit = "none" /\ behind = <<>> /\ passed = {} /\ version = "unfinished"

\* git starts the hook, if there is one.
GitCommit ==
  /\ commit \in {"none", "accepted", "refused"}
  /\ commit' = "script"
  /\ behind' = <<>> /\ passed' = {}
  /\ version' = IF pc = "done" THEN "whole" ELSE "unfinished"
  /\ UNCHANGED <<autogenVars, toolVars>>

\* Where the shell's offset is now, as the number of lines in front of it.  When
\* these are no longer the lines that it has read, it may be anywhere, the end and
\* the middle of a line included.
Moved == ~IsPrefix(behind, Lines)
Places == IF Moved THEN 1..Len(Lines) ELSE {Len(behind)}

\* The lines from there that call a script.
Called(place) == {i \in DOMAIN Lines : i > place /\ Lines[i] \in AllScripts}

\* The next of them: mg.Deps(Tools)
RunScript ==
  /\ commit = "script"
  /\ \E place \in Places : \E i \in Called(place) :
       /\ \A j \in Called(place) : i <= j
       /\ behind' = SubSeq(Lines, 1, i)
  /\ Tools
  /\ commit' = "linting"
  /\ UNCHANGED <<autogenVars, passed, version>>

\* An error of Tools, or golangci-lint's own, ends the script and the hook.
ScriptFails ==
  /\ commit = "linting" /\ tools \in {"ok", "error"}
  /\ ProcessEnds
  /\ commit' = "refused"
  /\ UNCHANGED <<autogenVars, behind, passed, version>>

\* golangci-lint has nothing to say.
Lint ==
  /\ commit = "linting" /\ tools = "ok"
  /\ ProcessEnds
  /\ passed' = passed \cup {Last(behind)}
  /\ commit' = "script"
  /\ UNCHANGED <<autogenVars, behind, version>>

\* A line of somebody else's that comes before the next script, or the rest of one
\* in whose middle the shell reads on, is an error.
Foreign(place) ==
  {i \in DOMAIN Lines : /\ i > place
                        /\ \A j \in Called(place) : i < j
                        /\ Lines[i] \notin {Shebang, SectionHead, Note, Blank, SectionFoot}}

OtherLineFails ==
  /\ commit = "script"
  /\ Moved \/ \E place \in Places : Foreign(place) # {}
  /\ commit' = "refused"
  /\ UNCHANGED <<autogenVars, toolVars, behind, passed, version>>

\* The end of the file, or "exit $?" in the middle of a line that has moved.
Accept ==
  /\ commit = "script"
  /\ Moved \/ \E place \in Places : Called(place) = {}
  /\ commit' = "accepted"
  /\ UNCHANGED <<autogenVars, toolVars, behind, passed, version>>

Hook ==
  \/ RunScript \/ ScriptFails \/ Lint \/ OtherLineFails \/ Accept
  \/ Goroutines /\ UNCHANGED <<autogenVars, commitVars>>

Next ==
  \/ /\ AutogenNext
     /\ version' = IF version = "whole" /\ files'[PreCommit] # Lines THEN "rewritten" ELSE version
     /\ UNCHANGED <<toolVars, commit, behind, passed>>
  \/ GitCommit
  \/ Hook

\* Processes that can go on do so, and go install and the linters end.
FairSpec == Init /\ [][Next]_vars /\ WF_vars(Hook)

-----------------------------------------------------------------------------
(* Properties.                                                             *)

Checked ==
  /\ Range(ScriptsOf[PreCommit]) \subseteq passed
  /\ ScriptsOf[PreCommit] # <<>> => ToolNames \subseteq installed

\* A commit is accepted only if every script of the directory has succeeded,
\* with all tools in place, provided that Autogen had ended without an error
\* when git started the hook and has not written to the hook since.
CommitIsChecked ==
  commit = "accepted" /\ version = "whole" => Checked

\* Every commit is decided: the builds of the tools do not wait for each other
\* for ever, however few slots there are and whichever of them fail.
CommitDecided == commit \in {"script", "linting"} ~> commit \in {"accepted", "refused"}

-----------------------------------------------------------------------------
(* What the code does not do.                                              *)

\* Autogen, called again while a hook runs that was whole, empties the file under
\* the shell (magefile.go:984), which finds its end there: the scripts that are left
\* are skipped, and the commit is accepted.
CheckedWhileRewritten ==
  commit = "accepted" /\ version = "rewritten" => Checked
=============================================================================
