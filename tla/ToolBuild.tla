----------------------------- MODULE ToolBuild -----------------------------
(***************************************************************************)
(* Tools and concurrencyLimitedBuild of magefile.go: every tool that is    *)
(* not there yet is installed in a goroutine of its own.  Unlike those of  *)
(* concurrentRun, these wait for a slot themselves, and send their results *)
(* to a channel that has room for all of them.                             *)
(***************************************************************************)
EXTENDS Naturals, FiniteSets

CONSTANTS
  ToolNames,   \* the tools of Tools
  Named,       \* those whose binary has a name there to look for
  Concurrency  \* how many builds may run at a time

ASSUME ToolsAssumption ==
  /\ IsFiniteSet(ToolNames) /\ Named \subseteq ToolNames
  /\ Concurrency \in Nat \ {0}

VARIABLES
  installed,  \* the tools in toolsBinDir
  tools,      \* "idle", "waiting" for results, then what Tools returns: "ok", "error"
  build,      \* per tool: "none", "blocked", "running", "sent", "over"
  results,    \* the errors (TRUE) and successes in resultsCh, by tool
  resultErr   \* has an error been received

toolVars == <<installed, tools, build, results, resultErr>>

NoResults == [t \in {} |-> FALSE]

ToolsInit ==
  /\ installed = {}
  /\ tools = "idle"
  /\ build = [t \in ToolNames |-> "none"]
  /\ results = NoResults
  /\ resultErr = FALSE

InUse == {t \in ToolNames : build[t] \in {"running", "sent"}}
Pending == {t \in ToolNames : build[t] \in {"blocked", "running"}} \cup DOMAIN results

\* A tool without a name is installed each time.
Needed == ToolNames \ (installed \cap Named)

\* Tools, called when no other call of it is under way.
Tools ==
  /\ tools = "idle"
  /\ tools' = "waiting"
  /\ build' = [t \in ToolNames |-> IF t \in Needed THEN "blocked" ELSE "none"]
  /\ UNCHANGED <<installed, results, resultErr>>

Acquire(t) ==
  /\ build[t] = "blocked" /\ Cardinality(InUse) < Concurrency
  /\ build' = [build EXCEPT ![t] = "running"]
  /\ UNCHANGED <<installed, tools, results, resultErr>>

\* go install, and its result, sent without waiting for the receiver.
Install(t) ==
  /\ build[t] = "running"
  /\ \E err \in BOOLEAN :
       /\ results' = [u \in DOMAIN results \cup {t} |-> IF u = t THEN err ELSE results[u]]
       /\ installed' = IF err THEN installed ELSE installed \cup {t}
  /\ build' = [build EXCEPT ![t] = "sent"]
  /\ UNCHANGED <<tools, resultErr>>

\* Mutant: a build that failed keeps its slot.
GiveBackUnlessFailed(t) ==
  /\ build[t] = "sent"
  /\ build' = [build EXCEPT ![t] = IF t \in installed THEN "over" ELSE @]
  /\ UNCHANGED <<installed, tools, results, resultErr>>

GiveBack(t) ==
  /\ build[t] = "sent"
  /\ build' = [build EXCEPT ![t] = "over"]
  /\ UNCHANGED <<installed, tools, results, resultErr>>

Take(t) == [u \in DOMAIN results \ {t} |-> results[u]]

\* Mutant: the last result decides.
ReceiveLast(t) ==
  /\ tools = "waiting" /\ t \in DOMAIN results
  /\ resultErr' = results[t]
  /\ results' = Take(t)
  /\ UNCHANGED <<installed, tools, build>>

\* A result is counted, and an error is kept.
Receive(t) ==
  /\ tools = "waiting" /\ t \in DOMAIN results
  /\ resultErr' = (resultErr \/ results[t])
  /\ results' = Take(t)
  /\ UNCHANGED <<installed, tools, build>>

\* All results are in; goroutines may still hold their slots.
ToolsReturns ==
  /\ tools = "waiting" /\ Pending = {}
  /\ tools' = IF resultErr THEN "error" ELSE "ok"
  /\ UNCHANGED <<installed, build, results, resultErr>>

\* The process that has called Tools ends, with all of its goroutines.
ProcessEnds ==
  /\ tools' = "idle"
  /\ build' = [t \in ToolNames |-> "none"]
  /\ results' = NoResults /\ resultErr' = FALSE
  /\ UNCHANGED installed

Goroutines ==
  \/ \E t \in ToolNames : Acquire(t) \/ Install(t) \/ GiveBack(t) \/ Receive(t)
  \/ ToolsReturns
=============================================================================
