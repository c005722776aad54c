SPECIFICATION FairSpec
CONSTANTS
  Hooks <- MCHooks
  ScriptsOf <- MCScriptsOf
  Originals <- MCOriginals
  MaxRuns = 2
  ToolNames = {"golangci-lint", "gocovmerge"}
  Named = {"gocovmerge"}
  Concurrency = 1
  PreCommit = "pre-commit"
INVARIANTS
  OutcomeFollowsFile
  CommitIsChecked
PROPERTY
  CommitDecided
