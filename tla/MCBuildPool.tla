---------------------------- MODULE MCBuildPool ----------------------------
(***************************************************************************)
(* ReleaseAll for the two Windows platforms of magefile.go:141-142, whose  *)
(* batches of archives are the only ones of more than one job.             *)
(***************************************************************************)
EXTENDS BuildPool

MCPlatforms == {"windows-amd64", "windows-386"}
MCWindows == MCPlatforms
=============================================================================
