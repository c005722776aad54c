--------------------------- MODULE MCReleaseFiles ---------------------------
(***************************************************************************)
(* Runs of ReleaseAll for a platform with a batch of two archives and one  *)
(* with batches of one job, which need no more than two slots.             *)
(***************************************************************************)
EXTENDS ReleaseFiles

MCPlatforms == {"windows-amd64", "linux-amd64"}
MCWindows == {"windows-amd64"}
=============================================================================
