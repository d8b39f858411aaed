-------------------------- MODULE MCReleaseCutover --------------------------
(* Small instances of ReleaseCutover for TLC.                               *)
EXTENDS ReleaseCutover, TLC

CONSTANTS q1

\* A commit of the web, one of the API with a breaking migration, one of neither.
MCTouches == <<{"web"}, {"backend"}, {}>>
MCMigration == <<"none", "breaking", "none">>
=============================================================================
