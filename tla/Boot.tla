-------------------------------- MODULE Boot --------------------------------
(***************************************************************************)
(* RunUnified (server/run_unified.go) starts what its configuration asks   *)
(* for: the relay of a node without ClickHouse, the alert evaluator when   *)
(* there is a database, the build manager when some server deploys from    *)
(* git, raft and gossip in a team, and so on.  A part outside of started   *)
(* is one that is not configured, or to which nothing was given to do.     *)
(***************************************************************************)
CONSTANT Configurations   \* the sets of parts to start

VARIABLE started

BootInit == started \in Configurations

Running(service) == service \in started

\* What is there when a service starts; of one that is not started, nothing is.
Finds(service, possible, nothing) ==
    IF Running(service) THEN possible ELSE {nothing}
=============================================================================
