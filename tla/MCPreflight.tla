----------------------------- MODULE MCPreflight -----------------------------
(***************************************************************************)
(* The times of preflight.rs and of docker-compose.yml, in seconds: a      *)
(* container just started, one halfway through its start period and one    *)
(* that Docker has given up, whose servers are ready at once, at the last  *)
(* moment of the start period, while preflight waits, or never.            *)
(***************************************************************************)
EXTENDS Preflight

MCAges == {0, 60, 420}
MCReadyTimes == {0, 119, 120, 500, 9999}
=============================================================================
