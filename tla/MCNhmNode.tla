----------------------------- MODULE MCNhmNode -----------------------------
(***************************************************************************)
(* The main process and the observation on small instances.                *)
(***************************************************************************)
EXTENDS NhmNode

CONSTANTS u1, u2, a1

\* The transitions of a service unit, restarts and reset-failed included.
ServiceMoves ==
  {<<"inactive", "activating">>, <<"activating", "active">>, <<"activating", "failed">>,
   <<"activating", "inactive">>, <<"activating", "deactivating">>, <<"active", "reloading">>,
   <<"reloading", "active">>, <<"reloading", "failed">>, <<"active", "deactivating">>,
   <<"active", "failed">>, <<"active", "inactive">>, <<"active", "activating">>,
   <<"deactivating", "inactive">>, <<"deactivating", "failed">>,
   <<"failed", "activating">>, <<"failed", "inactive">>}

\* Enough of them for two units side by side.
SimpleMoves ==
  {<<"inactive", "active">>, <<"active", "failed">>, <<"failed", "active">>,
   <<"failed", "inactive">>}

\* No history, and a limit of one or of two applications.
Limit(n) ==
  {[historic_lc_count |-> Absent, max_failed_apps |-> n, no_restart_apps |-> Absent]}

OneFailure == Limit(1)

TwoFailures == Limit(2)

\* A client is content.
ClientIsOk == {<<a1, "Ok">>}

NoClients == {}
============================================================================
