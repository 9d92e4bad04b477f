---------------------------- MODULE MCNhmSystemd ----------------------------
EXTENDS NhmSystemd

CONSTANTS u1, u2

\* The transitions of a service unit, restarts and reset-failed included.
ServiceMoves ==
  {<<"inactive", "activating">>, <<"activating", "active">>, <<"activating", "failed">>,
   <<"activating", "inactive">>, <<"activating", "deactivating">>, <<"active", "reloading">>,
   <<"reloading", "active">>, <<"reloading", "failed">>, <<"active", "deactivating">>,
   <<"active", "failed">>, <<"active", "inactive">>, <<"active", "activating">>,
   <<"deactivating", "inactive">>, <<"deactivating", "failed">>,
   <<"failed", "activating">>, <<"failed", "inactive">>}

\* Enough of them for two units side by side: start, failure, restart, reset-failed.
SimpleMoves ==
  {<<"inactive", "active">>, <<"active", "failed">>, <<"failed", "active">>,
   <<"failed", "inactive">>}
============================================================================
