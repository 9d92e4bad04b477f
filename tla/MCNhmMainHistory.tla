-------------------------- MODULE MCNhmMainHistory --------------------------
EXTENDS NhmMainHistory, TLC

CONSTANTS a1, a2

\* One life cycle of history, and a limit that is never reached by one of two.
OneFile == {[historic_lc_count |-> 1, max_failed_apps |-> 2, no_restart_apps |-> Absent]}
============================================================================
