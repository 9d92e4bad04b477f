-------------------------- MODULE MCNhmMainLedger --------------------------
EXTENDS NhmMainHistory, NhmMainLedger, TLC

CONSTANTS a1, a2

File(limit, apps) ==
  [historic_lc_count |-> Limit, max_failed_apps |-> limit, no_restart_apps |-> apps]

\* A limit that one application of two exceeds, and one that both only reach.
LedgerFiles == {File(1, <<a1>>), File(2, Absent)}
============================================================================
