----------------------------- MODULE MCNhmMain -----------------------------
(***************************************************************************)
(* NhmMain on small instances: the configurations a start may find.        *)
(***************************************************************************)
EXTENDS NhmMain, TLC

CONSTANTS a1, a2

File(lcs, limit, apps) ==
  [historic_lc_count |-> lcs, max_failed_apps |-> limit, no_restart_apps |-> apps]

\* A history that is switched off and on again between two starts, and a limit, by keys
\* that are missing, of no use, and proper.
VaryingFiles == {File(Absent, -1, <<a1>>), File(-1, 1, <<>>), File(1, 1, Absent)}

\* One failed application is the most that is allowed.
OneAllowed == {File(Absent, 1, Absent)}
============================================================================
