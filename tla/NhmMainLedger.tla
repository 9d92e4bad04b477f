--------------------------- MODULE NhmMainLedger ---------------------------
(***************************************************************************)
(* NhmMain implements HealthLedger when one configuration holds for good   *)
(* and a file is either truncated or whole.                                *)
(***************************************************************************)
EXTENDS NhmMain

CONSTANT Limit  \* the configured historic_lc_count

ASSUME FixedHistory ==
  /\ Limit \in Nat
  /\ \A file \in KeyFiles : LoadUint(file.historic_lc_count, 0) = Limit
  /\ Faults \cap {"disk", "config"} = {}

\* A failure is unsaved from its counting to the truncation of the file.
saving ==
  CASE pc = "flush" -> "writing"
    [] pc = "open" /\ caller = "register" -> "unsaved"
    [] OTHER -> "clean"

failed == {current_failed_apps[i] : i \in DOMAIN current_failed_apps}

Ledger == INSTANCE HealthLedger WITH States <- NodeState, live <- nodeinfo, saved <- lcdata.lcs

\* The statistics in memory and on disk behave as one ledger, through every
\* restart of the process: a life cycle that is closed keeps its counts and
\* its place, a failure counts once, is saved before the next report is
\* taken, and is lost only by a process that ends during a write.
LedgerKept == Ledger!Spec
============================================================================
