---------------------------- MODULE HealthLedger ----------------------------
(***************************************************************************)
(* What the node health monitor promises of its failure statistics: a      *)
(* ledger of life cycles that one process at a time extends.  The current  *)
(* life cycle counts the times an application went from working to failed, *)
(* the closed ones never change, and each failure is saved before the next *)
(* one is taken.  A process that ends while it saves may lose the saved    *)
(* ledger; it never falsifies it.                                          *)
(***************************************************************************)
EXTENDS Naturals, Sequences

CONSTANTS
  Apps,          \* applications that may fail
  States,        \* verdicts on how the life cycle before ended
  Limit,         \* life cycles that are saved, a natural number
  MaxFailcount   \* bound on a failcount

VARIABLES
  live,    \* life cycles the process holds, the current one first
  saved,   \* life cycles that survive the process
  saving,  \* "clean", "unsaved" after a failure, "writing" during a save
  failed   \* applications that are failed now

ledger == <<live, saved, saving, failed>>

Entry == [start_state : States, failcount : [Apps -> 0..MaxFailcount]]

Newest(s, n) == SubSeq(s, 1, IF Len(s) <= n THEN Len(s) ELSE n)

Init ==
  /\ live = <<>>
  /\ saved = <<>>
  /\ saving = "clean"
  /\ failed = {}

Begin(state) ==
  /\ live = <<>>
  /\ live' = <<[start_state |-> state, failcount |-> [a \in Apps |-> 0]]>> \o Newest(saved, Limit)
  /\ UNCHANGED <<saved, saving, failed>>

\* A file that cannot be opened is taken for an empty ledger.
BeginBlank(state) ==
  /\ live = <<>>
  /\ live' = <<[start_state |-> state, failcount |-> [a \in Apps |-> 0]]>>
  /\ UNCHANGED <<saved, saving, failed>>

Fail(a) ==
  /\ live # <<>>
  /\ a \notin failed
  /\ saving = "clean"
  /\ live' = [live EXCEPT ![1].failcount[a] = @ + 1]
  /\ failed' = failed \cup {a}
  /\ saving' = "unsaved"
  /\ UNCHANGED saved

Recover(a) ==
  /\ saving = "clean"
  /\ a \in failed
  /\ failed' = failed \ {a}
  /\ UNCHANGED <<live, saved, saving>>

BeginSave ==
  /\ live # <<>>
  /\ saving # "writing"
  /\ saving' = "writing"
  /\ saved' = <<>>
  /\ UNCHANGED <<live, failed>>

Save ==
  /\ saving = "writing"
  /\ saving' = "clean"
  /\ saved' = Newest(live, Limit)
  /\ UNCHANGED <<live, failed>>

\* The file cannot be opened: the failure is saved with the next one.
SaveFails ==
  /\ saving = "unsaved"
  /\ saving' = "clean"
  /\ UNCHANGED <<live, saved, failed>>

End ==
  /\ live' = <<>>
  /\ saving' = "clean"
  /\ failed' = {}
  /\ UNCHANGED saved

Next ==
  \/ \E state \in States : Begin(state) \/ BeginBlank(state)
  \/ \E a \in Apps : Fail(a) \/ Recover(a)
  \/ BeginSave
  \/ Save
  \/ SaveFails
  \/ End

Spec == Init /\ [][Next]_ledger
============================================================================
