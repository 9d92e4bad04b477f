----------------------------- MODULE NhmSystemd -----------------------------
(***************************************************************************)
(* The observation of systemd units, src/src/nhm-systemd.c, against a      *)
(* systemd that loads, changes and unloads units at any time.              *)
(*                                                                         *)
(* systemd and the bus deliver signals in order; a signal tells only that  *)
(* a unit is new, gone or changed, and the handler then asks for the state *)
(* the unit has by that time.  A unit's changes are signalled once the     *)
(* handler has subscribed to it, which it does after it has read a state.  *)
(***************************************************************************)
EXTENDS Naturals, Sequences, FiniteSets

CONSTANTS
  Units,       \* names of service units
  Moves,       \* pairs of states between which systemd takes a unit
  MaxSignals,  \* bound on the signals that are on their way
  BusFails     \* whether calls to systemd may fail

\* NhmActiveState, the strings of systemd and the conversion of any other one.
ActiveStates == {"active", "reloading", "inactive", "failed", "activating", "deactivating"}

KnownStates == ActiveStates \cup {"unknown"}

AppStatus == {"Ok", "Restarting", "Failed"}

ASSUME SystemdAssumption ==
  /\ Moves \subseteq ActiveStates \X ActiveStates
  /\ MaxSignals \in Nat
  /\ BusFails \in BOOLEAN

VARIABLES
  loaded,    \* systemd: units it knows
  state,     \* systemd: ActiveState of each unit
  signals,   \* the bus: signals sent and not yet handled
  step,      \* progress of nhm_systemd_connect(), or the handler that runs
  todo,      \* units read and not yet subscribed to
  read,      \* states read for them
  observed,  \* nhm_systemd_observed_units: active_state of the entries of a name
  reported,  \* last status that app_status_cb was called with, by name
  missed     \* units that changed between the reading and the subscription

systemd == <<loaded, state>>
vars == <<loaded, state, signals, step, todo, read, observed, reported, missed>>

\* What systemd sends.
Signals == {"UnitNew", "UnitRemoved", "PropertiesChanged"}

Steps == {"off", "subscribed", "listing", "idle", "adding", "refused"}

----------------------------------------------------------------------------
Signal(sig, u) == [sig |-> sig, unit |-> u]

\* Mutant: the signals are subscribed to after the units have been listed.
ManagerSubscribedLate == step \in {"idle", "adding"}

\* The manager's signals are sent from Subscribe to Unsubscribe, those of a unit
\* while its PropertiesChanged is subscribed to.
ManagerSubscribed == step \notin {"off", "refused"}

Observes(u) == observed[u] # <<>>

Send(sig, u) ==
  IF ManagerSubscribed
  THEN /\ Len(signals) < MaxSignals
       /\ signals' = Append(signals, Signal(sig, u))
  ELSE UNCHANGED signals

Pending(sig, u) == \E i \in DOMAIN signals : signals[i] = Signal(sig, u)

(***************************************************************************)
(* systemd.  It unloads a unit that is inactive.  Changes that follow each *)
(* other before the signal is sent share one.                              *)
(***************************************************************************)
Load(u) ==
  /\ u \notin loaded
  /\ loaded' = loaded \cup {u}
  /\ Send("UnitNew", u)
  /\ UNCHANGED <<state, step, todo, read, observed, reported, missed>>

Unload(u) ==
  /\ u \in loaded
  /\ state[u] = "inactive"
  /\ loaded' = loaded \ {u}
  /\ Send("UnitRemoved", u)
  /\ UNCHANGED <<state, step, todo, read, observed, reported, missed>>

Change(u) ==
  /\ u \in loaded
  /\ \E s \in ActiveStates : <<state[u], s>> \in Moves /\ state' = [state EXCEPT ![u] = s]
  /\ IF Observes(u)
     THEN /\ \/ Pending("PropertiesChanged", u) /\ UNCHANGED signals
             \/ Send("PropertiesChanged", u)
          /\ missed' = missed \ {u}
     ELSE /\ missed' = IF u \in todo THEN missed \cup {u} ELSE missed
          /\ UNCHANGED signals
  /\ UNCHANGED <<loaded, step, todo, read, observed, reported>>

\* A change of another property of the unit, which invalidates ActiveState alike.
Touch(u) ==
  /\ u \in loaded
  /\ Observes(u)
  /\ ~Pending("PropertiesChanged", u)
  /\ Send("PropertiesChanged", u)
  /\ UNCHANGED <<systemd, step, todo, read, observed, reported, missed>>

----------------------------------------------------------------------------
\* Mutant: one line of the table is missing.
ReportsIncomplete(from, to) ==
  CASE to = "active" /\ from \notin {"active", "deactivating"} -> "Ok"
    [] to = "failed" /\ from \notin {"failed", "active"} -> "Failed"
    [] from = "failed" /\ to = "activating" -> "Restarting"
    [] OTHER -> "none"

\* nhm_systemd_active_state_map: the transitions for which the callback is made.
Reports(from, to) ==
  CASE to = "active" /\ from \notin {"active", "deactivating"} -> "Ok"
    [] to = "failed" /\ from # "failed" -> "Failed"
    [] from = "failed" /\ to = "activating" -> "Restarting"
    [] OTHER -> "none"

\* Mutant: the new state is kept only if it was reported.
ActiveStateChangedIfReported(u, from, to) ==
  IF Reports(from, to) = "none"
  THEN UNCHANGED <<reported, observed>>
  ELSE /\ reported' = [reported EXCEPT ![u] = Reports(from, to)]
       /\ observed' = [observed EXCEPT ![u][1] = to]

\* nhm_systemd_unit_active_state_changed()
ActiveStateChanged(u, from, to) ==
  /\ reported' = IF Reports(from, to) = "none" THEN reported
                 ELSE [reported EXCEPT ![u] = Reports(from, to)]
  /\ observed' = [observed EXCEPT ![u][1] = to]

\* Mutant: a call that fails gives a value that is none of the enumeration.
GetActiveStateRaw(u) == IF u \in loaded THEN {state[u]} ELSE {"last"}

\* Mutant: a call that fails is taken for a failure of the unit.
GetActiveStateFailed(u) ==
  IF u \in loaded
  THEN {state[u]} \cup (IF BusFails THEN {"failed"} ELSE {})
  ELSE {"failed", "inactive"}

(***************************************************************************)
(* nhm_systemd_unit_get_active_state().  The call fails with the bus, or   *)
(* for a unit that is gone, which systemd may also load again to answer.   *)
(***************************************************************************)
GetActiveState(u) ==
  IF u \in loaded
  THEN {state[u]} \cup (IF BusFails THEN {"unknown"} ELSE {})
  ELSE {"unknown", "inactive"}

\* nhm_systemd_disconnect(): whatever was subscribed to is dropped, and with it what
\* was still to handle.
Disconnect ==
  /\ signals' = <<>>
  /\ todo' = {}
  /\ observed' = [u \in Units |-> <<>>]
  /\ missed' = {}

----------------------------------------------------------------------------
Init ==
  /\ loaded \in SUBSET Units
  /\ state \in [Units -> {"inactive", "active", "failed"}]
  /\ \A u \in Units \ loaded : state[u] = "inactive"
  /\ signals = <<>>
  /\ step = "off"
  /\ todo = {}
  /\ read = [u \in Units |-> "unknown"]
  /\ observed = [u \in Units |-> <<>>]
  /\ reported = [u \in Units |-> "none"]
  /\ missed = {}

\* Steps 1 to 4 of nhm_systemd_connect(): the signals are subscribed to first.
Subscribe ==
  /\ step = "off"
  /\ \/ step' = "subscribed" /\ UNCHANGED <<signals, todo, observed, missed>>
     \/ BusFails /\ step' = "refused" /\ Disconnect
  /\ UNCHANGED <<systemd, read, reported>>

\* Step 5: the units that are known, and the states they have now.
ListUnits ==
  /\ step = "subscribed"
  /\ \/ /\ step' = "listing"
        /\ todo' = loaded
        /\ read' = [u \in Units |-> IF u \in loaded THEN state[u] ELSE read[u]]
        /\ UNCHANGED <<signals, observed, missed>>
     \/ /\ BusFails
        /\ step' = "refused"
        /\ Disconnect
        /\ UNCHANGED read
  /\ UNCHANGED <<systemd, reported>>

\* nhm_systemd_subscribe_properties_changed() and the new entry of the list.
SubscribeUnit(u) ==
  /\ step \in {"listing", "adding"}
  /\ u \in todo
  /\ todo' = todo \ {u}
  /\ observed' = [observed EXCEPT ![u] = <<read[u]>> \o @]
  /\ step' = IF todo' = {} THEN "idle" ELSE step
  /\ UNCHANGED <<systemd, signals, read, reported, missed>>

NothingListed ==
  /\ step = "listing"
  /\ todo = {}
  /\ step' = "idle"
  /\ UNCHANGED <<systemd, signals, todo, read, observed, reported, missed>>

----------------------------------------------------------------------------
Handles(sig, u) ==
  /\ step = "idle"
  /\ signals # <<>>
  /\ Head(signals) = Signal(sig, u)

\* Mutant: the list is not searched for a unit that is new.
UnitAddedUnsearched(u) ==
  /\ Handles("UnitNew", u)
  /\ signals' = Tail(signals)
  /\ \E s \in GetActiveState(u) : read' = [read EXCEPT ![u] = s]
  /\ todo' = {u}
  /\ step' = "adding"
  /\ UNCHANGED <<systemd, observed, reported, missed>>

UnitAdded(u) ==
  /\ Handles("UnitNew", u)
  /\ signals' = Tail(signals)
  /\ \/ /\ Observes(u)
        /\ UNCHANGED <<step, todo, read>>
     \/ /\ ~Observes(u)
        /\ \E s \in GetActiveState(u) : read' = [read EXCEPT ![u] = s]
        /\ todo' = {u}
        /\ step' = "adding"
  /\ UNCHANGED <<systemd, observed, reported, missed>>

\* Mutant: the unit is freed and its signal is not unsubscribed from.
UnitRemovedStillSubscribed(u) ==
  /\ Handles("UnitRemoved", u)
  /\ signals' = Tail(signals)
  /\ observed' = [observed EXCEPT ![u] = IF @ = <<>> THEN @ ELSE Tail(@)]
  /\ missed' = missed \ {u}
  /\ UNCHANGED <<systemd, step, todo, read, reported>>

\* Mutant: the changes of all units are unsubscribed from.
FreeUnitDropsAll(u, queue) ==
  [i \in DOMAIN queue |-> IF queue[i].sig = "PropertiesChanged" THEN Signal("Dropped", u) ELSE queue[i]]

\* nhm_systemd_free_unit() unsubscribes: the changes of the unit that are still to
\* handle stay where they are, and glib drops each when it is its turn.
FreeUnit(u, queue) ==
  [i \in DOMAIN queue |->
     IF queue[i] = Signal("PropertiesChanged", u) THEN Signal("Dropped", u) ELSE queue[i]]

UnitRemoved(u) ==
  /\ Handles("UnitRemoved", u)
  /\ IF Observes(u)
     THEN /\ observed' = [observed EXCEPT ![u] = Tail(@)]
          /\ signals' = FreeUnit(u, Tail(signals))
          /\ missed' = missed \ {u}
     ELSE /\ signals' = Tail(signals)
          /\ UNCHANGED <<observed, missed>>
  /\ UNCHANGED <<systemd, step, todo, read, reported>>

PropertiesChanged(u) ==
  /\ Handles("PropertiesChanged", u)
  /\ signals' = Tail(signals)
  /\ \E s \in GetActiveState(u) :
       IF s # observed[u][1]
       THEN ActiveStateChanged(u, observed[u][1], s)
       ELSE UNCHANGED <<observed, reported>>
  /\ UNCHANGED <<systemd, step, todo, read, missed>>

\* glib finds no subscriber any more and calls nobody.
SignalDropped(u) ==
  /\ Handles("Dropped", u)
  /\ signals' = Tail(signals)
  /\ UNCHANGED <<systemd, step, todo, read, observed, reported, missed>>

(***************************************************************************)
(* nhm_systemd_disconnect() at the end of the process, or a crash of it at *)
(* any time, which closes the connection; the next process starts anew.    *)
(***************************************************************************)
Stop ==
  /\ step # "off"
  /\ step' = "off"
  /\ Disconnect
  /\ reported' = [u \in Units |-> "none"]
  /\ UNCHANGED <<systemd, read>>

----------------------------------------------------------------------------
Environment == \E u \in Units : Load(u) \/ Unload(u) \/ Change(u) \/ Touch(u)

Connect == Subscribe \/ ListUnits \/ NothingListed \/ \E u \in Units : SubscribeUnit(u)

Handle ==
  \E u \in Units : UnitAdded(u) \/ UnitRemoved(u) \/ PropertiesChanged(u) \/ SignalDropped(u)

Next == Environment \/ Connect \/ Handle \/ Stop

Spec == Init /\ [][Next]_vars

\* The main loop serves the signals that arrive; systemd owes nothing.
FairSpec == Spec /\ WF_vars(Connect) /\ WF_vars(Handle)

----------------------------------------------------------------------------
\* The type of every variable.
TypeOK ==
  /\ loaded \subseteq Units
  /\ state \in [Units -> ActiveStates]
  /\ signals \in Seq([sig : Signals \cup {"Dropped"}, unit : Units])
  /\ step \in Steps
  /\ todo \subseteq Units
  /\ read \in [Units -> KnownStates]
  /\ observed \in [Units -> Seq(KnownStates)]
  /\ reported \in [Units -> AppStatus \cup {"none"}]
  /\ missed \subseteq Units

Connected == step = "idle"

\* No unit is observed twice, though ListUnits and a UnitNew that was sent since
\* Subscribe may both tell of it: a change would be reported twice.
ObservedOnce == \A u \in Units : Len(observed[u]) <= 1 /\ (u \in todo => observed[u] = <<>>)

\* No change is delivered with a unit that was freed.
NoDanglingUnit == \A u \in Units : Pending("PropertiesChanged", u) => Observes(u)

\* The list of units follows systemd: what they differ in is in the signals that
\* are still to handle.  No unit that came or went during the start is lost.
EveryUnitObserved ==
  Connected =>
    \A u \in Units :
      /\ u \in loaded /\ ~Observes(u) => Pending("UnitNew", u)
      /\ u \notin loaded /\ Observes(u) => Pending("UnitRemoved", u)

Quiet(u) == Connected /\ u \in loaded /\ \A sig \in Signals : ~Pending(sig, u)

\* With no signal of a unit to handle, its known state is the one it has, unless
\* it changed before it was subscribed to or could not be read.
KnownIsCurrent ==
  \A u \in Units :
    Quiet(u) /\ u \notin missed =>
      observed[u][1] = state[u] \/ (BusFails /\ observed[u][1] = "unknown")

\* A unit that is known to have failed since it is observed was reported so, from
\* whichever state it came and whatever states were never seen.
FailureReported ==
  \A u \in Units :
    Observes(u) /\ observed[u][1] = "failed" /\ read[u] # "failed" => reported[u] = "Failed"

\* A unit that fails for good and is observed is known to have failed in the end,
\* unless its state could not be read.
FailureNoticed ==
  \A u \in Units :
    <>[](Observes(u) /\ u \in loaded /\ state[u] = "failed" /\ u \notin missed)
      => <>[](observed[u] = <<"failed">> \/ (BusFails /\ observed[u] = <<"unknown">>))

----------------------------------------------------------------------------
\* What the comments promise and the code does not keep.

\* A unit that has failed since its state was read for the observation is reported as
\* failed when no signal of it is left to handle.  The code misses a failure between
\* the reading and the subscription.
NoFailureMissed ==
  \A u \in Units : Quiet(u) /\ state[u] = "failed" /\ read[u] # "failed" => reported[u] = "Failed"
=============================================================================
