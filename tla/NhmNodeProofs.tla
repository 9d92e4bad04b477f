--------------------------- MODULE NhmNodeProofs ---------------------------
(***************************************************************************)
(* The composition refines both of its parts, for every set of units and   *)
(* clients: what is proved of the main process against arbitrary reports   *)
(* holds for the node.                                                     *)
(***************************************************************************)
EXTENDS NhmNode, NhmMainProofs

LEMMA CallbackStatus ==
  ASSUME NEW u PROVE Callback(u) \in AppStatus \cup {"none"}
BY DEF Callback, Systemd!Reports, AppStatus

LEMMA MainStep == ASSUME NodeNext PROVE [Next]_vars
<1>1. CASE MainHandler
  <2>1. CASE \E report \in ClientReports : RegisterAppStatus(report[1], report[2])
    <3>1. PICK report \in ClientReports : RegisterAppStatus(report[1], report[2])
      BY <2>1
    <3>2. report[1] \in Apps /\ report[2] \in AppStatus
      BY NodeAssumption
    <3> QED
      BY <3>1, <3>2 DEF Next
  <2> QED
    BY <1>1, <2>1 DEF MainHandler, Next
<1>2. CASE Begin \/ EntersService \/ Ends
  BY <1>2 DEF Begin, EntersService, Ends, Next
<1>3. CASE ConnectToSystemd \/ UnitComesOrGoes \/ SystemdMoves
  BY <1>3 DEF ConnectToSystemd, UnitComesOrGoes, SystemdMoves
<1>4. CASE UnitChanges
  <2>1. PICK u \in Units : \/ UNCHANGED vars
                           \/ Callback(u) # "none" /\ RegisterAppStatus(u, Callback(u))
    BY <1>4 DEF UnitChanges
  <2>2. u \in Apps
    BY NodeAssumption
  <2> QED
    BY <2>1, <2>2, CallbackStatus DEF Next
<1> QED
  BY <1>1, <1>2, <1>3, <1>4 DEF NodeNext

\* The callback of the observation into the main process, the start of the one by
\* the other and their common end leave every step of the main process what it is.
THEOREM NodeImplementsMain == NodeSpec => ImplementsMain
<1>1. NodeInit => Init
  BY DEF NodeInit
<1>2. [NodeNext]_node => [Next]_vars
  BY MainStep DEF node, vars
<1> QED
  BY <1>1, <1>2, PTL DEF NodeSpec, ImplementsMain, Spec

\* On a node whose failures are noticed by systemd and by clients, the list that
\* triggers the restart is sound, and the limit is never passed in silence.
THEOREM NodeListSound == NodeSpec => [](FailedListUnique /\ FailedIsCounted /\ LimitNeverSilent)
<1>1. NodeSpec => Spec
  BY NodeImplementsMain DEF ImplementsMain
<1> QED
  BY <1>1, FailedListSound, LimitAnswered, PTL

LEMMA ObservationStep == ASSUME NodeNext PROVE [Systemd!Next]_(Systemd!vars)
<1>1. CASE MainHandler \/ Begin \/ EntersService
  BY <1>1 DEF MainHandler, Begin, EntersService, observation, Systemd!vars
<1>2. CASE ConnectToSystemd
  BY <1>2 DEF ConnectToSystemd, Systemd!Next, Systemd!Connect
<1>3. CASE UnitComesOrGoes
  BY <1>3 DEF UnitComesOrGoes, Systemd!Next, Systemd!Connect, Systemd!Handle
<1>4. CASE UnitChanges
  BY <1>4 DEF UnitChanges, Systemd!Next, Systemd!Handle
<1>5. CASE SystemdMoves \/ Ends
  BY <1>5 DEF SystemdMoves, Ends, Systemd!Next, observation, Systemd!vars
<1> QED
  BY <1>1, <1>2, <1>3, <1>4, <1>5 DEF NodeNext

\* The observation in the main loop of the process does what it does on its own:
\* what is checked of it against any systemd holds for the node.
THEOREM NodeImplementsObservation == NodeSpec => ImplementsObservation
<1>1. NodeInit => Systemd!Init
  BY DEF NodeInit
<1>2. [NodeNext]_node => [Systemd!Next]_(Systemd!vars)
  BY ObservationStep DEF node, observation, Systemd!vars
<1> QED
  BY <1>1, <1>2, PTL DEF NodeSpec, ImplementsObservation, Systemd!Spec

Observation == INSTANCE NhmSystemdProofs

\* The proofs about NhmSystemd speak of the same observation.
LEMMA SameObservation ==
  /\ Systemd!Init <=> Observation!Init
  /\ Systemd!Next <=> Observation!Next
  /\ Systemd!vars = Observation!vars
  /\ Systemd!ObservedOnce <=> Observation!ObservedOnce
  /\ Systemd!FailureReported <=> Observation!FailureReported
  /\ Systemd!NoDanglingUnit <=> Observation!NoDanglingUnit
  /\ Systemd!EveryUnitObserved <=> Observation!EveryUnitObserved
  /\ Systemd!KnownIsCurrent <=> Observation!KnownIsCurrent
<1>1. Systemd!Init <=> Observation!Init
  BY DEF Systemd!Init, Observation!Init
<1>2. Systemd!vars = Observation!vars
  BY DEF Systemd!vars, Observation!vars
<1>3. Systemd!ObservedOnce <=> Observation!ObservedOnce
  BY DEF Systemd!ObservedOnce, Observation!ObservedOnce
<1>4. Systemd!FailureReported <=> Observation!FailureReported
  BY DEF Systemd!FailureReported, Observation!FailureReported, Systemd!Observes, Observation!Observes
<1>5. Systemd!Next <=> Observation!Next
  BY Zenon
     DEF
         Systemd!Next, Observation!Next, Systemd!Environment, Observation!Environment,
         Systemd!Load, Observation!Load, Systemd!Unload, Observation!Unload, Systemd!Change,
         Observation!Change, Systemd!Touch, Observation!Touch, Systemd!Connect,
         Observation!Connect, Systemd!Subscribe, Observation!Subscribe, Systemd!ListUnits,
         Observation!ListUnits, Systemd!NothingListed, Observation!NothingListed,
         Systemd!SubscribeUnit, Observation!SubscribeUnit, Systemd!Handle, Observation!Handle,
         Systemd!UnitAdded, Observation!UnitAdded, Systemd!UnitRemoved,
         Observation!UnitRemoved, Systemd!PropertiesChanged, Observation!PropertiesChanged,
         Systemd!Stop, Observation!Stop, Systemd!Handles, Observation!Handles, Systemd!Send,
         Observation!Send, Systemd!Pending, Observation!Pending, Systemd!Signal,
         Observation!Signal, Systemd!Observes, Observation!Observes,
         Systemd!ManagerSubscribed, Observation!ManagerSubscribed, Systemd!GetActiveState,
         Observation!GetActiveState, Systemd!ActiveStateChanged,
         Observation!ActiveStateChanged, Systemd!Reports, Observation!Reports,
         Systemd!FreeUnit, Observation!FreeUnit, Systemd!SignalDropped, Observation!SignalDropped, Systemd!Disconnect, Observation!Disconnect,
         Systemd!ActiveStates, Observation!ActiveStates, Systemd!systemd, Observation!systemd,
         Systemd!vars, Observation!vars, Systemd!KnownStates, Observation!KnownStates
<1>6. /\ Systemd!NoDanglingUnit <=> Observation!NoDanglingUnit
      /\ Systemd!EveryUnitObserved <=> Observation!EveryUnitObserved
      /\ Systemd!KnownIsCurrent <=> Observation!KnownIsCurrent
  BY Zenon
     DEF Systemd!NoDanglingUnit, Observation!NoDanglingUnit, Systemd!EveryUnitObserved,
         Observation!EveryUnitObserved, Systemd!KnownIsCurrent, Observation!KnownIsCurrent,
         Systemd!Connected, Observation!Connected, Systemd!Quiet, Observation!Quiet,
         Systemd!Pending, Observation!Pending, Systemd!Signal, Observation!Signal,
         Systemd!Signals, Observation!Signals, Systemd!Observes, Observation!Observes
<1> QED
  BY <1>1, <1>2, <1>3, <1>4, <1>5, <1>6

\* In the node, too, a unit is observed once, none is lost, each failure that is seen is
\* handed to nhm_main_register_app_status(), and what is known catches up.
THEOREM NodeObservationSound ==
  NodeSpec => [](/\ Systemd!ObservedOnce
                 /\ Systemd!FailureReported
                 /\ Systemd!NoDanglingUnit
                 /\ Systemd!EveryUnitObserved
                 /\ Systemd!KnownIsCurrent)
<1>1. NodeSpec => Systemd!Init /\ [][Systemd!Next]_(Systemd!vars)
  BY NodeImplementsObservation DEF ImplementsObservation, Systemd!Spec
<1>2. /\ Moves \subseteq Observation!ActiveStates \X Observation!ActiveStates
      /\ MaxSignals \in Nat
      /\ BusFails \in BOOLEAN
  BY NodeAssumption DEF Systemd!ActiveStates, Observation!ActiveStates
<1>3. Observation!Spec => []Observation!ObservedOnce
  BY <1>2, Observation!ObservedAtMostOnce
<1>4. Observation!Spec => []Observation!FailureReported
  BY <1>2, Observation!FailuresAreReported
<1>5. [Systemd!Next]_(Systemd!vars) => [Observation!Next]_(Observation!vars)
  BY SameObservation DEF Systemd!vars, Observation!vars
<1>6. Observation!Spec => []Observation!NoDanglingUnit
  BY <1>2, Observation!NoFreedUnitIsChanged
<1>7. Observation!Spec => []Observation!EveryUnitObserved
  BY <1>2, Observation!NoUnitIsLost
<1>8. Observation!Spec => []Observation!KnownIsCurrent
  BY <1>2, Observation!KnownStateIsCurrent
<1> QED
  BY <1>1, <1>3, <1>4, <1>5, <1>6, <1>7, <1>8, SameObservation, PTL DEF Observation!Spec

----------------------------------------------------------------------------
(***************************************************************************)
(* From systemd through the observation to the list and the counts.        *)
(***************************************************************************)

\* A unit whose known state became failed under observation is on the list.
KnownFailureIsListed ==
  \A u \in OnlyObserved :
    Systemd!Observes(u) /\ observed[u][1] = "failed" /\ read[u] # "failed" => OnList(u)

Counted(u) == IF nodeinfo = <<>> THEN 0 ELSE nodeinfo[1].failcount[u]

\* A unit that is failed and not on the list has a failure that was not counted yet.
FailuresCover ==
  /\ failures \in [Units -> 0..MaxFailcount]
  /\ phase # "down" =>
       \A u \in OnlyObserved :
         /\ Counted(u) <= failures[u]
         /\ state[u] = "failed" /\ ~OnList(u) => Counted(u) < failures[u] \/ failures[u] = MaxFailcount

NodeInv == IInv /\ Observation!QInv /\ KnownFailureIsListed /\ FailuresCover

LEMMA ObservationPremise ==
  /\ Moves \subseteq Observation!ActiveStates \X Observation!ActiveStates
  /\ MaxSignals \in Nat
  /\ BusFails \in BOOLEAN
BY NodeAssumption DEF Systemd!ActiveStates, Observation!ActiveStates

\* What the handler of PropertiesChanged reads is what it reports, and systemd goes on
\* only after it.
LEMMA UnitChangeEffect ==
  ASSUME Observation!QInv, NEW u \in Units, Systemd!PropertiesChanged(u)
  PROVE  /\ UNCHANGED <<loaded, state, read>>
         /\ Systemd!Observes(u)
         /\ \A v \in Units : Systemd!Observes(v)' <=> Systemd!Observes(v)
         /\ \A v \in Units \ {u} : observed'[v] = observed[v]
         /\ observed'[u][1] \in {state[u], "unknown", "inactive"}
<1>1. Observation!PropertiesChanged(u)
  BY Zenon
     DEF Systemd!PropertiesChanged, Observation!PropertiesChanged, Systemd!Handles,
         Observation!Handles, Systemd!Signal, Observation!Signal, Systemd!GetActiveState,
         Observation!GetActiveState, Systemd!ActiveStateChanged, Observation!ActiveStateChanged,
         Systemd!Reports, Observation!Reports, Systemd!systemd, Observation!systemd
<1>2. /\ Observation!Observes(u)
      /\ \A v \in Units : Observation!Observes(v)' <=> Observation!Observes(v)
      /\ \A v \in Units \ {u} : observed'[v] = observed[v]
      /\ observed'[u][1] \in Observation!GetActiveState(u)
  BY <1>1, ObservationPremise, Observation!ChangeReadsState
<1>3. UNCHANGED <<loaded, state, read>>
  BY DEF Systemd!PropertiesChanged, Systemd!systemd
<1> QED
  BY <1>2, <1>3 DEF Observation!GetActiveState, Systemd!Observes, Observation!Observes

\* A state that is reported is the state of the unit; a unit that is seen to have
\* failed for the first time is reported as failed.
LEMMA CallbackMeaning ==
  ASSUME Observation!QInv, NEW u \in Units, Systemd!PropertiesChanged(u)
  PROVE  /\ observed'[u][1] = "failed" /\ observed[u][1] # "failed" => Callback(u) = "Failed"
         /\ Callback(u) = "Failed" => state[u] = "failed"
         /\ Callback(u) \notin {"none", "Failed"} => state[u] # "failed" /\ observed'[u][1] # "failed"
BY UnitChangeEffect DEF Callback, Systemd!Reports

\* Every other step of the node leaves list and counts alone, or starts them anew.
LEMMA OtherSteps ==
  ASSUME IInv, NodeNext
  PROVE  \/ \E report \in ClientReports : RegisterAppStatus(report[1], report[2]) /\ UNCHANGED <<observation, failures>>
         \/ UnitChanges
         \/ BusAcquired /\ UNCHANGED <<observation, failures>>
         \/ Begin
         \/ Ends
         \/ /\ UNCHANGED <<nodeinfo, current_failed_apps>>
            /\ phase = "down" <=> phase' = "down"
            /\ \/ UNCHANGED <<observation, failures>>
               \/ ConnectToSystemd
               \/ UnitComesOrGoes
               \/ SystemdMoves
<1>1. CASE MainHandler
  <2>1. UNCHANGED <<observation, failures>>
    BY <1>1 DEF MainHandler
  <2>2. CASE \E report \in ClientReports : RegisterAppStatus(report[1], report[2])
    BY <2>1, <2>2
  <2>3. CASE BusAcquired
    BY <2>1, <2>3
  <2>4. CASE ConnectToNsmFails \/ NameAcquired \/ NameLost \/ Sigterm
    BY <2>1, <2>4 DEF ConnectToNsmFails, NameAcquired, NameLost, Sigterm, Quit, process
  <2>5. CASE OpenLcData \/ FlushLcData \/ CheckFailedAppRestart
    BY <2>1, <2>5 DEF OpenLcData, FlushLcData, CheckFailedAppRestart, process
  <2>6. CASE (\E a \in Apps : RequestNodeRestart(a)) \/ \E type \in {"RUNUP", "NORMAL"} : LcRequest(type)
    BY <2>1, <2>6 DEF RequestNodeRestart, LcRequest, process
  <2> QED
    BY <1>1, <2>2, <2>3, <2>4, <2>5, <2>6 DEF MainHandler
<1>2. CASE EntersService
  BY <1>2 DEF EntersService, Ready, IInv, NodeinfoExists
<1>3. CASE ConnectToSystemd \/ UnitComesOrGoes \/ SystemdMoves
  BY <1>3 DEF ConnectToSystemd, UnitComesOrGoes, SystemdMoves, vars, process
<1> QED
  BY <1>1, <1>2, <1>3 DEF NodeNext

\* No step of the observation but the handler of a change makes a failure known.
LEMMA NoNewKnownFailure ==
  ASSUME Observation!QInv, ConnectToSystemd \/ UnitComesOrGoes \/ SystemdMoves, NEW u \in Units,
         Systemd!Observes(u)', observed'[u][1] = "failed", read'[u] # "failed"
  PROVE  Systemd!Observes(u) /\ observed[u][1] = "failed" /\ read[u] # "failed"
<1>1. /\ step \in {"off", "subscribed", "refused"} => observed[u] = <<>>
      /\ \A w \in todo : observed[w] = <<>>
      /\ read \in [Units -> Observation!KnownStates]
      /\ observed \in [Units -> Observation!Entries]
  BY DEF Observation!QInv, Observation!IInv, Observation!ListType, Observation!NothingYet,
         Observation!NotObservedTwice, Observation!NoEntry
<1>2. CASE SystemdMoves
  <2>1. UNCHANGED <<observed, read>>
    BY <1>2 DEF SystemdMoves, Systemd!Environment, Systemd!Load, Systemd!Unload, Systemd!Change,
                Systemd!Touch
  <2> QED
    BY <2>1 DEF Systemd!Observes
<1>3. CASE Systemd!Subscribe \/ Systemd!ListUnits
  <2>1. observed'[u] = <<>>
    BY <1>1, <1>3 DEF Systemd!Subscribe, Systemd!ListUnits, Systemd!Disconnect
  <2> QED
    BY <2>1 DEF Systemd!Observes
<1>4. CASE Systemd!NothingListed
  BY <1>4 DEF Systemd!NothingListed, Systemd!Observes
<1>5. ASSUME NEW w \in Units, Systemd!SubscribeUnit(w)
      PROVE  Systemd!Observes(u) /\ observed[u][1] = "failed" /\ read[u] # "failed"
  <2>1. read' = read /\ w \in todo
    BY <1>5 DEF Systemd!SubscribeUnit
  <2>2. observed' = [observed EXCEPT ![w] = <<read[w]>>]
    <3>1. observed[w] = Observation!NoEntry /\ read[w] \in Observation!KnownStates
      BY <1>1, <2>1 DEF Observation!NoEntry
    <3> QED
      BY <1>5, <3>1, Observation!EntryFacts, ObservationPremise DEF Systemd!SubscribeUnit
  <2>3. u # w
    BY <1>1, <2>1, <2>2
  <2> QED
    BY <1>1, <2>1, <2>2, <2>3 DEF Systemd!Observes
<1>6. ASSUME NEW w \in Units, Systemd!UnitAdded(w)
      PROVE  Systemd!Observes(u) /\ observed[u][1] = "failed" /\ read[u] # "failed"
  <2>1. observed' = observed /\ Systemd!Observes(u)
    BY <1>6 DEF Systemd!UnitAdded, Systemd!Observes
  <2>2. read'[u] = read[u]
    BY <1>1, <1>6, <2>1 DEF Systemd!UnitAdded
  <2> QED
    BY <2>1, <2>2
<1>7. ASSUME NEW w \in Units, Systemd!UnitRemoved(w)
      PROVE  Systemd!Observes(u) /\ observed[u][1] = "failed" /\ read[u] # "failed"
  <2>1. read' = read
    BY <1>7 DEF Systemd!UnitRemoved
  <2>2. CASE observed' = observed
    BY <2>1, <2>2 DEF Systemd!Observes
  <2>3. CASE Systemd!Observes(w) /\ observed' = [observed EXCEPT ![w] = Tail(@)]
    <3>1. u # w
      <4>1. PICK s \in Observation!KnownStates : observed[w] = <<s>>
        BY <1>1, <2>3 DEF Observation!Entries, Observation!NoEntry, Systemd!Observes
      <4>2. observed'[w] = <<>>
        BY <1>1, <2>3, <4>1, Observation!EntryFacts, ObservationPremise DEF Observation!NoEntry
      <4> QED
        BY <4>2 DEF Systemd!Observes
    <3> QED
      BY <1>1, <2>1, <2>3, <3>1 DEF Systemd!Observes
  <2> QED
    BY <1>7, <2>2, <2>3 DEF Systemd!UnitRemoved
<1>8. ASSUME NEW w \in Units, Systemd!SignalDropped(w)
      PROVE  Systemd!Observes(u) /\ observed[u][1] = "failed" /\ read[u] # "failed"
  BY <1>8 DEF Systemd!SignalDropped, Systemd!Observes
<1> QED
  BY <1>2, <1>3, <1>4, <1>5, <1>6, <1>7, <1>8 DEF ConnectToSystemd, UnitComesOrGoes

\* The end of the process ends the observation.
LEMMA NothingKnownAfterEnd ==
  ASSUME Observation!QInv, Ends, NEW u \in Units
  PROVE  ~Systemd!Observes(u)'
<1>1. CASE step = "off" /\ UNCHANGED observation
  BY <1>1 DEF observation, Observation!QInv, Observation!IInv, Observation!NothingYet,
              Observation!NoEntry, Systemd!Observes
<1>2. CASE Systemd!Stop
  BY <1>2 DEF Systemd!Stop, Systemd!Disconnect, Systemd!Observes
<1> QED
  BY <1>1, <1>2 DEF Ends

LEMMA ListedStep ==
  ASSUME IInv, Observation!QInv, KnownFailureIsListed, NodeNext
  PROVE  KnownFailureIsListed'
<1> SUFFICES ASSUME NEW u \in OnlyObserved, Systemd!Observes(u)', observed'[u][1] = "failed",
                    read'[u] # "failed"
             PROVE  OnList(u)'
  BY DEF KnownFailureIsListed, OnlyObserved
<1>1. u \in Units /\ u \in Apps /\ \A report \in ClientReports : report[1] # u
  BY NodeAssumption DEF OnlyObserved
<1>2. Systemd!Observes(u) /\ observed[u][1] = "failed" /\ read[u] # "failed" => OnList(u)
  BY DEF KnownFailureIsListed
<1>3. CASE \E report \in ClientReports :
             RegisterAppStatus(report[1], report[2]) /\ UNCHANGED <<observation, failures>>
  <2>1. PICK report \in ClientReports :
          RegisterAppStatus(report[1], report[2]) /\ UNCHANGED <<observation, failures>>
    BY <1>3
  <2>2. report[1] \in Apps /\ report[2] \in AppStatus /\ u \in Apps \ {report[1]}
    BY <1>1, NodeAssumption
  <2>3. OnList(u)' <=> OnList(u)
    BY <2>1, <2>2, RegisterEffect
  <2> QED
    BY <1>2, <2>1, <2>3 DEF observation, Systemd!Observes
<1>4. CASE UnitChanges
  <2>1. PICK w \in Units :
          /\ Systemd!PropertiesChanged(w)
          /\ \/ Callback(w) = "none" /\ UNCHANGED vars
             \/ Callback(w) # "none" /\ RegisterAppStatus(w, Callback(w))
    BY <1>4 DEF UnitChanges
  <2>2. w \in Apps /\ (Callback(w) # "none" => Callback(w) \in AppStatus)
    BY CallbackStatus, NodeAssumption
  <2>3. /\ read' = read
        /\ Systemd!Observes(u)
        /\ u # w => observed'[u] = observed[u]
    BY <1>1, <2>1, UnitChangeEffect
  <2>4. CASE Callback(w) = "none" /\ UNCHANGED vars
    <3>1. observed[u][1] = "failed"
      BY <2>1, <2>3, <2>4, CallbackMeaning
    <3> QED
      BY <1>2, <2>3, <2>4, <3>1 DEF vars, OnList
  <2>5. CASE Callback(w) # "none" /\ RegisterAppStatus(w, Callback(w))
    <3>1. CASE u = w
      <4>1. Callback(w) = "Failed"
        BY <2>1, <2>5, <3>1, CallbackMeaning
      <4> QED
        BY <2>2, <2>5, <3>1, <4>1, RegisterEffect
    <3>2. CASE u # w
      <4>1. OnList(u)' <=> OnList(u)
        BY <1>1, <2>2, <2>5, <3>2, RegisterEffect
      <4> QED
        BY <1>2, <2>3, <3>2, <4>1
    <3> QED
      BY <3>1, <3>2
  <2> QED
    BY <2>1, <2>4, <2>5
<1>5. CASE (BusAcquired /\ UNCHANGED <<observation, failures>>) \/ Begin
  BY <1>2, <1>5 DEF BusAcquired, Begin, ConnectToNsm, observation, Systemd!Observes, OnList
<1>6. CASE Ends
  BY <1>1, <1>6, NothingKnownAfterEnd
<1>7. CASE UNCHANGED current_failed_apps /\ UNCHANGED <<observation, failures>>
  BY <1>2, <1>7 DEF observation, Systemd!Observes, OnList
<1>8. CASE UNCHANGED current_failed_apps /\ (ConnectToSystemd \/ UnitComesOrGoes \/ SystemdMoves)
  BY <1>1, <1>2, <1>8, NoNewKnownFailure DEF OnList
<1> QED
  BY <1>3, <1>4, <1>5, <1>6, <1>7, <1>8, OtherSteps

\* A failure more, counted up to the bound.
LEMMA FailureBound ==
  ASSUME NEW n \in 0..MaxFailcount
  PROVE  /\ Failure(n) \in 0..MaxFailcount
         /\ \A c \in 0..n : c < Failure(n) \/ Failure(n) = MaxFailcount
         /\ n <= Failure(n)
BY NhmAssumption DEF Failure, MinLen

LEMMA CountedType ==
  ASSUME IInv, NEW u \in Units
  PROVE  Counted(u) \in Nat
<1>1. u \in Apps /\ nodeinfo \in Seq(LcInfo)
  BY NodeAssumption DEF IInv, TypeOK
<1> QED
  BY <1>1, CurrentCounts DEF Counted

\* The handlers of the observation leave systemd alone.
LEMMA OnlySystemdMoves ==
  ASSUME ConnectToSystemd \/ UnitComesOrGoes
  PROVE  UNCHANGED <<state, failures, vars>>
BY DEF ConnectToSystemd, UnitComesOrGoes, Systemd!Subscribe, Systemd!ListUnits,
       Systemd!NothingListed, Systemd!SubscribeUnit, Systemd!UnitAdded, Systemd!UnitRemoved,
       Systemd!SignalDropped, Systemd!systemd

LEMMA CoverStep ==
  ASSUME IInv, IInv', Observation!QInv, FailuresCover, NodeNext
  PROVE  FailuresCover'
<1>1. /\ failures \in [Units -> 0..MaxFailcount]
      /\ \A u \in Units : u \in Apps /\ failures[u] \in 0..MaxFailcount /\ Counted(u) \in Nat
  BY CountedType, NodeAssumption DEF FailuresCover
<1>2. ASSUME UNCHANGED <<nodeinfo, current_failed_apps, state, failures>>, phase = "down" <=> phase' = "down"
      PROVE  FailuresCover'
  BY <1>2 DEF FailuresCover, Counted, OnList
<1>3. ASSUME NEW w \in Apps, NEW status \in AppStatus, RegisterAppStatus(w, status),
             UNCHANGED <<state, failures>>,
             w \in OnlyObserved => (state[w] = "failed" <=> status = "Failed")
      PROVE  FailuresCover'
  <2>1. phase' = phase /\ phase # "down"
    BY <1>3 DEF RegisterAppStatus, Serving, Idle, process
  <2>2. /\ nodeinfo # <<>> /\ nodeinfo' # <<>>
        /\ OnList(w)' <=> status = "Failed"
        /\ \A b \in Apps \ {w} :
             /\ OnList(b)' <=> OnList(b)
             /\ nodeinfo'[1].failcount[b] = nodeinfo[1].failcount[b]
        /\ IF status = "Failed" /\ ~OnList(w)
           THEN /\ nodeinfo[1].failcount[w] < MaxFailcount
                /\ nodeinfo'[1].failcount[w] = nodeinfo[1].failcount[w] + 1
           ELSE nodeinfo'[1].failcount[w] = nodeinfo[1].failcount[w]
    BY <1>3, RegisterEffect
  <2> SUFFICES ASSUME NEW u \in OnlyObserved
               PROVE  /\ Counted(u)' <= failures[u]
                      /\ state[u] = "failed" /\ ~OnList(u)' =>
                           Counted(u)' < failures[u] \/ failures[u] = MaxFailcount
    BY <1>1, <1>3 DEF FailuresCover, OnlyObserved
  <2>3. u \in Units /\ u \in Apps
    BY <1>1 DEF OnlyObserved
  <2>4. /\ Counted(u) <= failures[u]
        /\ state[u] = "failed" /\ ~OnList(u) => Counted(u) < failures[u] \/ failures[u] = MaxFailcount
    BY <2>1 DEF FailuresCover
  <2>5. Counted(u) = nodeinfo[1].failcount[u] /\ Counted(u)' = nodeinfo'[1].failcount[u]
    BY <2>2 DEF Counted
  <2>6. CASE u # w
    BY <2>2, <2>3, <2>4, <2>5, <2>6
  <2>7. CASE u = w
    <3>1. state[u] = "failed" <=> status = "Failed"
      BY <1>3, <2>7
    <3>2. Counted(u) \in Nat /\ failures[u] \in 0..MaxFailcount /\ MaxFailcount \in Nat
      BY <1>1, <2>3, NhmAssumption
    <3> QED
      BY <2>2, <2>4, <2>5, <2>7, <3>1, <3>2
  <2> QED
    BY <2>6, <2>7
<1>4. CASE \E report \in ClientReports :
             RegisterAppStatus(report[1], report[2]) /\ UNCHANGED <<observation, failures>>
  <2>1. PICK report \in ClientReports :
          RegisterAppStatus(report[1], report[2]) /\ UNCHANGED <<observation, failures>>
    BY <1>4
  <2>2. report[1] \in Apps /\ report[2] \in AppStatus /\ report[1] \notin OnlyObserved
    BY NodeAssumption DEF OnlyObserved
  <2> QED
    BY <1>3, <2>1, <2>2 DEF observation
<1>5. CASE UnitChanges
  <2>1. PICK w \in Units :
          /\ Systemd!PropertiesChanged(w)
          /\ \/ Callback(w) = "none" /\ UNCHANGED vars
             \/ Callback(w) # "none" /\ RegisterAppStatus(w, Callback(w))
    BY <1>5 DEF UnitChanges
  <2>2. UNCHANGED <<state, failures>>
    BY <1>5, <2>1, UnitChangeEffect DEF UnitChanges
  <2>3. CASE UNCHANGED vars
    BY <1>2, <2>2, <2>3 DEF vars, process
  <2>4. CASE Callback(w) # "none" /\ RegisterAppStatus(w, Callback(w))
    <3>1. Callback(w) \in AppStatus /\ w \in Apps
      BY <1>1, <2>4, CallbackStatus
    <3>2. state[w] = "failed" <=> Callback(w) = "Failed"
      BY <2>1, <2>4, CallbackMeaning
    <3> QED
      BY <1>3, <2>2, <2>4, <3>1, <3>2
  <2> QED
    BY <2>1, <2>3, <2>4
<1>6. CASE BusAcquired /\ UNCHANGED <<observation, failures>>
  <2>1. /\ phase = "connected" /\ UNCHANGED <<state, failures, current_failed_apps>>
        /\ nodeinfo = <<>>
    BY <1>6 DEF BusAcquired, observation, IInv, NodeinfoExists
  <2>2. \A u \in Units : Counted(u) = 0 /\ Counted(u)' = 0
    <3>1. PICK verdict \in ReadFlag, previous \in ReadData(config.max_lc_count) :
            nodeinfo' = <<NewLc(verdict)>> \o previous
      BY <1>6 DEF BusAcquired
    <3>2. previous \in Seq(LcInfo)
      BY <3>1, ReadDataType DEF IInv, TypeOK, Config
    <3>3. NewLc(verdict) \in LcInfo
      BY <3>1, NewLcType DEF IInv, TypeOK, ReadFlag, NodeState
    <3>4. nodeinfo'[1] = NewLc(verdict)
      BY <3>1, <3>2, <3>3
    <3> QED
      BY <1>1, <2>1, <3>4 DEF Counted, NewLc
  <2> QED
    BY <1>1, <2>1, <2>2 DEF FailuresCover, OnList, OnlyObserved
<1>7. CASE Begin
  <2>1. /\ phase = "down" /\ UNCHANGED <<nodeinfo, current_failed_apps, state>>
        /\ failures' = [u \in Units |-> IF state[u] = "failed" THEN Failure(0) ELSE 0]
    BY <1>7 DEF Begin, ConnectToNsm, observation
  <2>2. nodeinfo = <<>>
    BY <2>1 DEF IInv, NodeinfoExists
  <2>3. 0 \in 0..MaxFailcount
    BY NhmAssumption
  <2>4. /\ Failure(0) \in 0..MaxFailcount
        /\ 0 < Failure(0) \/ Failure(0) = MaxFailcount
    BY <2>3, FailureBound
  <2>5. \A u \in Units : Counted(u)' = 0
    BY <2>1, <2>2 DEF Counted
  <2> QED
    BY <2>1, <2>3, <2>4, <2>5 DEF FailuresCover, OnlyObserved
<1>8. CASE Ends
  BY <1>1, <1>8 DEF Ends, Exit, Crash, Die, FailuresCover
<1>9. CASE (phase = "down" <=> phase' = "down") /\ UNCHANGED <<nodeinfo, current_failed_apps>> /\ SystemdMoves
  <2>1. failures' = [u \in Units |-> IF state[u] # "failed" /\ state'[u] = "failed"
                                     THEN Failure(failures[u]) ELSE failures[u]]
    BY <1>9 DEF SystemdMoves
  <2>2. failures' \in [Units -> 0..MaxFailcount]
    BY <1>1, <2>1, FailureBound
  <2> SUFFICES ASSUME NEW u \in OnlyObserved, phase # "down"
               PROVE  /\ Counted(u) <= failures'[u]
                      /\ state'[u] = "failed" /\ ~OnList(u) =>
                           Counted(u) < failures'[u] \/ failures'[u] = MaxFailcount
    BY <1>9, <2>2 DEF FailuresCover, OnlyObserved, Counted, OnList
  <2>3. u \in Units /\ failures[u] \in 0..MaxFailcount /\ Counted(u) \in Nat /\ MaxFailcount \in Nat
    BY <1>1, NhmAssumption DEF OnlyObserved
  <2>4. /\ Counted(u) <= failures[u]
        /\ state[u] = "failed" /\ ~OnList(u) => Counted(u) < failures[u] \/ failures[u] = MaxFailcount
    BY DEF FailuresCover
  <2>5. CASE state[u] # "failed" /\ state'[u] = "failed"
    <3>1. failures'[u] = Failure(failures[u]) /\ Counted(u) \in 0..failures[u]
      BY <2>1, <2>3, <2>4, <2>5
    <3>2. /\ Failure(failures[u]) \in 0..MaxFailcount /\ failures[u] <= Failure(failures[u])
          /\ Counted(u) < Failure(failures[u]) \/ Failure(failures[u]) = MaxFailcount
      BY <2>3, <3>1, FailureBound
    <3> QED
      BY <2>3, <3>1, <3>2
  <2>6. CASE ~(state[u] # "failed" /\ state'[u] = "failed")
    BY <2>1, <2>3, <2>4, <2>6
  <2> QED
    BY <2>5, <2>6
<1>10. CASE /\ UNCHANGED <<nodeinfo, current_failed_apps>>
            /\ phase = "down" <=> phase' = "down"
            /\ UNCHANGED <<observation, failures>> \/ ConnectToSystemd \/ UnitComesOrGoes
  BY <1>2, <1>10, OnlySystemdMoves DEF observation
<1> QED
  BY <1>4, <1>5, <1>6, <1>7, <1>8, <1>9, <1>10, OtherSteps

LEMMA InitCovered == ASSUME NodeInit PROVE KnownFailureIsListed /\ FailuresCover
<1>1. \A u \in Units : ~Systemd!Observes(u)
  BY DEF NodeInit, Systemd!Init, Systemd!Observes
<1>2. phase = "down" /\ failures \in [Units -> 0..MaxFailcount]
  BY NhmAssumption DEF NodeInit, Init
<1> QED
  BY <1>1, <1>2 DEF KnownFailureIsListed, FailuresCover, OnlyObserved

LEMMA StutterCovered ==
  ASSUME UNCHANGED node, KnownFailureIsListed, FailuresCover
  PROVE  KnownFailureIsListed' /\ FailuresCover'
BY DEF node, vars, process, observation, KnownFailureIsListed, FailuresCover, Systemd!Observes,
       OnList, Counted, OnlyObserved

\* The chain from systemd to the list and the counts holds in every state of the node.
THEOREM NodeInductive == NodeSpec => []NodeInv
<1>1. NodeSpec => []IInv
  BY NodeImplementsMain, Inductive, PTL DEF ImplementsMain
<1>2. NodeSpec => []Observation!QInv
  <2>1. NodeSpec => Systemd!Init /\ [][Systemd!Next]_(Systemd!vars)
    BY NodeImplementsObservation DEF ImplementsObservation, Systemd!Spec
  <2>2. [Systemd!Next]_(Systemd!vars) => [Observation!Next]_(Observation!vars)
    BY SameObservation DEF Systemd!vars, Observation!vars
  <2>3. Observation!Spec => []Observation!QInv
    BY ObservationPremise, Observation!FollowsInductive
  <2> QED
    BY <2>1, <2>2, <2>3, SameObservation, PTL DEF Observation!Spec
<1>3. NodeInit => KnownFailureIsListed /\ FailuresCover
  BY InitCovered
<1>4. /\ IInv /\ IInv' /\ Observation!QInv
      /\ KnownFailureIsListed /\ FailuresCover /\ [NodeNext]_node
      => KnownFailureIsListed' /\ FailuresCover'
  BY ListedStep, CoverStep, StutterCovered
<1> QED
  BY <1>1, <1>2, <1>3, <1>4, PTL DEF NodeSpec, NodeInv

\* No failure is made up or counted twice, for any number of units, and whatever is
\* reported of other applications.
THEOREM OnlyRealFailuresCount == NodeSpec => []CountsAreReal
<1>1. NodeInv => CountsAreReal
  BY DEF NodeInv, FailuresCover, CountsAreReal, Counted
<1> QED
  BY <1>1, NodeInductive, PTL

\* A failure under observation reaches the list, the current life cycle and the NSM, when
\* the calls to the NSM work.
THEOREM FailureKnown ==
  ASSUME "nsm" \notin Faults
  PROVE  NodeSpec => []FailureKnownEverywhere
<1>1. NodeSpec => []NsmKnowsFailed
  BY NodeImplementsMain, NsmAgrees, PTL DEF ImplementsMain
<1>2. ASSUME NodeInv, NsmKnowsFailed, Systemd!EveryUnitObserved, Systemd!KnownIsCurrent
      PROVE  FailureKnownEverywhere
  <2> SUFFICES ASSUME NEW u \in OnlyObserved, Known(u), state[u] = "failed", read[u] # "failed"
               PROVE  OnList(u) /\ nodeinfo[1].failcount[u] > 0 /\ ~nsm_health[u]
    BY DEF FailureKnownEverywhere
  <2>1. u \in Units
    BY DEF OnlyObserved
  <2>2. Systemd!Observes(u)
    BY <1>2, <2>1 DEF Known, Systemd!Quiet, Systemd!Signals, Systemd!EveryUnitObserved
  <2>3. observed[u][1] = "failed"
    BY <1>2, <2>1 DEF Known, Systemd!KnownIsCurrent
  <2>4. OnList(u)
    BY <1>2, <2>2, <2>3 DEF NodeInv, KnownFailureIsListed
  <2>5. PICK i \in DOMAIN current_failed_apps : current_failed_apps[i] = u
    BY <2>4 DEF OnList
  <2> QED
    BY <1>2, <2>4, <2>5 DEF NodeInv, IInv, FailedIsCounted, NsmKnowsFailed
<1>3. NodeSpec => [](Systemd!EveryUnitObserved /\ Systemd!KnownIsCurrent)
  BY NodeObservationSound, PTL
<1> QED
  BY <1>1, <1>2, <1>3, NodeInductive, PTL

----------------------------------------------------------------------------
(***************************************************************************)
(* The limit counts only what really failed.                               *)
(***************************************************************************)

\* Whatever is on the list may have failed, and what systemd has for failed did.
ListedMayHaveFailed ==
  /\ \A a \in Apps : OnList(a) => a \in MayHaveFailed
  /\ phase # "down" /\ MaxFailcount > 0 => \A u \in Units : state[u] = "failed" => failures[u] > 0

\* No failure of a unit is forgotten while the process runs.
LEMMA FailuresStay ==
  ASSUME FailuresCover, NodeNext, ~Begin
  PROVE  /\ MayHaveFailed \subseteq MayHaveFailed'
         /\ \A u \in Units : failures[u] > 0 => failures'[u] > 0
         /\ MaxFailcount > 0 =>
              \A u \in Units : state'[u] = "failed" => state[u] = "failed" \/ failures'[u] > 0
<1>1. \A u \in Units : failures[u] \in 0..MaxFailcount
  BY DEF FailuresCover
<1>2. CASE UNCHANGED <<state, failures>>
  BY <1>2 DEF MayHaveFailed
<1>3. CASE SystemdMoves
  <2>1. failures' = [u \in Units |-> IF state[u] # "failed" /\ state'[u] = "failed"
                                     THEN Failure(failures[u]) ELSE failures[u]]
    BY <1>3 DEF SystemdMoves
  <2>2. ASSUME NEW u \in Units
        PROVE  /\ failures[u] \in Nat /\ Failure(failures[u]) \in Nat
               /\ failures[u] <= Failure(failures[u])
               /\ MaxFailcount > 0 => Failure(failures[u]) > 0
    <3>1. failures[u] \in 0..MaxFailcount /\ 0 \in 0..failures[u] /\ MaxFailcount \in Nat
      BY <1>1, NhmAssumption
    <3>2. /\ Failure(failures[u]) \in 0..MaxFailcount
          /\ 0 < Failure(failures[u]) \/ Failure(failures[u]) = MaxFailcount
          /\ failures[u] <= Failure(failures[u])
      BY <3>1, FailureBound
    <3> QED
      BY <3>1, <3>2
  <2>3. ASSUME NEW u \in Units
        PROVE  /\ failures[u] > 0 => failures'[u] > 0
               /\ MaxFailcount > 0 /\ state'[u] = "failed" => state[u] = "failed" \/ failures'[u] > 0
    <3>1. /\ failures[u] \in Nat /\ Failure(failures[u]) \in Nat
          /\ failures[u] <= Failure(failures[u])
          /\ MaxFailcount > 0 => Failure(failures[u]) > 0
      BY <1>1, <2>2
    <3>2. CASE state[u] # "failed" /\ state'[u] = "failed"
      <4>1. failures'[u] = Failure(failures[u])
        BY <2>1, <3>2
      <4> QED
        BY <3>1, <4>1
    <3>3. CASE ~(state[u] # "failed" /\ state'[u] = "failed")
      <4>1. failures'[u] = failures[u]
        BY <2>1, <3>3
      <4> QED
        BY <3>3, <4>1
    <3> QED
      BY <3>2, <3>3
  <2> QED
    BY <2>3 DEF MayHaveFailed
<1>4. CASE MainHandler \/ EntersService
  BY <1>2, <1>4 DEF MainHandler, EntersService, observation
<1>5. CASE ConnectToSystemd \/ UnitComesOrGoes
  BY <1>2, <1>5, OnlySystemdMoves
<1>6. CASE UnitChanges \/ Ends
  BY <1>2, <1>6 DEF UnitChanges, Ends, observation, Systemd!PropertiesChanged, Systemd!Stop,
                    Systemd!systemd
<1> QED
  BY <1>3, <1>4, <1>5, <1>6 DEF NodeNext

LEMMA ListedMayHaveFailedStep ==
  ASSUME IInv, Observation!QInv, FailuresCover, ListedMayHaveFailed, NodeNext
  PROVE  ListedMayHaveFailed'
<1>1. CASE Begin
  <2>1. /\ phase = "down" /\ UNCHANGED <<current_failed_apps, state>>
        /\ failures' = [u \in Units |-> IF state[u] = "failed" THEN Failure(0) ELSE 0]
    BY <1>1 DEF Begin, ConnectToNsm, observation
  <2>2. \A a \in Apps : ~OnList(a)'
    BY <2>1 DEF IInv, ListEmptyUntilExported, OnList
  <2>3. MaxFailcount > 0 => Failure(0) > 0
    BY FailureBound, NhmAssumption
  <2> QED
    BY <2>1, <2>2, <2>3 DEF ListedMayHaveFailed
<1>2. ASSUME ~Begin, phase' # "down" => phase # "down",
             \A a \in Apps : OnList(a)' => OnList(a) \/ a \in MayHaveFailed'
      PROVE  ListedMayHaveFailed'
  <2>1. MayHaveFailed \subseteq MayHaveFailed'
    BY <1>2, FailuresStay
  <2>2. \A a \in Apps : OnList(a)' => a \in MayHaveFailed'
    BY <1>2, <2>1 DEF ListedMayHaveFailed
  <2>3. MaxFailcount > 0 =>
          \A u \in Units : state'[u] = "failed" => state[u] = "failed" \/ failures'[u] > 0
    BY <1>2, FailuresStay
  <2>4. ASSUME phase' # "down", MaxFailcount > 0, NEW u \in Units, state'[u] = "failed"
        PROVE  failures'[u] > 0
    <3>1. CASE state[u] = "failed"
      <4>1. failures[u] > 0
        BY <1>2, <2>4, <3>1 DEF ListedMayHaveFailed
      <4> QED
        BY <1>2, <2>4, <4>1, FailuresStay
    <3> QED
      BY <2>3, <2>4, <3>1
  <2> QED
    BY <2>2, <2>4 DEF ListedMayHaveFailed
<1>3. CASE \E report \in ClientReports :
             RegisterAppStatus(report[1], report[2]) /\ UNCHANGED <<observation, failures>>
  <2>1. PICK report \in ClientReports : RegisterAppStatus(report[1], report[2])
    BY <1>3
  <2>2. report = <<report[1], report[2]>> /\ report[1] \in Apps /\ report[2] \in AppStatus
    BY NodeAssumption
  <2>3. /\ OnList(report[1])' <=> report[2] = "Failed"
        /\ \A b \in Apps \ {report[1]} : OnList(b)' <=> OnList(b)
    BY <2>1, <2>2, RegisterEffect
  <2>4. \A a \in Apps : OnList(a)' => OnList(a) \/ a \in MayHaveFailed'
    BY <2>1, <2>2, <2>3 DEF MayHaveFailed
  <2>5. phase # "down"
    BY <2>1 DEF RegisterAppStatus, Serving, Idle
  <2> QED
    BY <1>1, <1>2, <2>4, <2>5
<1>4. CASE UnitChanges
  <2>1. PICK w \in Units :
          /\ Systemd!PropertiesChanged(w)
          /\ \/ Callback(w) = "none" /\ UNCHANGED vars
             \/ Callback(w) # "none" /\ RegisterAppStatus(w, Callback(w))
    BY <1>4 DEF UnitChanges
  <2>2. w \in Apps /\ phase # "down" /\ UNCHANGED failures
    BY <1>4, NodeAssumption DEF UnitChanges, Idle
  <2>3. CASE UNCHANGED vars
    BY <1>1, <1>2, <2>2, <2>3 DEF vars, OnList
  <2>4. CASE Callback(w) # "none" /\ RegisterAppStatus(w, Callback(w))
    <3>1. Callback(w) \in AppStatus
      BY <2>4, CallbackStatus
    <3>2. /\ OnList(w)' <=> Callback(w) = "Failed"
          /\ \A b \in Apps \ {w} : OnList(b)' <=> OnList(b)
          /\ Callback(w) = "Failed" /\ ~OnList(w) => nodeinfo[1].failcount[w] < MaxFailcount
      BY <2>2, <2>4, <3>1, RegisterEffect
    <3>3. ASSUME OnList(w)', ~OnList(w) PROVE w \in MayHaveFailed'
      <4>1. state[w] = "failed"
        BY <2>1, <3>2, <3>3, CallbackMeaning
      <4>2. nodeinfo[1].failcount[w] \in Nat
        <5>1. nodeinfo # <<>>
          BY <2>2, <2>4, <3>1, RegisterEffect
        <5> QED
          BY <5>1, CountedType DEF Counted
      <4>3. MaxFailcount > 0
        BY <3>2, <3>3, <4>2, NhmAssumption
      <4> QED
        BY <2>2, <4>1, <4>3 DEF ListedMayHaveFailed, MayHaveFailed
    <3>4. \A a \in Apps : OnList(a)' => OnList(a) \/ a \in MayHaveFailed'
      BY <3>2, <3>3
    <3> QED
      BY <1>1, <1>2, <2>2, <3>4
  <2> QED
    BY <2>1, <2>3, <2>4
<1>5. CASE BusAcquired \/ (UNCHANGED current_failed_apps /\ (phase = "down" <=> phase' = "down"))
  BY <1>1, <1>2, <1>5 DEF BusAcquired, OnList
<1>6. CASE Ends
  BY <1>1, <1>2, <1>6 DEF Ends, Exit, Crash, Die, FreeNhmObjects, OnList
<1> QED
  BY <1>1, <1>3, <1>4, <1>5, <1>6, OtherSteps

\* Only the check behind a failure requests a restart while a handler runs.
LEMMA RequestStep ==
  ASSUME IInv, NodeNext, pc = "return", restart' # restart
  PROVE  LimitReached /\ UNCHANGED <<config, current_failed_apps, failures>>
<1>1. phase # "down"
  BY DEF IInv, NodeinfoExists
<1>2. CASE CheckFailedAppRestart /\ UNCHANGED failures
  BY <1>2 DEF CheckFailedAppRestart, process
<1>3. CASE MainHandler
  <2>1. ~ (\E report \in ClientReports : RegisterAppStatus(report[1], report[2]))
    BY DEF RegisterAppStatus, Serving, Idle
  <2>2. CASE ConnectToNsmFails \/ BusAcquired \/ NameAcquired \/ NameLost \/ Sigterm
    BY <1>1, <2>2 DEF ConnectToNsmFails, BusAcquired, NameAcquired, NameLost, Sigterm, Quit, Idle
  <2>3. CASE OpenLcData \/ FlushLcData
    BY <2>3 DEF OpenLcData, FlushLcData
  <2>4. CASE (\E a \in Apps : RequestNodeRestart(a)) \/ \E type \in {"RUNUP", "NORMAL"} : LcRequest(type)
    BY <2>4 DEF RequestNodeRestart, LcRequest, Serving, Idle
  <2> QED
    BY <1>2, <1>3, <2>1, <2>2, <2>3, <2>4 DEF MainHandler
<1>4. CASE Begin
  BY <1>1, <1>4 DEF Begin, ConnectToNsm
<1>5. CASE EntersService \/ Ends
  BY <1>5 DEF EntersService, Ready, Ends, Exit, Crash, Die
<1>6. CASE ConnectToSystemd \/ UnitComesOrGoes \/ UnitChanges \/ SystemdMoves
  BY <1>6 DEF ConnectToSystemd, UnitComesOrGoes, UnitChanges, SystemdMoves, vars, Idle
<1> QED
  BY <1>3, <1>4, <1>5, <1>6 DEF NodeNext

\* A restart that the limit asks for has as many different applications that failed, for
\* any units and clients, and whatever calls fail.
THEOREM RestartsAreReasoned ==
  ASSUME IsFiniteSet(Apps)
  PROVE  NodeSpec => RestartHasReasons
<1>1. NodeInit => ListedMayHaveFailed
  BY DEF NodeInit, Init, ListedMayHaveFailed, OnList
<1>2. NodeInv /\ ListedMayHaveFailed /\ [NodeNext]_node => ListedMayHaveFailed'
  <2>1. CASE NodeNext
    BY <2>1, ListedMayHaveFailedStep DEF NodeInv
  <2>2. ASSUME UNCHANGED node, ListedMayHaveFailed PROVE ListedMayHaveFailed'
    BY <2>2 DEF node, vars, process, observation, ListedMayHaveFailed, MayHaveFailed, OnList
  <2> QED
    BY <2>1, <2>2
<1>3. NodeInv /\ ListedMayHaveFailed /\ [NodeNext]_node
        => [pc = "return" /\ restart' # restart
              => Cardinality(MayHaveFailed) >= config.max_failed_apps]_node
  <2> SUFFICES ASSUME NodeInv, ListedMayHaveFailed, NodeNext, pc = "return", restart' # restart
               PROVE  Cardinality(MayHaveFailed) >= config.max_failed_apps
    OBVIOUS
  <2>1. Len(current_failed_apps) >= config.max_failed_apps
    BY RequestStep DEF NodeInv, LimitReached
  <2>2. IsFiniteSet(MayHaveFailed)
    <3>1. MayHaveFailed \subseteq Apps
      BY NodeAssumption DEF MayHaveFailed
    <3> QED
      BY <3>1, FS_Subset
  <2>3. Len(current_failed_apps) <= Cardinality(MayHaveFailed)
    BY <2>2, ListedAtMost DEF NodeInv, ListedMayHaveFailed
  <2>4. /\ config.max_failed_apps \in Nat
        /\ Len(current_failed_apps) \in Nat
        /\ Cardinality(MayHaveFailed) \in Nat
    BY <2>2, LenProperties, FS_CardinalityType DEF NodeInv, IInv, TypeOK, Config
  <2> QED
    BY <2>1, <2>3, <2>4
<1>4. NodeSpec => []ListedMayHaveFailed
  BY <1>1, <1>2, NodeInductive, PTL DEF NodeSpec
<1> QED
  BY <1>3, <1>4, NodeInductive, PTL DEF NodeSpec, RestartHasReasons
============================================================================
