------------------------------ MODULE NhmNode ------------------------------
(***************************************************************************)
(* The main process together with its observation of systemd: one process, *)
(* one main loop, one callback from the observation into                   *)
(* nhm_main_register_app_status(), and systemd beside them.                *)
(*                                                                         *)
(* Every step is a step of NhmMain, a step of NhmSystemd, or the two at    *)
(* once where the code calls from one into the other.                      *)
(***************************************************************************)
EXTENDS NhmMain

CONSTANTS
  Units,          \* applications that are systemd units
  ClientReports,  \* applications and the status that clients report of them
  Moves,          \* as in NhmSystemd
  MaxSignals,
  BusFails

VARIABLES
  loaded, state, signals, step, todo, read, observed, reported, missed,
  failures  \* of the unit since this process was started, one that it finds included

Systemd == INSTANCE NhmSystemd

ASSUME NodeAssumption ==
  /\ Units \subseteq Apps
  /\ ClientReports \subseteq Apps \X AppStatus
  /\ Moves \subseteq Systemd!ActiveStates \X Systemd!ActiveStates
  /\ MaxSignals \in Nat
  /\ BusFails \in BOOLEAN

observation == <<loaded, state, signals, step, todo, read, observed, reported, missed>>
node == <<vars, observation, failures>>

\* Failures beyond the bound on a failcount are not told apart.
Failure(count) == MinLen(count + 1, MaxFailcount)

----------------------------------------------------------------------------
\* The main loop runs no handler while another one waits for systemd.
BetweenHandlers == step # "adding"

\* Steps of handlers in which the observation plays no part.
MainHandler ==
  /\ BetweenHandlers
  /\ \/ ConnectToNsmFails
     \/ BusAcquired
     \/ NameAcquired
     \/ OpenLcData
     \/ FlushLcData
     \/ \E report \in ClientReports : RegisterAppStatus(report[1], report[2])
     \/ CheckFailedAppRestart
     \/ \E a \in Apps : RequestNodeRestart(a)
     \/ \E type \in {"RUNUP", "NORMAL"} : LcRequest(type)
     \/ NameLost
     \/ Sigterm
  /\ UNCHANGED <<observation, failures>>

\* A process begins: the failures are counted from here.
Begin ==
  /\ ConnectToNsm
  /\ failures' = [u \in Units |-> IF state[u] = "failed" THEN Failure(0) ELSE 0]
  /\ UNCHANGED observation

\* Mutant: the units that are found failed are put on the list at once.
ConnectToSystemdReports ==
  /\ pc = "return"
  /\ caller = "name_acquired"
  /\ Systemd!Connect
  /\ IF step = "subscribed" /\ \E u \in todo' : read'[u] = "failed"
     THEN \E u \in todo' : read'[u] = "failed" /\ current_failed_apps' = <<u>>
     ELSE UNCHANGED current_failed_apps
  /\ UNCHANGED <<process, handler, nodeinfo, flag, lcdata, nsm_health, restart, failures>>

\* nhm_main_name_acquired_cb() behind nhm_main_write_data(): nhm_systemd_connect().
ConnectToSystemd ==
  /\ pc = "return"
  /\ caller = "name_acquired"
  /\ \/ Systemd!Subscribe
     \/ Systemd!ListUnits
     \/ Systemd!NothingListed
     \/ step = "listing" /\ \E u \in Units : Systemd!SubscribeUnit(u)
  /\ UNCHANGED <<vars, failures>>

\* READY=1 and the return to the main loop, with the observation or without it.
EntersService ==
  /\ step \in {"idle", "refused"}
  /\ Ready
  /\ UNCHANGED <<observation, failures>>

----------------------------------------------------------------------------
\* A unit that comes or goes.
UnitComesOrGoes ==
  /\ Idle
  /\ \E u \in Units :
       \/ Systemd!UnitAdded(u)
       \/ step = "adding" /\ Systemd!SubscribeUnit(u)
       \/ Systemd!UnitRemoved(u)
       \/ Systemd!SignalDropped(u)
  /\ UNCHANGED <<vars, failures>>

\* Whether the change of the unit's state calls nhm_systemd_app_status_cb.
Callback(u) ==
  LET to == observed'[u][1]
  IN  IF to = observed[u][1] THEN "none" ELSE Systemd!Reports(observed[u][1], to)

\* Mutant: the callback does not reach the list of failed applications.
UnitChangesUnlisted ==
  /\ Idle
  /\ \E u \in Units :
       /\ Systemd!PropertiesChanged(u)
       /\ \/ Callback(u) = "none" /\ UNCHANGED vars
          \/ /\ Callback(u) # "none"
             /\ TellNsm(u, Callback(u))
             /\ UNCHANGED <<process, handler, nodeinfo, current_failed_apps, flag, lcdata, restart>>
  /\ UNCHANGED failures

\* nhm_main_register_app_status() is the callback and runs within the handler.
UnitChanges ==
  /\ Idle
  /\ \E u \in Units :
       /\ Systemd!PropertiesChanged(u)
       /\ \/ Callback(u) = "none" /\ UNCHANGED vars
          \/ Callback(u) # "none" /\ RegisterAppStatus(u, Callback(u))
  /\ UNCHANGED failures

\* systemd itself, at any time.
SystemdMoves ==
  /\ Systemd!Environment
  /\ failures' = [u \in Units |-> IF state[u] # "failed" /\ state'[u] = "failed"
                                  THEN Failure(failures[u]) ELSE failures[u]]
  /\ UNCHANGED vars

\* Mutant: the list of units outlives the observation.
EndsKeepingUnits ==
  /\ (BetweenHandlers /\ Exit) \/ Crash
  /\ step' = "off"
  /\ signals' = <<>>
  /\ UNCHANGED <<loaded, state, todo, read, observed, reported, missed, failures>>

\* The process ends, and the observation with it.
Ends ==
  /\ (BetweenHandlers /\ Exit) \/ Crash
  /\ IF step = "off" THEN UNCHANGED observation ELSE Systemd!Stop
  /\ UNCHANGED failures

----------------------------------------------------------------------------
NodeInit ==
  /\ Init
  /\ Systemd!Init
  /\ failures = [u \in Units |-> 0]

NodeNext ==
  \/ MainHandler
  \/ Begin
  \/ ConnectToSystemd
  \/ EntersService
  \/ UnitComesOrGoes
  \/ UnitChanges
  \/ SystemdMoves
  \/ Ends

NodeSpec == NodeInit /\ [][NodeNext]_node

----------------------------------------------------------------------------
\* The composition adds no behaviour to the main process: what is shown of it
\* against arbitrary reports holds for those the observation makes.
ImplementsMain == Spec

\* Nor to the observation: nothing the main process does disturbs it.
ImplementsObservation == Systemd!Spec

\* Units of which only the observation reports.
OnlyObserved == {u \in Units : \A report \in ClientReports : report[1] # u}

\* What the observation knows and has no more signal to handle for.
Known(u) ==
  /\ Idle
  /\ Systemd!Quiet(u)
  /\ u \notin missed
  /\ observed[u][1] # "unknown"

\* A unit that failed under observation is known to have failed everywhere: it is on
\* the list of failed applications, counted in the current life cycle, and the NSM
\* does not take it for running.
FailureKnownEverywhere ==
  \A u \in OnlyObserved :
    Known(u) /\ state[u] = "failed" /\ read[u] # "failed" =>
      /\ OnList(u)
      /\ nodeinfo[1].failcount[u] > 0
      /\ ~nsm_health[u]

\* No failure is made up or counted twice, however signals are merged, calls to
\* systemd fail, and units come and go.
CountsAreReal ==
  \A u \in OnlyObserved :
    nodeinfo # <<>> /\ phase = "running" => nodeinfo[1].failcount[u] <= failures[u]

\* Applications that can have failed since this process was started: units of which
\* systemd knows a failure, and those that a client calls failed.
MayHaveFailed ==
  {u \in Units : failures[u] > 0} \cup {a \in Apps : <<a, "Failed">> \in ClientReports}

\* The limit asks for a restart only when as many different applications have really
\* failed while this process ran: neither a failed call to systemd, nor a unit that is
\* told of twice, nor what an earlier process left behind adds one.
RestartHasReasons ==
  [][pc = "return" /\ restart' # restart
       => Cardinality(MayHaveFailed) >= config.max_failed_apps]_node

----------------------------------------------------------------------------
\* A restart is asked for only if as many applications are really failed as the
\* limit says: the list is of those that are currently in a failed state.
RestartIsJustified ==
  [][pc = "return" /\ restart' # restart /\ (\A u \in Units : Systemd!Quiet(u) /\ u \notin missed) =>
       Cardinality({u \in Units : state[u] = "failed"}) >= config.max_failed_apps]_node
============================================================================
