------------------------ MODULE NhmMainHistoryProofs ------------------------
(***************************************************************************)
(* The verdict on the life cycle before, for every number of processes     *)
(* that start, serve, end and crash, and for every configuration.          *)
(***************************************************************************)
EXTENDS NhmMainHistory, NhmMainProofs

\* The flag in the PCL outlives the process and says what the NSM last said to it.
FlagTellsShutdown == flag = "SHUTDOWN" <=> shutdown

----------------------------------------------------------------------------
LEMMA MainStepOfHistory == ASSUME HNext PROVE Next
<1>1. CASE HStart \/ HNameAcquired
  BY <1>1 DEF HStart, HNameAcquired, Next
<1>2. CASE \E type \in {"RUNUP", "NORMAL"} : HLcRequest(type)
  BY <1>2 DEF HLcRequest, Next
<1>3. CASE HEnd
  BY <1>3 DEF HEnd, Next
<1>4. CASE HOther
  BY <1>4 DEF HOther, Next
<1> QED
  BY <1>1, <1>2, <1>3, <1>4 DEF HNext

\* The history variables watch the process and do not lead it: what is proved of the
\* process holds of every behaviour they are added to.
THEOREM HistoryImplementsMain == HSpec => Spec
<1>1. HInit => Init
  BY DEF HInit
<1>2. [HNext]_<<vars, history>> => [Next]_vars
  BY MainStepOfHistory
<1> QED
  BY <1>1, <1>2, PTL DEF HSpec, Spec

LEMMA FlagStep ==
  ASSUME Faults \cap {"pcl", "early"} = {}, FlagTellsShutdown, [HNext]_<<vars, history>>
  PROVE  FlagTellsShutdown'
<1>1. CASE HNameAcquired
  BY <1>1 DEF HNameAcquired, NameAcquired, WriteFlag, FlagTellsShutdown
<1>2. CASE \E type \in {"RUNUP", "NORMAL"} : HLcRequest(type)
  BY <1>2 DEF HLcRequest, LcRequest, WriteFlag, FlagTellsShutdown
<1>3. CASE HStart \/ HEnd
  BY <1>3
     DEF HStart, ConnectToNsm, HEnd, Exit, Crash, Die, FreeNhmObjects, FreeConfigObjects,
         FlagTellsShutdown
<1>4. CASE HOther
  <2>1. UNCHANGED flag
    BY <1>4
       DEF HOther, ConnectToNsmFails, BusAcquired, Ready, OpenLcData, FlushLcData,
           RegisterAppStatus, CheckFailedAppRestart, RequestNodeRestart, NameLost, Sigterm, Quit
  <2> QED
    BY <1>4, <2>1 DEF HOther, history, FlagTellsShutdown
<1>5. CASE UNCHANGED <<vars, history>>
  BY <1>5 DEF vars, history, FlagTellsShutdown
<1> QED
  BY <1>1, <1>2, <1>3, <1>4, <1>5 DEF HNext

\* Only nhm_main_bus_acquired_cb() opens a life cycle.
LEMMA OpensWithBus == ASSUME IInv, Opens, HNext PROVE BusAcquired
<1>1. nodeinfo' # nodeinfo
  BY DEF Opens
<1>2. ASSUME NEW a \in Apps, NEW status \in AppStatus
      PROVE  ~RegisterAppStatus(a, status)
  BY DEF IInv, NodeinfoExists, RegisterAppStatus, Serving, Idle, Opens
<1>3. CASE HStart \/ HNameAcquired \/ HEnd
  BY <1>1, <1>3
     DEF HStart, ConnectToNsm, HNameAcquired, NameAcquired, HEnd, Exit, Crash, Die,
         FreeNhmObjects, Opens
<1>4. CASE \E type \in {"RUNUP", "NORMAL"} : HLcRequest(type)
  BY <1>1, <1>4 DEF HLcRequest, LcRequest
<1>5. CASE HOther
  BY <1>1, <1>2, <1>5
     DEF HOther, ConnectToNsmFails, Ready, OpenLcData, FlushLcData, CheckFailedAppRestart,
         RequestNodeRestart, NameLost, Sigterm, Quit
<1> QED
  BY <1>3, <1>4, <1>5 DEF HNext

LEMMA VerdictOfFlag ==
  ASSUME "pcl" \notin Faults, IInv, BusAcquired
  PROVE  nodeinfo'[1].start_state = flag
<1>1. PICK state \in ReadFlag, previous \in ReadData(config.max_lc_count) :
        nodeinfo' = <<NewLc(state)>> \o previous
  BY DEF BusAcquired
<1>2. state = flag /\ flag \in NodeState
  BY <1>1 DEF ReadFlag, IInv, TypeOK
<1>3. previous \in Seq(LcInfo) /\ NewLc(state) \in LcInfo
  BY <1>1, <1>2, ReadDataType, NewLcType DEF IInv, TypeOK, Config
<1>4. nodeinfo'[1] = NewLc(state)
  BY <1>1, <1>3
<1> QED
  BY <1>2, <1>4 DEF NewLc

\* When the PCL works and the NSM asks no process that is not in service, each life
\* cycle is opened with the true verdict on the one before: a shutdown is one that the
\* NSM announced to the last process in service, anything else a failure.
THEOREM VerdictsAreTrue ==
  ASSUME Faults \cap {"pcl", "early"} = {}
  PROVE  HSpec => VerdictIsTrue
<1>1. HSpec => []IInv
  BY HistoryImplementsMain, Inductive, PTL
<1>2. HInit => FlagTellsShutdown
  BY DEF HInit, Init, FlagTellsShutdown
<1>3. FlagTellsShutdown /\ [HNext]_<<vars, history>> => FlagTellsShutdown'
  BY FlagStep
<1>4. IInv /\ FlagTellsShutdown /\ [HNext]_<<vars, history>>
        => [Opens => (nodeinfo'[1].start_state = "SHUTDOWN" <=> shutdown)]_<<vars, history>>
  BY OpensWithBus, VerdictOfFlag DEF FlagTellsShutdown
<1> QED
  BY <1>1, <1>2, <1>3, <1>4, PTL DEF HSpec, VerdictIsTrue
=============================================================================
