--------------------------- MODULE NhmMainHistory ---------------------------
(***************************************************************************)
(* NhmMain with history variables: what really happened to the process and *)
(* the shutdowns it was told of, against which the recorded verdict on the *)
(* last life cycle is judged.  No action of NhmMain depends on them.       *)
(***************************************************************************)
EXTENDS NhmMain

VARIABLES
  asked,      \* the last life-cycle request of this process was a shutdown
  shutdown,   \* ... of the last process that acquired its name
  lastEnd     \* how the last process ended

history == <<asked, shutdown, lastEnd>>

HInit ==
  /\ Init
  /\ asked = FALSE
  /\ shutdown = FALSE
  /\ lastEnd = "none"

HStart == ConnectToNsm /\ asked' = FALSE /\ UNCHANGED <<shutdown, lastEnd>>

HNameAcquired ==
  /\ NameAcquired
  /\ shutdown' = FALSE
  /\ UNCHANGED <<asked, lastEnd>>

HLcRequest(type) ==
  /\ LcRequest(type)
  /\ asked' = (type # "RUNUP")
  /\ shutdown' = IF phase = "running" THEN type # "RUNUP" ELSE shutdown
  /\ UNCHANGED lastEnd

HEnd ==
  /\ \/ Exit /\ lastEnd' = IF asked THEN "shutdown" ELSE "exit"
     \/ Crash /\ lastEnd' = IF asked THEN "shutdown" ELSE "crash"
  /\ UNCHANGED <<asked, shutdown>>

HOther ==
  /\ \/ ConnectToNsmFails \/ BusAcquired \/ Ready \/ OpenLcData \/ FlushLcData
     \/ \E a \in Apps, status \in AppStatus : RegisterAppStatus(a, status)
     \/ CheckFailedAppRestart
     \/ \E a \in Apps : RequestNodeRestart(a)
     \/ NameLost \/ Sigterm
  /\ UNCHANGED history

HNext ==
  \/ HStart
  \/ HNameAcquired
  \/ \E type \in {"RUNUP", "NORMAL"} : HLcRequest(type)
  \/ HEnd
  \/ HOther

HSpec == HInit /\ [][HNext]_<<vars, history>>

----------------------------------------------------------------------------
\* The step of nhm_main_bus_acquired_cb() that opens a life cycle.
Opens == nodeinfo = <<>> /\ nodeinfo' # <<>>

\* The verdict on the life cycle before is right: "SHUTDOWN" if and only if the
\* last word of the NSM to the last process that came into service was a
\* shutdown, however many processes failed to start, or ended, since.
VerdictIsTrue ==
  [][Opens => (nodeinfo'[1].start_state = "SHUTDOWN" <=> shutdown)]_<<vars, history>>

\* An unexpected end of the process that ran last is noticed at the next start.
\* The code misses one before nhm_main_name_acquired_cb() has reset the flag.
CrashIsCaught ==
  [][Opens /\ lastEnd = "crash" => nodeinfo'[1].start_state # "SHUTDOWN"]_<<vars, history>>
============================================================================
