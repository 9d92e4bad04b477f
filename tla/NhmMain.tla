------------------------------ MODULE NhmMain ------------------------------
(***************************************************************************)
(* The main process of the node health monitor, src/src/nhm-main.c: the    *)
(* list of currently failed applications, the life-cycle history and its   *)
(* file, the shutdown flag, the restart request at the NSM, and the life   *)
(* of the process from main() to its exit.                                 *)
(*                                                                         *)
(* The process is one glib main loop: handlers run one at a time.  A       *)
(* handler is split where another process can see, or a crash can leave,   *)
(* an intermediate state: around the file and before the restart request.  *)
(***************************************************************************)
EXTENDS NhmConfig, FiniteSets, FiniteSetsExt

CONSTANTS
  Apps,          \* unit names that clients and the systemd observation report
  KeyFiles,      \* contents the [node] group of the key file may have at a start
  MaxFailcount,  \* bound on a failcount (a guint in the code)
  Faults         \* the faults and environments that may happen in a run

NodeState == {"NOTSET", "STARTED", "SHUTDOWN"}

\* A status outside the enumeration is treated by the code as "Restarting" is.
AppStatus == {"Ok", "Restarting", "Failed"}

Config == [max_lc_count : Nat, max_failed_apps : Nat, no_restart_apps : Seq(Apps)]

\* nhm_main_init() and a key file that cannot be loaded give these values.
DefaultConfig == [max_lc_count |-> 0, max_failed_apps |-> 0, no_restart_apps |-> <<>>]

KeyFile == [historic_lc_count : IntegerKey, max_failed_apps : IntegerKey,
            no_restart_apps : ListKey(Apps)]

(***************************************************************************)
(* The list of NhmFailedApp is kept as what a search by name finds in it:  *)
(* the failcount of each application, 0 when there is no entry.            *)
(***************************************************************************)
LcInfo == [start_state : NodeState, failcount : [Apps -> 0..MaxFailcount]]

NewLc(state) == [start_state |-> state, failcount |-> [a \in Apps |-> 0]]

(***************************************************************************)
(* "crash"  the process is killed between two steps                        *)
(* "disk"   the file may end anywhere after an open for writing (full      *)
(*          disk, crash during fclose, power loss before the data is out)  *)
(* "io"     fopen() fails                                                  *)
(* "pcl"    the persistence client library fails                           *)
(* "nsm"    a D-Bus call to the NSM fails                                  *)
(* "config" the key file cannot be loaded                                  *)
(* "early"  a life-cycle request comes before the name is acquired         *)
(***************************************************************************)
FaultKinds == {"crash", "disk", "io", "pcl", "nsm", "config", "early"}

ASSUME NhmAssumption ==
  /\ MaxFailcount \in Nat
  /\ KeyFiles \subseteq KeyFile
  /\ Faults \subseteq FaultKinds

VARIABLES
  phase,                \* how far the process has come
  quitting,             \* g_main_loop_quit() has been called
  mainreturn,           \* exit code of the process
  pc,                   \* step of the handler that is running, or "idle"
  caller,               \* the handler that called nhm_main_write_data()
  config,               \* max_lc_count, max_failed_apps, no_restart_apps
  nodeinfo,             \* life cycles, the current one first
  current_failed_apps,  \* names of the applications that are failed now
  flag,                 \* NHM_SHUTDOWN_FLAG_NAME in the PCL, survives the process
  lcdata,               \* NHM_LC_DATA_FILE, survives the process
  nsm_health,           \* the health the NSM holds of each application
  restart               \* the NSM's answer to a restart request sent since
                        \* current_failed_apps last grew
process == <<phase, quitting, mainreturn, config>>
handler == <<pc, caller>>
vars == <<process, handler, nodeinfo, current_failed_apps, flag, lcdata, nsm_health, restart>>

Phases == {"down", "connected", "exported", "broken", "running"}
PcValues == {"idle", "open", "flush", "return"}
Callers == {"none", "register", "name_acquired"}
Answers == {"Ok", "RestartNotPossible", "Error"}

----------------------------------------------------------------------------
\* The shorter of two lengths: MIN(nodeinfo->len, max_lc_count).
MinLen(m, n) == IF m <= n THEN m ELSE n

\* nhm_main_find_current_failed_app()
OnList(a) == \E i \in DOMAIN current_failed_apps : current_failed_apps[i] = a

IndexOf(a) == CHOOSE i \in DOMAIN current_failed_apps : current_failed_apps[i] = a

\* g_slist_remove()
Without(s, i) == SubSeq(s, 1, i - 1) \o SubSeq(s, i + 1, Len(s))

----------------------------------------------------------------------------
(***************************************************************************)
(* The file: the number of life cycles it announces, and those that are    *)
(* complete in it.  In a torn file fewer are complete than announced.      *)
(***************************************************************************)
Truncated == [count |-> 0, lcs |-> <<>>]

Stored == LET n == MinLen(Len(nodeinfo), config.max_lc_count)
          IN  [count |-> n, lcs |-> SubSeq(nodeinfo, 1, n)]

TornFrom(file) ==
  {Truncated} \cup {[count |-> file.count, lcs |-> SubSeq(file.lcs, 1, k)] : k \in 0..Len(file.lcs)}

\* Mutant: the number of life cycles in the file is not cut to the configured one.
ReadBackUncut(max) == {lcdata.lcs}

(***************************************************************************)
(* nhm_main_read_data() checks no fread(): a life cycle past the torn end  *)
(* keeps the uninitialised start_state of g_new(), and gets as many        *)
(* applications, with names and counts of any value, as the previous       *)
(* app_list_size says.                                                     *)
(***************************************************************************)
ReadBack(max) ==
  LET n == MinLen(lcdata.count, max)
      k == MinLen(Len(lcdata.lcs), n)
  IN  {SubSeq(lcdata.lcs, 1, k) \o junk : junk \in [1..(n - k) -> LcInfo]}

ReadData(max) == ReadBack(max) \cup (IF "io" \in Faults THEN {<<>>} ELSE {})

\* nhm_main_write_shutdown_flag() and nhm_main_read_shutdown_flag()
WriteFlag(state) == {state} \cup (IF "pcl" \in Faults THEN {flag} ELSE {})

ReadFlag == {flag} \cup (IF "pcl" \in Faults THEN {"NOTSET"} ELSE {})

\* nhm_main_request_restart()
RequestRestart == {"Ok", "RestartNotPossible"} \cup (IF "nsm" \in Faults THEN {"Error"} ELSE {})

\* nhm_main_load_config()
LoadConfig ==
  {[max_lc_count    |-> LoadUint(file.historic_lc_count, 0),
    max_failed_apps |-> LoadUint(file.max_failed_apps, 0),
    no_restart_apps |-> LoadStringArray(file.no_restart_apps)] : file \in KeyFiles}
  \cup (IF "config" \in Faults THEN {DefaultConfig} ELSE {})

----------------------------------------------------------------------------
Init ==
  /\ phase = "down"
  /\ quitting = FALSE
  /\ mainreturn = "FAILURE"
  /\ pc = "idle"
  /\ caller = "none"
  /\ config = DefaultConfig
  /\ nodeinfo = <<>>
  /\ current_failed_apps = <<>>
  /\ flag = "NOTSET"
  /\ lcdata = Truncated
  /\ nsm_health = [a \in Apps |-> TRUE]
  /\ restart = "none"

\* Every handler starts from the main loop, with no other one running.
Idle == pc = "idle" /\ phase # "down"

\* The interface is exported: D-Bus delivers the calls of clients.
Serving == Idle /\ phase \in {"exported", "running"}

(***************************************************************************)
(* main() up to g_main_loop_run().  Without the NSM the process ends at    *)
(* once.                                                                   *)
(***************************************************************************)
ConnectToNsm ==
  /\ phase = "down"
  /\ config' \in LoadConfig
  /\ phase' = "connected"
  /\ mainreturn' = "FAILURE"
  /\ restart' = "none"
  /\ UNCHANGED <<quitting, handler, nodeinfo, current_failed_apps, flag, lcdata, nsm_health>>

ConnectToNsmFails ==
  /\ "nsm" \in Faults
  /\ phase = "down"
  /\ mainreturn' = "FAILURE"
  /\ UNCHANGED <<phase, quitting, config, handler, nodeinfo, current_failed_apps, flag, lcdata,
                 nsm_health, restart>>

\* Mutant: the current life cycle is added after the previous ones.
BusAcquiredAppends ==
  /\ Idle
  /\ phase = "connected"
  /\ ~quitting
  /\ \E state \in ReadFlag, previous \in ReadData(config.max_lc_count) :
       nodeinfo' = previous \o <<NewLc(state)>>
  /\ phase' = "exported"
  /\ UNCHANGED <<quitting, mainreturn, config, handler, current_failed_apps, flag, lcdata,
                 nsm_health, restart>>

\* Mutant: a failed export does not quit the main loop.
BusAcquiredStays ==
  /\ Idle
  /\ phase = "connected"
  /\ ~quitting
  /\ \E state \in ReadFlag, previous \in ReadData(config.max_lc_count) :
       nodeinfo' = <<NewLc(state)>> \o previous
  /\ phase' \in {"exported", "broken"}
  /\ UNCHANGED <<quitting, mainreturn, config, handler, current_failed_apps, flag, lcdata,
                 nsm_health, restart>>

(***************************************************************************)
(* The callbacks of g_bus_own_name() come one bus round trip apart, so     *)
(* none follows a quit; one that is ready in the iteration that quits does *)
(* the same before the quit.                                               *)
(***************************************************************************)
BusAcquired ==
  /\ Idle
  /\ phase = "connected"
  /\ ~quitting
  /\ \E state \in ReadFlag, previous \in ReadData(config.max_lc_count) :
       nodeinfo' = <<NewLc(state)>> \o previous
  /\ \/ /\ phase' = "exported"
        /\ UNCHANGED <<quitting, mainreturn>>
     \/ /\ phase' = "broken"              \* the export failed
        /\ quitting' = TRUE
        /\ mainreturn' = "FAILURE"
  /\ UNCHANGED <<config, handler, current_failed_apps, flag, lcdata, nsm_health, restart>>

\* Mutant: the shutdown flag is not reset when the NHM comes into service.
NameAcquiredKeepsFlag ==
  /\ Idle
  /\ phase = "exported"
  /\ ~quitting
  /\ pc' = "open"
  /\ caller' = "name_acquired"
  /\ UNCHANGED <<process, nodeinfo, current_failed_apps, flag, lcdata, nsm_health, restart>>

NameAcquired ==
  /\ Idle
  /\ phase = "exported"
  /\ ~quitting
  /\ flag' \in WriteFlag("STARTED")
  /\ pc' = "open"
  /\ caller' = "name_acquired"
  /\ UNCHANGED <<process, nodeinfo, current_failed_apps, lcdata, nsm_health, restart>>

\* The rest of nhm_main_name_acquired_cb(), after nhm_main_write_data().
Ready ==
  /\ pc = "return"
  /\ caller = "name_acquired"
  /\ phase' = "running"
  /\ pc' = "idle"
  /\ caller' = "none"
  /\ UNCHANGED <<quitting, mainreturn, config, nodeinfo, current_failed_apps, flag, lcdata,
                 nsm_health, restart>>

----------------------------------------------------------------------------
(***************************************************************************)
(* nhm_main_write_data(): fopen() with "w" truncates the file, the data is *)
(* buffered and reaches the file with fclose().                            *)
(***************************************************************************)
OpenLcData ==
  /\ pc = "open"
  /\ \/ /\ lcdata' = Truncated
        /\ pc' = "flush"
     \/ /\ "io" \in Faults
        /\ pc' = "return"
        /\ UNCHANGED lcdata
  /\ UNCHANGED <<process, caller, nodeinfo, current_failed_apps, flag, nsm_health, restart>>

FlushLcData ==
  /\ pc = "flush"
  /\ lcdata' \in {Stored} \cup (IF "disk" \in Faults THEN TornFrom(Stored) ELSE {})
  /\ pc' = "return"
  /\ UNCHANGED <<process, caller, nodeinfo, current_failed_apps, flag, nsm_health, restart>>

----------------------------------------------------------------------------
(***************************************************************************)
(* nhm_main_register_app_status(), up to nhm_main_write_data().  The NSM   *)
(* is told first, whatever the status and whatever comes of it.            *)
(***************************************************************************)
\* Mutant: the health passed to the NSM is inverted.
TellNsmInverted(a, status) == nsm_health' = [nsm_health EXCEPT ![a] = (status = "Failed")]

TellNsm(a, status) ==
  nsm_health' \in {[nsm_health EXCEPT ![a] = (status = "Ok")]}
                    \cup (IF "nsm" \in Faults THEN {nsm_health} ELSE {})

\* Mutant: the list is not searched before the application is added.
AppFailsUnsearched(a) ==
  /\ nodeinfo[1].failcount[a] < MaxFailcount
  /\ current_failed_apps' = Append(current_failed_apps, a)
  /\ nodeinfo' = [nodeinfo EXCEPT ![1].failcount[a] = @ + 1]
  /\ restart' = "none"
  /\ pc' = "open"
  /\ caller' = "register"

\* Mutant: the failure is counted in the oldest life cycle, not in the current one.
AppFailsInOldest(a) ==
  /\ ~OnList(a)
  /\ nodeinfo[Len(nodeinfo)].failcount[a] < MaxFailcount
  /\ current_failed_apps' = Append(current_failed_apps, a)
  /\ nodeinfo' = [nodeinfo EXCEPT ![Len(nodeinfo)].failcount[a] = @ + 1]
  /\ restart' = "none"
  /\ pc' = "open"
  /\ caller' = "register"

\* Mutant: the data is not written after a failure.
AppFailsUnsaved(a) ==
  /\ ~OnList(a)
  /\ nodeinfo[1].failcount[a] < MaxFailcount
  /\ current_failed_apps' = Append(current_failed_apps, a)
  /\ nodeinfo' = [nodeinfo EXCEPT ![1].failcount[a] = @ + 1]
  /\ restart' = "none"
  /\ pc' = "return"
  /\ caller' = "register"

AppFails(a) ==
  /\ ~OnList(a)
  /\ nodeinfo[1].failcount[a] < MaxFailcount
  /\ current_failed_apps' = Append(current_failed_apps, a)
  /\ nodeinfo' = [nodeinfo EXCEPT ![1].failcount[a] = @ + 1]
  /\ restart' = "none"
  /\ pc' = "open"
  /\ caller' = "register"

AppRecovers(a) ==
  /\ OnList(a)
  /\ current_failed_apps' = Without(current_failed_apps, IndexOf(a))
  /\ UNCHANGED <<nodeinfo, restart, handler>>

AppUnchanged(a, status) ==
  /\ OnList(a) <=> status = "Failed"
  /\ UNCHANGED <<nodeinfo, current_failed_apps, restart, handler>>

RegisterAppStatus(a, status) ==
  /\ Serving
  /\ TellNsm(a, status)
  /\ \/ status = "Failed" /\ AppFails(a)
     \/ status # "Failed" /\ AppRecovers(a)
     \/ AppUnchanged(a, status)
  /\ UNCHANGED <<process, flag, lcdata>>

LimitReached ==
  /\ config.max_failed_apps # 0
  /\ Len(current_failed_apps) >= config.max_failed_apps

\* Mutant: a restart is requested at the limit but not above it.
CheckAtLimitOnly ==
  /\ pc = "return"
  /\ caller = "register"
  /\ IF Len(current_failed_apps) = config.max_failed_apps
     THEN restart' \in RequestRestart ELSE UNCHANGED restart
  /\ pc' = "idle"
  /\ caller' = "none"
  /\ UNCHANGED <<process, nodeinfo, current_failed_apps, flag, lcdata, nsm_health>>

\* Mutant: the request is repeated until the NSM accepts it.
CheckRetries ==
  /\ pc = "return"
  /\ caller = "register"
  /\ IF LimitReached THEN restart' \in RequestRestart ELSE UNCHANGED restart
  /\ IF LimitReached /\ restart' # "Ok"
     THEN UNCHANGED handler
     ELSE pc' = "idle" /\ caller' = "none"
  /\ UNCHANGED <<process, nodeinfo, current_failed_apps, flag, lcdata, nsm_health>>

\* nhm_main_check_failed_app_restart(), the end of the handler.
CheckFailedAppRestart ==
  /\ pc = "return"
  /\ caller = "register"
  /\ IF LimitReached THEN restart' \in RequestRestart ELSE UNCHANGED restart
  /\ pc' = "idle"
  /\ caller' = "none"
  /\ UNCHANGED <<process, nodeinfo, current_failed_apps, flag, lcdata, nsm_health>>

RequestNodeRestart(a) ==
  /\ Serving
  /\ ~StrInStrv(a, config.no_restart_apps)
  /\ restart' \in RequestRestart
  /\ UNCHANGED <<process, handler, nodeinfo, current_failed_apps, flag, lcdata, nsm_health>>

\* nhm_main_lc_request_cb(), exported before the main loop runs.
LcRequest(type) ==
  /\ Idle
  /\ phase = "running" \/ "early" \in Faults
  /\ flag' \in WriteFlag(IF type = "RUNUP" THEN "STARTED" ELSE "SHUTDOWN")
  /\ UNCHANGED <<process, handler, nodeinfo, current_failed_apps, lcdata, nsm_health, restart>>

----------------------------------------------------------------------------
(***************************************************************************)
(* g_main_loop_quit() lets the handlers that are ready in the same         *)
(* iteration run before g_main_loop_run() returns.                         *)
(***************************************************************************)
Quit(code) ==
  /\ Idle
  /\ quitting' = TRUE
  /\ mainreturn' = code
  /\ UNCHANGED <<phase, config, handler, nodeinfo, current_failed_apps, flag, lcdata, nsm_health,
                 restart>>

NameLost == phase # "broken" /\ Quit("FAILURE")

Sigterm == Quit("SUCCESS")

\* Mutant: the life cycles are freed and the pointer is kept.
FreeNhmObjectsKeepsPointer ==
  /\ current_failed_apps' = <<>>
  /\ UNCHANGED nodeinfo

\* nhm_main_free_nhm_objects()
FreeNhmObjects ==
  /\ current_failed_apps' = <<>>
  /\ nodeinfo' = <<>>

\* nhm_main_free_config_objects(): the counts, which it leaves, end with the process.
FreeConfigObjects == config' = DefaultConfig

\* What main() frees at its end a process that is killed loses.
Die ==
  /\ phase' = "down"
  /\ quitting' = FALSE
  /\ pc' = "idle"
  /\ caller' = "none"
  /\ FreeNhmObjects
  /\ FreeConfigObjects
  /\ UNCHANGED <<flag, nsm_health, restart>>

Exit ==
  /\ Idle
  /\ quitting
  /\ Die
  /\ UNCHANGED <<mainreturn, lcdata>>

Crash ==
  /\ "crash" \in Faults
  /\ phase # "down"
  /\ Die
  /\ mainreturn' = "FAILURE"
  /\ lcdata' \in {lcdata} \cup (IF "disk" \in Faults THEN TornFrom(lcdata) ELSE {})

----------------------------------------------------------------------------
Next ==
  \/ ConnectToNsm
  \/ ConnectToNsmFails
  \/ BusAcquired
  \/ NameAcquired
  \/ Ready
  \/ OpenLcData
  \/ FlushLcData
  \/ \E a \in Apps, status \in AppStatus : RegisterAppStatus(a, status)
  \/ CheckFailedAppRestart
  \/ \E a \in Apps : RequestNodeRestart(a)
  \/ \E type \in {"RUNUP", "NORMAL"} : LcRequest(type)
  \/ NameLost
  \/ Sigterm
  \/ Exit
  \/ Crash

Spec == Init /\ [][Next]_vars

(***************************************************************************)
(* A handler that has started runs to its end; the main loop serves its    *)
(* sources in turn, so the reply of the bus and the return of a loop that  *)
(* was quit are not overtaken for ever by other calls.                     *)
(***************************************************************************)
Fairness ==
  /\ WF_vars(OpenLcData \/ FlushLcData \/ CheckFailedAppRestart \/ Ready)
  /\ SF_vars(BusAcquired)
  /\ SF_vars(NameAcquired)
  /\ SF_vars(Exit)

FairSpec == Spec /\ Fairness

----------------------------------------------------------------------------
(***************************************************************************)
(* nhm_main_read_statistics_cb().  TotalLifecycles is the value lc_idx has *)
(* after the loop over nodeinfo.                                           *)
(***************************************************************************)
\* Mutant: the loop stops one life cycle early.
SummedShort == 1..MinLen(Len(nodeinfo), config.max_lc_count)

Summed == 1..MinLen(Len(nodeinfo), config.max_lc_count + 1)

NodeStatistics ==
  [CurrentFailCount |-> Len(current_failed_apps),
   TotalFailures    |-> Cardinality({i \in Summed : nodeinfo[i].start_state # "SHUTDOWN"}),
   TotalLifecycles  |-> Cardinality(Summed)]

AppStatistics(a) ==
  [CurrentFailCount |-> nodeinfo[1].failcount[a],
   TotalFailures    |-> MapThenSumSet(LAMBDA i : nodeinfo[i].failcount[a], Summed),
   TotalLifecycles  |-> Cardinality(Summed)]

----------------------------------------------------------------------------
\* The type of every variable: no step leaves the states the code can be in.
TypeOK ==
  /\ phase \in Phases
  /\ quitting \in BOOLEAN
  /\ mainreturn \in {"SUCCESS", "FAILURE"}
  /\ pc \in PcValues
  /\ caller \in Callers
  /\ config \in Config
  /\ nodeinfo \in Seq(LcInfo)
  /\ current_failed_apps \in Seq(Apps)
  /\ flag \in NodeState
  /\ lcdata \in [count : Nat, lcs : Seq(LcInfo)]
  /\ nsm_health \in [Apps -> BOOLEAN]
  /\ restart \in Answers \cup {"none"}

\* A handler that uses nodeinfo (g_ptr_array_index(nodeinfo, 0)) never runs
\* before the bus callback has made the current life cycle, nor after the free.
NodeinfoExists ==
  /\ nodeinfo # <<>> <=> phase \in {"exported", "broken", "running"}
  /\ pc # "idle" => phase = "exported" \/ (phase = "running" /\ caller = "register")
  /\ pc # "idle" <=> caller # "none"

\* The amount that triggers a restart is the length of current_failed_apps: no
\* sequence of reports, recoveries and restarts puts an application on it twice.
FailedListUnique ==
  \A i, j \in DOMAIN current_failed_apps :
    current_failed_apps[i] = current_failed_apps[j] => i = j

\* The two lists of failed applications agree: one that is failed now has a
\* failure counted in the current life cycle.
FailedIsCounted ==
  \A i \in DOMAIN current_failed_apps : nodeinfo[1].failcount[current_failed_apps[i]] > 0

\* The history never outgrows its configured length, whatever the file holds
\* and whatever historic_lc_count was when it was written: ReadStatistics
\* reports every life cycle in memory and no more.
HistoryBounded == Len(nodeinfo) <= config.max_lc_count + 1

\* What ReadStatistics tells of the node agrees with what it tells of the
\* applications: those failed now are failed in the current life cycle, and
\* no total is below the current count.
StatisticsAgree ==
  Serving =>
    /\ NodeStatistics.CurrentFailCount
         <= Cardinality({a \in Apps : AppStatistics(a).CurrentFailCount > 0})
    /\ \A a \in Apps : /\ AppStatistics(a).CurrentFailCount <= AppStatistics(a).TotalFailures
                        /\ AppStatistics(a).TotalLifecycles = Len(nodeinfo)

\* Between two handlers the file holds the history that is in memory, cut to
\* its configured length: no failure waits for a later write.
FileIsCurrent == Idle /\ phase = "running" => lcdata = Stored

LimitExceeded ==
  /\ config.max_failed_apps # 0
  /\ Len(current_failed_apps) > config.max_failed_apps

\* With more failed applications than max_failed_apps, the NSM has answered a restart
\* request that was sent after the last of them failed; no interleaving of failures and
\* recoveries leaves the node above its limit in silence.
LimitNeverSilent == Serving /\ LimitExceeded => restart # "none"

\* The NSM never takes an application for running that the NHM lists as failed.
NsmKnowsFailed ==
  \A i \in DOMAIN current_failed_apps : ~nsm_health[current_failed_apps[i]]

----------------------------------------------------------------------------
\* A handler returns to the main loop, so that the watchdog timer, the NSM and
\* the clients are served again, unless the process dies.
HandlerReturns == pc # "idle" ~> pc = "idle"

\* A loop that was quit ends the process, whatever calls still come in.
QuitEndsProcess == quitting ~> phase = "down"

\* A process that has connected to the NSM comes into service or ends; none is
\* left half started.
StartsOrEnds == phase = "connected" ~> phase \in {"running", "down"}

----------------------------------------------------------------------------
\* What the comments promise and the code does not keep.

\* The failures of applications make the NHM request a restart only if more of them are
\* failed than max_failed_apps says.  The code compares with >=.
RestartAboveLimit ==
  [][pc = "return" /\ caller = "register" /\ restart' # restart
       => Len(current_failed_apps) > config.max_failed_apps]_vars
============================================================================
