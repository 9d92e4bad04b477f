---------------------------- MODULE NhmMainLoop ----------------------------
(***************************************************************************)
(* The main loop of the NHM in time, src/src/nhm-main.c: the watchdog of   *)
(* systemd, the userland timer, the connection to the NSM and its          *)
(* life-cycle requests.  One unit of time is a millisecond.                *)
(*                                                                         *)
(* An iteration of a glib main loop takes all sources that are ready when  *)
(* it begins, and dispatches them in the order in which they were          *)
(* attached: the userland timer, the watchdog timer, then what came over   *)
(* D-Bus.  What becomes ready meanwhile waits for the next iteration.      *)
(***************************************************************************)
EXTENDS Integers, Sequences

CONSTANTS
  Environments,  \* what a process may find as WATCHDOG_USEC
  NotANumber,    \* not set, empty, or not a guint64 up to its end
  Interval,      \* ul_chk_interval in ms, 0 for no userland checks
  LongestCheck,  \* bound on the time a userland check takes
  LongestCalls,  \* bound on the time the D-Bus handlers of an iteration take
  LcTimeout,     \* NHM_LC_CLIENT_TIMEOUT
  Hangs          \* whether a monitored process may never return

ASSUME LoopAssumption ==
  /\ NotANumber \notin Nat
  /\ Environments \subseteq Nat \cup {NotANumber}
  /\ Interval \in Nat
  /\ LongestCheck \in Nat
  /\ LongestCalls \in Nat
  /\ LcTimeout \in Nat
  /\ Hangs \in BOOLEAN

VARIABLES
  phase,      \* "down", "connecting" to the NSM, "waiting" for the name, "up", or
              \* "killed" by systemd
  usec,       \* WATCHDOG_USEC of this process
  connected,  \* number of steps of nhm_main_connect_to_nsm() that are done
  ready,      \* sources that this iteration has still to dispatch
  spent,      \* time spent in the userland check, or then in the D-Bus handlers
  armed,      \* time since the watchdog timer was set
  ul,         \* time since the userland timer was set
  hung,       \* a monitored process does not return
  unkicked,   \* systemd: time since READY=1 or the last WATCHDOG=1
  request,    \* NSM: "none", a request that it is "waiting" for, or a "late" one
  waited,     \* NSM: how long it has been waiting
  rejected    \* NSM: a request came to a process that does not export the interface

timers == <<armed, ul>>
nsm == <<request, waited, rejected>>
vars == <<phase, usec, connected, ready, spent, timers, hung, unkicked, nsm>>

TimerSources == {"userland", "wdog"}

DbusSources == {"name", "call", "request"}

Running == phase \in {"waiting", "up"}

----------------------------------------------------------------------------
\* Mutant: the client is registered before its interface is exported.
NsmStepsSwapped ==
  <<"nsmbusconn", "dbus_lc_control_obj", "dbus_consumer_obj", "registered", "dbus_lc_consumer_obj">>

\* What nhm_main_connect_to_nsm() creates, in this order.
NsmSteps ==
  <<"nsmbusconn", "dbus_lc_control_obj", "dbus_consumer_obj", "dbus_lc_consumer_obj", "registered">>

Connected(what) == \E i \in 1..connected : NsmSteps[i] = what

\* nhm_main_free_nsm_objects(): the NSM's calls end with the connection.
FreeNsmObjects ==
  /\ connected' = 0
  /\ request' = "none"
  /\ UNCHANGED <<waited, rejected>>

Init ==
  /\ phase = "down"
  /\ usec = NotANumber
  /\ connected = 0
  /\ ready = {}
  /\ spent = 0
  /\ armed = 0
  /\ ul = 0
  /\ hung = FALSE
  /\ unkicked = 0
  /\ request = "none"
  /\ waited = 0
  /\ rejected = FALSE

Start ==
  /\ phase \in {"down", "killed"}
  /\ phase' = "connecting"
  /\ usec' \in Environments
  /\ hung' = FALSE
  /\ UNCHANGED <<connected, ready, spent, timers, unkicked, nsm>>

ConnectToNsm ==
  /\ phase = "connecting"
  /\ connected' = connected + 1
  /\ phase' = IF connected' = Len(NsmSteps) THEN "waiting" ELSE phase
  /\ UNCHANGED <<usec, ready, spent, timers, hung, unkicked, nsm>>

ConnectToNsmFails ==
  /\ phase = "connecting"
  /\ phase' = "down"
  /\ FreeNsmObjects
  /\ UNCHANGED <<usec, ready, spent, timers, hung, unkicked>>

\* The loop has been quit by SIGTERM, or without the name.
Exit ==
  /\ Running
  /\ ready = {}
  /\ phase' = "down"
  /\ FreeNsmObjects
  /\ UNCHANGED <<usec, ready, spent, timers, hung, unkicked>>

----------------------------------------------------------------------------
\* Mutant: the timeout is not halved.
PeriodNotHalved == usec \div 1000

\* Half the timeout, from us to ms.
Period == usec \div 2000

(***************************************************************************)
(* A timer that is found to have expired is set again from the time at     *)
(* which the iteration found it so, when its callback returns TRUE.  D-Bus *)
(* may bring calls of clients at any time.                                 *)
(***************************************************************************)
Expired ==
  {s \in TimerSources : /\ phase = "up"
                        /\ s = "userland" => Interval # 0 /\ ul >= Interval
                        /\ s = "wdog" => usec # NotANumber /\ armed >= Period}

Due == Expired \cup (IF request = "none" THEN {} ELSE {"request"})

Iterate ==
  /\ Running
  /\ ready = {}
  /\ \E others \in SUBSET {"call", "name"} :
       /\ "name" \in others => phase = "waiting"
       /\ ready' = Due \cup others
  /\ ready' # {}
  /\ spent' = 0
  /\ ul' = IF "userland" \in Expired THEN 0 ELSE ul
  /\ armed' = IF "wdog" \in Expired THEN 0 ELSE armed
  /\ UNCHANGED <<phase, usec, connected, hung, unkicked, nsm>>

\* The userland check returns to the main loop.
UserlandCheck ==
  /\ "userland" \in ready
  /\ ~hung
  /\ ready' = ready \ {"userland"}
  /\ spent' = 0
  /\ UNCHANGED <<phase, usec, connected, timers, hung, unkicked, nsm>>

\* g_spawn_sync() waits for a process that does not return.
ProcessHangs ==
  /\ Hangs
  /\ "userland" \in ready
  /\ hung' = TRUE
  /\ UNCHANGED <<phase, usec, connected, ready, spent, timers, unkicked, nsm>>

\* Mutant: the watchdog is triggered by a thread of its own.
KickUnblocked ==
  /\ hung \/ ("wdog" \in ready /\ "userland" \notin ready)
  /\ ready' = ready \ {"wdog"}
  /\ unkicked' = 0
  /\ armed' = 0
  /\ UNCHANGED <<phase, usec, connected, spent, ul, hung, nsm>>

\* Mutant: the callback returns FALSE, which removes the timer.
KickOnce ==
  /\ "wdog" \in ready
  /\ "userland" \notin ready
  /\ ready' = ready \ {"wdog"}
  /\ unkicked' = 0
  /\ phase' = "unwatched"
  /\ UNCHANGED <<usec, connected, spent, timers, hung, nsm>>

\* nhm_main_timer_wdog_cb()
Kick ==
  /\ "wdog" \in ready
  /\ "userland" \notin ready
  /\ ready' = ready \ {"wdog"}
  /\ unkicked' = 0
  /\ UNCHANGED <<phase, usec, connected, spent, timers, hung, nsm>>

----------------------------------------------------------------------------
\* Handlers of what came over D-Bus run when the timers have been served.
Dispatches(source) ==
  /\ source \in ready
  /\ ready \cap TimerSources = {}
  /\ ready' = ready \ {source}

\* The end of nhm_main_name_acquired_cb(): the userland timer was set before the
\* connection to systemd, the watchdog timer is set behind READY=1.
StartTimers ==
  /\ Dispatches("name")
  /\ phase' = "up"
  /\ ul' \in 0..spent
  /\ armed' = 0
  /\ unkicked' = 0
  /\ UNCHANGED <<usec, connected, spent, hung, nsm>>

Call ==
  /\ Dispatches("call")
  /\ UNCHANGED <<phase, usec, connected, spent, timers, hung, unkicked, nsm>>

\* Mutant: a request whose flag cannot be written is not completed.
LcRequestDropped ==
  /\ Dispatches("request")
  /\ request' \in {"none", request}
  /\ UNCHANGED <<phase, usec, connected, spent, timers, hung, unkicked, waited, rejected>>

\* nhm_main_lc_request_cb() completes every request.
LcRequest ==
  /\ Dispatches("request")
  /\ request' = "none"
  /\ UNCHANGED <<phase, usec, connected, spent, timers, hung, unkicked, waited, rejected>>

----------------------------------------------------------------------------
\* The NSM calls the registered client; D-Bus answers for one that exports nothing.
NsmRequests ==
  /\ Connected("registered")
  /\ request = "none"
  /\ \/ /\ Connected("dbus_lc_consumer_obj")
        /\ request' = "waiting"
        /\ waited' = 0
        /\ UNCHANGED rejected
     \/ /\ ~Connected("dbus_lc_consumer_obj")
        /\ rejected' = TRUE
        /\ UNCHANGED <<request, waited>>
  /\ UNCHANGED <<phase, usec, connected, ready, spent, timers, hung, unkicked>>

TimedOut == request = "waiting" /\ waited > LcTimeout

NsmGivesUp ==
  /\ TimedOut
  /\ request' = "late"
  /\ UNCHANGED <<phase, usec, connected, ready, spent, timers, hung, unkicked, waited, rejected>>

Overdue == phase = "up" /\ usec # NotANumber /\ unkicked * 1000 > usec

WatchdogKills ==
  /\ Overdue
  /\ phase' = "killed"
  /\ ready' = {}
  /\ FreeNsmObjects
  /\ UNCHANGED <<usec, spent, timers, hung, unkicked>>

\* Time passes in a handler, or in poll() while nothing is ready.
TimeMayPass ==
  \/ ready = {} /\ Due = {}
  \/ "userland" \in ready /\ (hung \/ spent < LongestCheck)
  \/ ready # {} /\ ready \cap TimerSources = {} /\ spent < LongestCalls

Watched == phase = "up" /\ usec # NotANumber

Tick ==
  /\ Running
  /\ ~TimedOut
  /\ ~Overdue
  /\ TimeMayPass
  /\ spent' = IF ready = {} \/ hung THEN spent ELSE spent + 1
  /\ ul' = IF phase = "up" /\ ul < Interval THEN ul + 1 ELSE ul
  /\ armed' = IF Watched THEN armed + 1 ELSE armed
  /\ unkicked' = IF Watched THEN unkicked + 1 ELSE unkicked
  /\ waited' = IF request = "waiting" THEN waited + 1 ELSE waited
  /\ UNCHANGED <<phase, usec, connected, ready, hung, request, rejected>>

----------------------------------------------------------------------------
MainLoop == Iterate \/ UserlandCheck \/ Kick \/ StartTimers \/ Call \/ LcRequest

Process == Start \/ ConnectToNsm \/ ConnectToNsmFails \/ Exit

Environment == ProcessHangs \/ NsmRequests \/ NsmGivesUp \/ WatchdogKills

Next == MainLoop \/ Process \/ Environment \/ Tick

Spec == Init /\ [][Next]_vars

\* Time goes on, and systemd and the NSM keep their deadlines.
FairSpec == Spec /\ WF_vars(Tick) /\ WF_vars(WatchdogKills) /\ WF_vars(NsmGivesUp)

----------------------------------------------------------------------------
\* The type of every variable, with the bounds that handlers keep.
TypeOK ==
  /\ phase \in {"down", "connecting", "waiting", "up", "killed"}
  /\ usec \in Nat \cup {NotANumber}
  /\ connected \in 0..Len(NsmSteps)
  /\ ready \subseteq TimerSources \cup DbusSources
  /\ spent \in Nat
  /\ armed \in Nat
  /\ ul \in Nat
  /\ hung \in BOOLEAN
  /\ unkicked \in Nat
  /\ request \in {"none", "waiting", "late"}
  /\ waited \in Nat
  /\ rejected \in BOOLEAN

\* Between two triggers lie at most the period, the iteration in which the timer
\* expires, and the userland check before it in the next one.
KickInTime ==
  \A us \in Environments :
    us # NotANumber => (us \div 2000 + 2 * LongestCheck + LongestCalls) * 1000 <= us

\* A request waits for the iteration in which it comes and is answered in the next.
AnswerInTime == 2 * (LongestCheck + LongestCalls) <= LcTimeout

\* systemd never ends a process whose handlers return in time, however the timers
\* and the calls fall: half the timeout leaves room for them.
KilledOnlyIfHung == phase = "killed" => hung

\* The NSM gets its answer in time from a process whose handlers return, whatever
\* else the main loop has to do.
NeverLate == request = "late" => hung

\* No request comes to a process that is registered and does not export the
\* interface yet.
NeverRejected == ~rejected

\* A monitored process that does not return blocks the main loop, and with it the
\* watchdog: systemd ends the process.
HangIsEnded == hung /\ usec # NotANumber ~> phase = "killed"
=============================================================================
