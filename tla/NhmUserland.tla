---------------------------- MODULE NhmUserland ----------------------------
(***************************************************************************)
(* The userland checks of one process, src/src/nhm-main.c: the timer looks *)
(* at the monitored files, programs, processes and buses in this order and *)
(* stops at the first that is not in order.  They may fail and recover     *)
(* between any two looks.                                                  *)
(***************************************************************************)
EXTENDS Naturals, Sequences

CONSTANT Kinds  \* kind of each monitored thing, in the order of the lists

Order == <<"file", "prog", "proc", "bus">>

Things == DOMAIN Kinds

ASSUME UserlandAssumption ==
  /\ Kinds \in Seq({Order[k] : k \in DOMAIN Order})
  /\ \A i, j \in Things : \A k, l \in DOMAIN Order :
       i < j /\ Kinds[i] = Order[k] /\ Kinds[j] = Order[l] => k <= l

AllFine == Len(Kinds) + 1

Buses == {i \in Things : Kinds[i] = "bus"}

VARIABLES
  fine,       \* the file exists, the program runs (an exe link that can be read says
              \* so), the process returns 0, the bus answers
  readable,   \* /proc can be opened and read
  bus_conn,   \* connection kept to a bus
  step,       \* "idle", "check", "scan" while /proc is read, "call" to a bus
  check_idx,  \* the thing that is looked at
  scanned,    \* answers that the reading of /proc may give
  outcome,    \* where the last check ended: a thing, which it logs as failed, AllFine
              \* behind the last one, or 0 before the first check
  up,         \* history: things that were fine during the last check
  down,       \* history: things that were not, and programs whose process ended
  unread      \* history: /proc could not be read at some time of the last check

vars == <<fine, readable, bus_conn, step, check_idx, scanned, outcome, up, down, unread>>

----------------------------------------------------------------------------
\* The looks remember what they could have seen.
Observe(i) ==
  /\ up' = IF step # "idle" /\ fine'[i] THEN up \cup {i} ELSE up
  /\ down' = IF step # "idle" /\ ~fine'[i] THEN down \cup {i} ELSE down
  /\ scanned' = IF step = "scan" /\ check_idx = i THEN scanned \cup {fine'[i]} ELSE scanned

\* A bus that hangs keeps its connections, one that ends closes them.
Fails(i) ==
  /\ fine[i]
  /\ fine' = [fine EXCEPT ![i] = FALSE]
  /\ \/ UNCHANGED bus_conn
     \/ /\ i \in Buses
        /\ bus_conn[i] = "open"
        /\ bus_conn' = [bus_conn EXCEPT ![i] = "closed"]
  /\ Observe(i)
  /\ UNCHANGED <<readable, step, check_idx, outcome, unread>>

Recovers(i) ==
  /\ ~fine[i]
  /\ fine' = [fine EXCEPT ![i] = TRUE]
  /\ Observe(i)
  /\ UNCHANGED <<readable, bus_conn, step, check_idx, outcome, unread>>

\* The process of a program ends and another one has taken over, under a number
\* that the reading of /proc has passed.
HandsOver(i) ==
  /\ step = "scan"
  /\ check_idx = i
  /\ fine[i]
  /\ scanned' = scanned \cup {FALSE}
  /\ down' = down \cup {i}
  /\ UNCHANGED <<fine, readable, bus_conn, step, check_idx, outcome, up, unread>>

\* /proc is not mounted, or no descriptor is left to open it with.  A reading that
\* meets the error ends there, as if there were no more entries.
ProcFails ==
  /\ readable
  /\ readable' = FALSE
  /\ unread' = (step # "idle" \/ unread)
  /\ scanned' = IF step = "scan" THEN scanned \cup {FALSE} ELSE scanned
  /\ UNCHANGED <<fine, bus_conn, step, check_idx, outcome, up, down>>

ProcRecovers ==
  /\ ~readable
  /\ readable' = TRUE
  /\ UNCHANGED <<fine, bus_conn, step, check_idx, scanned, outcome, up, down, unread>>

----------------------------------------------------------------------------
Init ==
  /\ fine \in [Things -> BOOLEAN]
  /\ readable \in BOOLEAN
  /\ bus_conn = [i \in Buses |-> "none"]
  /\ step = "idle"
  /\ check_idx = 1
  /\ scanned = {}
  /\ outcome = 0
  /\ up = {}
  /\ down = {}
  /\ unread = FALSE

TimerFires ==
  /\ step = "idle"
  /\ step' = "check"
  /\ check_idx' = 1
  /\ up' = {i \in Things : fine[i]}
  /\ down' = {i \in Things : ~fine[i]}
  /\ unread' = ~readable
  /\ UNCHANGED <<fine, readable, bus_conn, scanned, outcome>>

\* Mutant: a look that fails does not end the loops.
LookedGoesOn(result) ==
  /\ outcome' = IF result THEN outcome ELSE check_idx
  /\ step' = "check"
  /\ check_idx' = check_idx + 1

\* Mutant: the callback returns FALSE after a failed check, which removes the timer.
LookedEndsTimer(result) ==
  IF result
  THEN check_idx' = check_idx + 1 /\ step' = "check" /\ UNCHANGED outcome
  ELSE outcome' = check_idx /\ step' = "off" /\ UNCHANGED check_idx

\* The loops end at the first look that fails.
Looked(result) ==
  IF result
  THEN check_idx' = check_idx + 1 /\ step' = "check" /\ UNCHANGED outcome
  ELSE outcome' = check_idx /\ step' = "idle" /\ UNCHANGED check_idx

LookingAt(kind) == step = "check" /\ check_idx \in Things /\ Kinds[check_idx] = kind

\* nhm_does_file_exist() and nhm_main_is_process_ok()
LookAtFileOrProcess ==
  /\ LookingAt("file") \/ LookingAt("proc")
  /\ Looked(fine[check_idx])
  /\ UNCHANGED <<fine, readable, bus_conn, scanned, up, down, unread>>

\* Mutant: the program is taken for running when /proc cannot be opened.
BeginScanOptimist ==
  /\ LookingAt("prog")
  /\ \/ /\ readable
        /\ step' = "scan"
        /\ scanned' = {fine[check_idx]}
        /\ UNCHANGED <<check_idx, outcome>>
     \/ ~readable /\ Looked(TRUE) /\ UNCHANGED scanned
  /\ UNCHANGED <<fine, readable, bus_conn, up, down, unread>>

\* nhm_main_is_process_running() opens /proc and reads it entry by entry.  Without
\* /proc no program is found.
BeginScan ==
  /\ LookingAt("prog")
  /\ \/ /\ readable
        /\ step' = "scan"
        /\ scanned' = {fine[check_idx]}
        /\ UNCHANGED <<check_idx, outcome>>
     \/ ~readable /\ Looked(FALSE) /\ UNCHANGED scanned
  /\ UNCHANGED <<fine, readable, bus_conn, up, down, unread>>

EndScan ==
  /\ step = "scan"
  /\ \E found \in scanned : Looked(found)
  /\ UNCHANGED <<fine, readable, bus_conn, scanned, up, down, unread>>

\* Step 1 of nhm_main_is_dbus_alive(): the connection is opened once and kept.
ConnectToBus ==
  /\ LookingAt("bus")
  /\ IF bus_conn[check_idx] = "none" /\ ~fine[check_idx]
     THEN Looked(FALSE) /\ UNCHANGED bus_conn
     ELSE /\ bus_conn' = [bus_conn EXCEPT ![check_idx] = IF @ = "none" THEN "open" ELSE @]
          /\ step' = "call"
          /\ UNCHANGED <<check_idx, outcome>>
  /\ UNCHANGED <<fine, readable, scanned, up, down, unread>>

\* Step 2: the call, which fails on a closed connection.
CallBus ==
  /\ step = "call"
  /\ Looked(fine[check_idx] /\ bus_conn[check_idx] = "open")
  /\ UNCHANGED <<fine, readable, bus_conn, scanned, up, down, unread>>

AllLookedAt ==
  /\ step = "check"
  /\ check_idx \notin Things
  /\ outcome' = AllFine
  /\ step' = "idle"
  /\ UNCHANGED <<fine, readable, bus_conn, check_idx, scanned, up, down, unread>>

(***************************************************************************)
(* The process ends, in whatever step, and with it the connections to the  *)
(* buses; the next one prepares its checks and sets the timer.             *)
(***************************************************************************)
Restart ==
  /\ step' = "idle"
  /\ check_idx' = 1
  /\ scanned' = {}
  /\ outcome' = 0
  /\ bus_conn' = [i \in Buses |-> "none"]
  /\ up' = {}
  /\ down' = {}
  /\ unread' = FALSE
  /\ UNCHANGED <<fine, readable>>

----------------------------------------------------------------------------
Environment ==
  \/ \E i \in Things : Fails(i) \/ Recovers(i) \/ HandsOver(i)
  \/ ProcFails
  \/ ProcRecovers

Check ==
  \/ TimerFires
  \/ LookAtFileOrProcess
  \/ BeginScan \/ EndScan
  \/ ConnectToBus \/ CallBus
  \/ AllLookedAt

Next == Environment \/ Check \/ Restart

Spec == Init /\ [][Next]_vars

\* The timer is periodic; no monitored process and no call to a bus blocks for ever.
FairSpec == Spec /\ WF_vars(Check)

----------------------------------------------------------------------------
\* The type of every variable.
TypeOK ==
  /\ fine \in [Things -> BOOLEAN]
  /\ readable \in BOOLEAN
  /\ bus_conn \in [Buses -> {"none", "open", "closed"}]
  /\ step \in {"idle", "check", "scan", "call"}
  /\ check_idx \in 1..AllFine
  /\ scanned \subseteq BOOLEAN
  /\ outcome \in 0..AllFine
  /\ up \subseteq Things
  /\ down \subseteq Things
  /\ unread \in BOOLEAN

\* The log of a check is founded, whatever changed while it ran: success only if
\* everything was fine at some time during it; otherwise those before the thing it
\* names were, and that one was not, is behind a connection that has been closed, or
\* is a program and /proc could not be read.
VerdictFounded ==
  step = "idle" =>
    /\ outcome = AllFine => up = Things
    /\ outcome \in Things =>
         /\ 1..(outcome - 1) \subseteq up
         /\ \/ outcome \in down
            \/ outcome \in Buses /\ bus_conn[outcome] = "closed"
            \/ Kinds[outcome] = "prog" /\ unread

\* A thing that fails for good makes the checks fail in the end, wherever it is in
\* the lists and whatever fails and recovers beside it.
FailureFound == \A i \in Things : <>[]~fine[i] => <>[](outcome # AllFine)

\* The process is the same from some time on.
NoMoreRestarts == <>[][~Restart]_vars

\* When everything stays fine and /proc readable, the checks succeed in the end, unless
\* a kept connection was closed or a program is handed over again and again.
RecoveryFound ==
  /\ <>[]((\A i \in Things : fine[i]) /\ readable /\ (\A b \in Buses : bus_conn[b] # "closed"))
  /\ <>[][~ \E i \in Things : HandsOver(i)]_vars
  /\ NoMoreRestarts
  => <>[](outcome = AllFine)

\* A bus that answers again passes the check of the same process.  The code keeps
\* the closed connection.
BusRecovers ==
  <>[]((\A i \in Things : fine[i]) /\ readable) /\ NoMoreRestarts => <>[](outcome = AllFine)
============================================================================
