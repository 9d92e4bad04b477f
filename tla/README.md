# Verification of the node health monitor

TLA+ models of the GENIVI node health monitor (NHM), the TLC runs that check
them on small instances, and proofs about them that TLAPS checks for every
instance. `main.c:n` stands for `src/nhm-main.c`, line n, `systemd.c:n` for
`src/nhm-systemd.c`, line n.

## The system

The NHM is one process with one glib main loop. Clients and systemd tell it which
applications fail; it keeps statistics about them over several life cycles of the
node, tells the node state manager (NSM) about each of them, and asks the NSM for
a restart of the node when too many are failed. Handlers run to their end, one at
a time. What interleaves is the order in which handlers run, the processes
around the NHM (systemd, NSM, clients, the file system), and the end of the NHM
itself at any point, after which the next process reads what the last one left.

| Part | State it keeps | Operations | What makes it correct |
|---|---|---|---|
| failed applications (main.c:369-744) | `current_failed_apps`, failcounts of `nodeinfo[0]` | RegisterAppStatus, from D-Bus or from the systemd observation | an application is listed once; each change from working to failed counts once; list, counts, NSM and file agree |
| restart requests (main.c:443-531, 763-799) | `max_failed_apps`, `no_restart_apps` | check after each failure, RequestNodeRestart | the limit is never exceeded in silence; no request below it |
| history and file (main.c:561-613, 1265-1292, 1465-1602) | `nodeinfo`, the data file | read at start, write after each failure and at start, ReadStatistics | closed life cycles never change, the length is bounded, the file follows the memory, totals agree |
| shutdown flag (main.c:1228-1254, 1611-1683) | a key of the persistence client library (PCL) | read at start, reset when in service, written at each life-cycle request | the verdict on the last life cycle is true |
| process life (main.c:1265-1407, 2223-2396) | main loop, exit code | start, bus and name callbacks, SIGTERM, exit | a start comes into service or ends; a quit ends it |
| systemd observation (`nhm-systemd.c`) | observed units with their last known state | connect, UnitNew, UnitRemoved, PropertiesChanged, disconnect | each unit observed once, known states catch up, no failure unreported |
| userland checks (main.c:810-1008, 1093-1212) | connections to monitored buses | timer, end of the process | a missing file, program or bus is found, and so is a recovery |
| watchdog (main.c:1017-1081) | timer | start, kick | kicked in time although other handlers have the main loop; not kicked when one hangs |
| NSM connection (main.c:1228-1254, 1947-2107) | bus connection, proxies, skeleton | five steps at start, life-cycle requests | all or none; no request before the interface is there; answers in time |
| configuration (main.c:1699-1930) | key values | load at start | defaults for what is not valid |

Hard to test here: crashes between any two writes, restarts with another
configuration, torn files, the order of signals and calls against the state that
systemd has by then, NSM and PCL calls that fail. `PROJECT.json` lists each with its line.

### How the parts interact

- **Start** (main.c:2223-2396). `main()` loads the configuration, connects to the
  NSM and runs the main loop. The bus callback reads the flag and the file and
  exports the interface; the name callback resets the flag, writes the file, connects
  to systemd and starts the timers. Without the NSM, the bus, the name or the export the
  process ends; a configuration, flag, file or systemd that fails is logged, and the
  process goes on with defaults or without.
- **A failure.** A client calls RegisterAppStatus, or a signal of systemd makes
  `nhm-systemd.c` call `app_status_cb`, which is the same function (main.c:1359). Both end in
  `nhm_main_register_app_status()`: tell the NSM, change the list, count, write the
  file, compare with the limit, request the restart. All of it is one handler with
  three synchronous calls out of the process.
- **Shutdown.** The NSM calls LifecycleRequest and the NHM writes the flag. systemd
  later sends SIGTERM, which ends the main loop and leaves the flag alone.
- **The next start** judges the last life cycle by the flag and appends to the
  history in the file. The two are separate stores with separate failures.
- The userland checks, the watchdog and the life-cycle requests share the main loop with
  everything above, and so its time: what one handler takes, the others wait.

## Modules

| Module | Content |
|---|---|
| `NhmMain` | the main process: failed applications, history and file, flag, restart requests, process life |
| `HealthLedger` | abstract specification: a ledger of life cycles that survives restarts |
| `NhmMainLedger` | the refinement mapping from `NhmMain` to `HealthLedger` |
| `NhmMainHistory` | `NhmMain` with history variables that record what really happened |
| `NhmMainProofs` | the inductive invariant of `NhmMain`, what follows from it, and what the process owes to the NSM, to the limit, to the file and to who reads the statistics |
| `NhmMainLedgerProofs` | that `NhmMain` implements `HealthLedger` |
| `NhmMainHistoryProofs` | the verdicts on life cycles, against what really became of them |
| `NhmLcData` | the data file field by field, read wherever it ends |
| `NhmLcDataProofs` | what is read, for any file |
| `NhmSystemd` | the observation of systemd units, with systemd and the bus |
| `NhmSystemdProofs` | the list of observed units and the queue of signals, for any units and transitions |
| `NhmNode` | the main process together with its observation: `NhmMain` and an instance of `NhmSystemd` in one main loop |
| `NhmNodeProofs` | that this node implements both, and the chain from a failure in systemd to the restart request |
| `NhmMainLoop` | the main loop in time: watchdog, userland timer, connection to the NSM and its requests |
| `NhmMainLoopProofs` | the deadlines, for any durations |
| `NhmUserland` | the userland checks, with the things they look at |
| `NhmUserlandProofs` | the log of the checks, for any list of things |
| `NhmConfig` | the conversion of the configuration keys, used by `NhmMain` |
| `MCNhmMain`, `MCNhmMainHistory`, `MCNhmMainLedger`, `MCNhmLcData`, `MCNhmSystemd`, `MCNhmNode`, `MCNhmMainLoop`, `MCNhmUserland` | constants of the TLC runs, one `.cfg` per run |

Definitions marked `Mutant:` are the code with a plausible bug. Put in the place of
the definition they change, each makes one of the properties fail;
`PROJECT.json` pairs them. No specification uses them.

### NhmMain

A handler is one action where it runs unseen, and several where something outside
can see it half done or a crash can leave it so. `pc` and `caller` are the place in
the handler that runs:

| Code | Actions |
|---|---|
| `main()` to `g_main_loop_run()` | `ConnectToNsm`, `ConnectToNsmFails` |
| `nhm_main_bus_acquired_cb` | `BusAcquired`; its reads are `ReadFlag` and `ReadData` |
| `nhm_main_name_acquired_cb` | `NameAcquired`, then the write, then `Ready` |
| `nhm_main_write_data` | `OpenLcData` (truncates), `FlushLcData` (`fclose`) |
| `nhm_main_register_app_status` | `RegisterAppStatus`, then, for a new failure, the write and `CheckFailedAppRestart` |
| `nhm_main_request_node_restart_cb` | `RequestNodeRestart` |
| `nhm_main_lc_request_cb` | `LcRequest` |
| `nhm_main_name_lost_cb`, the SIGTERM handler | `NameLost`, `Sigterm` |
| the end of `main()` | `Exit` |
| `nhm_main_read_statistics_cb` | `NodeStatistics`, `AppStatistics`: it changes nothing |

`nodeinfo` is the pointer array, the current life cycle first. The list of
`NhmFailedApp` of a life cycle is a function from applications to failcounts, which is
what a search by name finds; 0 stands for no entry. `current_failed_apps` stays a
sequence, since its length is what is compared with the limit and a double entry is a
thing that could go wrong. `lcdata` has the number of life cycles the file announces
and those that are complete in it: a torn file announces more than it has, and reading it
gives life cycles with any content for the rest, as no `fread()` is checked
(main.c:1552-1590). `restart` is the answer to a request sent since the list last
grew. It is history: the code drops the answer.

What the environment may do is chosen per run from `Faults`: the process is killed,
`fopen` fails, the file is cut short, the PCL or the NSM fails, the key file cannot
be loaded, a life-cycle request comes before the name.

### NhmLcData

`ReadBack` of `NhmMain` says that complete life cycles are read and the others are anything. This
module has the loops of `nhm_main_read_data()` behind it: `ReadHead`, `ReadLc`, `ReadApp`, `AddLc`, `Close`
are the parts of the two loops in their order. A field is named by its life cycle and its
place in there (`NameField`, `SizeField`, ...), so no file is put together: `cut` is the field with which
it ends, and `OnDisk` what is before that. `Fread` reads into a variable that keeps its value at the end
of the file, `FreadNew` into memory of `g_new()`, and a field of which only a part is there
has any value. `Restart` is the next process, which may be configured otherwise, on a file that was
not written since.

The names of a life cycle that is not in the file may be NULL, and the next write of the file then ends the
process; in `NhmMain` that is a process that is killed behind `OpenLcData`.

### NhmSystemd

systemd owns `loaded` and `state`; `signals` is what it has sent and the main loop has
not yet handled, in order. `observed[u]` is the list of the entries with name `u`, so
that two of them are visible. `nhm_systemd_connect()` is split at its calls
(`Subscribe`, `ListUnits`, one `SubscribeUnit` per unit), because systemd goes on
meanwhile; so is the handler of UnitNew between Get and the subscription. A signal
tells that something changed, not what: the handler reads the state the unit has by
then (systemd.c:598-638). `Reports` is the table of transitions for which the main
process is called (systemd.c:113-179). `FreeUnit` ends the subscription of a unit that is removed
(systemd.c:369): glib leaves the unit's changes that are still queued where they are, finds no
subscriber when it is their turn and calls nobody (`SignalDropped`). `missed` is history: units that changed after
they were read and before they were subscribed to. `Touch` is a signal for another
property of the unit, which the code answers with Get as well (systemd.c:620). `Stop` is the end
of the process in any step; the next one starts from the list.

### NhmNode

One process has one `pc` of `NhmMain` and one `step` of `NhmSystemd`. Each step is one of
`NhmMain` (`MainHandler`, `Begin`, `EntersService`), one of `NhmSystemd` (`ConnectToSystemd`,
`UnitComesOrGoes`, `SystemdMoves`), or both at once where the code calls across: in `UnitChanges`
the handler of PropertiesChanged calls `nhm_main_register_app_status()` (systemd.c:393,
main.c:1359) before it returns, and in `Ends` the process takes its observation with it.
`BetweenHandlers` says that no other handler runs while one waits for systemd. `failures` is
history: how often systemd had the unit failed since the process began. `MayHaveFailed` are the
applications that can have failed at all in that time, which `RestartHasReasons` sets against
the request that the limit makes.

### NhmMainLoop

A unit of time is a millisecond. `Iterate` is an iteration of the glib main loop: it takes
what is ready when it begins, and the handlers then run in the order in which their sources
were added: userland timer (main.c:1353), watchdog timer (main.c:1369), D-Bus. `Tick` passes time in the
handler that runs, up to `LongestCheck` for a userland check and `LongestCalls` for the D-Bus
handlers of one iteration, or in `poll()` while nothing is ready. `armed` and `ul` are the ages of the two timers, `unkicked` the
time systemd has been waiting for a trigger, `waited` the time the NSM has been waiting for an
answer. `ProcessHangs` is a monitored process that does not return to `g_spawn_sync()`
(main.c:895). `NsmSteps` are the five steps of the connection in their order; the NSM may call from
the last one on.

`KickInTime` and `AnswerInTime` are what the deadlines need: the watchdog timeout is at least
half of itself plus two userland checks and one round of D-Bus handlers, and the NSM's timeout is at
least two iterations.

### NhmUserland

`Kinds` is the list of the monitored things in the order of the four loops. `step` and
`check_idx` are the place in the callback; a look at `/proc` takes several steps,
during which programs may end and start elsewhere (`HandsOver`), and a look at a bus
is a connection and a call. A program is `fine` while it runs and its exe link can be read;
`readable` says whether `/proc` itself can be: without it `BeginScan` finds no program (main.c:837,
862-872), and a reading that meets the error ends there (`ProcFails`). `bus_conn` is the connection that is kept between checks.
`Restart` is the end of the process and the
start of the next one, which has no connections yet. `up`, `down` and `unread` are history: what was in order, or not, at some moment of the
check, and whether `/proc` could not be read, against which its log line is judged.

### HealthLedger

The promise behind the statistics, without files, callbacks and process states: a
life cycle is opened on top of what was saved; it counts the changes from working to
failed; what was counted is saved before the next report; an end during the save may
lose the saved ledger as a whole. `NhmMainLedger` maps `nodeinfo` to the live ledger,
the complete life cycles of the file to the saved one, and `pc` to the state of
the save.

## Runs

| Run | Instance | Shows |
|---|---|---|
| `main_faults` (165,300) | one application, every fault, three key files | the states the code is in are the ones it can handle: `TypeOK`, `NodeinfoExists`, `HistoryBounded`, `StatisticsAgree`; progress (`HandlerReturns`, `QuitEndsProcess`, `StartsOrEnds`) |
| `main_ledger` (925,152) | two applications, limits 1 and 2, failcounts up to 2, one saved life cycle, crashes | list, counts, NSM, file, limit and statistics agree: `FailedListUnique`, `FailedIsCounted`, `StatisticsAgree`, `FileIsCurrent`, `LimitNeverSilent`, `NsmKnowsFailed`; `NhmMain` implements `HealthLedger` (`LedgerKept`); the verdict on the last life cycle (`VerdictIsTrue`) |
| `lcdata_torn` (75,793) | up to two life cycles with up to two applications, cut at every field, limits of 0, 1 and 2 | the file is read as `NhmMain` takes it: `StoredIsRead`, `InventedAreAlike`, `ReadingEnds` |
| `systemd_units` (675,424) | two units that become active, fail, are restarted and reset, come and go; three signals; the process ends at any time | the observation follows systemd: `KnownIsCurrent`, `FailureReported`, `ObservedOnce`, `NoDanglingUnit`, `EveryUnitObserved`, `FailureNoticed` |
| `node` (622,614) | one unit with every transition of a service, a client with another application, a limit of one, crashes, calls to systemd that fail | main process and observation together: `FailureKnownEverywhere`, `CountsAreReal`, `RestartHasReasons`, and that the node implements its parts: `ImplementsMain`, `ImplementsObservation` |
| `loop_time` (234,753) | watchdog timeouts of 14 and 15.999 ms and none, checks of 2 ms, calls of 3 ms, an NSM that waits 10 ms, processes that hang | deadlines: `KilledOnlyIfHung`, `NeverLate`, `NeverRejected`, `HangIsEnded` |
| `userland_checks` (170,559) | one file, program, process and bus, a `/proc` that cannot be read at times, and processes that end | `VerdictFounded`, `FailureFound`, `RecoveryFound` |
| `main_startup_crash`, `main_limit`, `systemd_race`, `node_restart`, `userland_bus` | the smallest that show it | the findings below |

### Why these bounds

- *Applications.* The code treats them alike and relates two of them only through the
  length of the list and the position in it. Two show both, and a limit of 1 and of 2
  lie below, at and above the number that fails. The theorems lift this to any number.
- *Failcounts* (`MaxFailcount`) stop further failures of an application in a life
  cycle. Nothing compares a failcount with anything, so 2, which tells a second failure
  from the first, is enough; the guint that wraps after 2^32 failures is not modelled.
- *Life cycles.* None and 1 in turn are a history that is off, cut at the next
  start and extended. With 1 a life cycle moves down once and drops out once. Limits of 0, 1 and 2 at
  the reading of the file are in `lcdata_torn`; the theorems are about any number.
- *Faults.* `FileIsCurrent` and `NsmKnowsFailed` need files that open and an NSM that answers, so
  `main_ledger` has crashes only. That `LedgerKept` and `VerdictIsTrue` hold with files that do not open and an NSM
  that fails is a theorem.
- *The file*. Two life cycles and two applications in one show what a loop keeps from its last round, and a
  cut before, in and behind each field. `MaxWord` is the largest size a torn field may give; the
  loops differ in nothing for larger ones.
- *Signals* (`MaxSignals`) hold systemd back while three are unhandled: enough for a
  unit that is removed, loaded again and changed behind the handler's back. In `node` one is
  enough: longer queues, and the changes of a unit that is gone, are in `systemd_units`, which the
  node implements.
- *Transitions* (`Moves`). `node` has all of a service, `systemd_units` those that two units need to fail,
  recover, be reset and be removed beside each other.
- *Clients of the node* (`ClientReports`). One that reports its own application as running.
  Reports of any kind by any client are in the runs of `NhmMain`.
- *Time*. The deadlines of the code are 20 s (`WatchdogSec`) and 1000 ms
  (`NHM_LC_CLIENT_TIMEOUT`). The run scales them so that `KickInTime` and `AnswerInTime` hold with
  nothing to spare; a timeout that is not a multiple of 2000 us shows the rounding of the
  period. The theorems are about all values. The period is cut to a guint (main.c:1037), for
  timeouts of 99 days and more, which is left out.
- *Units.* Units interact through the order of their signals and the reply of ListUnits:
  two.
- *Userland.* One of each kind, so each loop has one before and one after it.

No run declares that deadlock is no error: every process can be started again.

### Fairness

- `NhmMain`: a handler that has started goes on (weak fairness of its steps); its calls
  out of the process have timeouts of glib, at worst 25 s. `BusAcquired`,
  `NameAcquired` and `Exit` have strong fairness: the bus answers, or the call times out and
  `nhm_main_name_lost_cb` quits the loop, and the glib main loop serves sources of one
  priority in turn, so clients that keep calling cannot keep them off for ever.
  A loop that was quit returns at the end of the iteration. Nothing makes a client,
  the NSM or a signal act.
- `NhmLcData`: `nhm_main_read_data()` does not stop between two reads.
- `NhmSystemd`: the main loop continues a connect and serves the signals it was sent.
  systemd owes nothing: it may stop at any time.
- `NhmMainLoop`: time goes on, and systemd and the NSM act at their deadlines. The handlers need no
  fairness, since time stops for one that has used its bound up.
- `NhmUserland`: the timer is periodic and each look ends. `g_spawn_sync`
  (main.c:895) has no timeout, so this assumes that monitored processes return;
  when one does not, the watchdog of systemd ends the NHM, which `loop_time` shows. `RecoveryFound`
  is about a process that is not restarted again and again and a `/proc` that can be read from some time on.

## Findings

Each is a run that ends in a violation. `PROJECT.json` has the quotes.

1. `main_startup_crash`: the flag is reset only when the name is acquired
   (main.c:1346). A node that goes down after a shutdown, in the next start before that
   line, is taken for a complete shutdown by the start after it.
2. `main_limit`: the restart is requested when `max_failed_apps` applications are failed
   (main.c:518, `>=`). The comment above (main.c:503, "higher than") and the configuration file (lines 15-16,
   "exceeds") say when more are. `LimitNeverSilent` demands only what both readings do.
3. `systemd_race`: the state of a unit is read before its signal is subscribed to
   (systemd.c:812). A unit that fails in between is not reported when nothing is left to handle; it is only at
   the next signal that one of its properties changed.
4. `node_restart`: a unit that is removed or reset while it is failed stays on the list of the
   applications that are failed (systemd.c:567 and the table, systemd.c:113-179), and counts
   towards the next restart of the node.
5. `userland_bus`: a connection that was closed with its bus is used in every later check
   (main.c:945), each of which fails, for as long as the process lives.

### Behaviour that is modelled as it is and that a reader should know

- No `fread()` is checked (main.c:1563 ff.): a file that ends early gives failures of applications that
  never failed, which ReadStatistics adds up. `StoredIsRead` and `InventedAreAlike` say how far this goes.
  A file that ends before the first length of a name gives an application whose name is NULL
  (main.c:1577), on which the next write calls `strlen()` (main.c:1505).
- A `/proc` that cannot be opened or read makes the check fail and log the program as not running,
  whether it runs or not (main.c:862-872). `VerdictFounded` says when that may be.
- A failure that begins and ends between two readings of a unit's state is never seen
  (systemd.c:620). `FailureReported` is about failures that were read.
- Readings skip states: a unit that is seen failed, then deactivating, then active makes no report
  (systemd.c:173) and stays on the list although it is active.
- A life-cycle request that comes between the connection to the NSM and the name has its
  flag overwritten with STARTED. `VerdictIsTrue` is about requests to a process in
  service; `main_faults` takes the early ones too.
- The result of writing the flag is ignored at the start (main.c:1346): with a failing PCL the
  verdict can be wrong. `VerdictIsTrue` is checked with a PCL that works.
- A restart that the NSM rejects is not requested again before the next failure
  (main.c:527). `LimitNeverSilent` promises an answer, not a restart.
- An end by SIGTERM without a life-cycle request counts as an unexpected end.
- The exit code is the one of the last quit, if two happen in one iteration.
- The version written to the file is never compared when it is read.
- A failed userland check only logs (main.c:1208), although the comment above the callback
  and the configuration file say that it resets the system.
- A unit that is failed when it is first observed is not put on the list.
- The synchronous D-Bus calls have glib's default timeout of 25 s. That is more than
  `WatchdogSec=20` of the service file and than `NHM_LC_CLIENT_TIMEOUT`: with an NSM or systemd that
  does not answer, neither `KickInTime` nor `AnswerInTime` holds, systemd ends the NHM, and the
  NSM stops waiting for it. The service file has no `Restart=`, so the NHM then stays away.
- A disconnect whose Unsubscribe fails keeps `nhm_systemd_events_subscribed` (systemd.c:866); the
  next one, at the end of the process, calls Unsubscribe without a connection. glib logs it.

## Proofs

Each safety property of a passing run, invariant, action property or refinement, is a theorem.

`NhmMainProofs` holds for every set `Apps`, every set of
configurations, every `MaxFailcount` and every subset of the faults, from
`NhmAssumption` (which TLC evaluates in each run of `NhmMain`) and nothing else but
what a theorem states.

`IInv` is the conjunction of `TypeOK`, `NodeinfoExists`, `FailedListUnique`,
`FailedIsCounted`, `HistoryBounded` and `ListEmptyUntilExported`. The last one is there
because `FailedIsCounted` looks at `nodeinfo[1]`: in the states without a current life
cycle it holds because the list is empty. `NodeinfoExists` is needed for every step
that counts, `FailedListUnique` for the removal from the list. The proof that a step
keeps `IInv` has a lemma per action; lemmas about the data (`WithoutType`,
`AppendUnique`, `ReadDataType`, `CountFailure`) state what the list and file operators
return.

| Theorem | Statement |
|---|---|
| `Inductive` | `Spec => []IInv` |
| `TypeCorrect` | `Spec => []TypeOK` |
| `NodeinfoSafe` | `Spec => []NodeinfoExists` |
| `FailedListSound` | `Spec => [](FailedListUnique /\ FailedIsCounted)` |
| `HistoryStaysBounded` | `Spec => []HistoryBounded` |
| `LimitAnswered` | `Spec => []LimitNeverSilent` |
| `NsmAgrees` | with no fault of the NSM, `Spec => []NsmKnowsFailed` |
| `FileFollows` | with files that open and are written whole, `Spec => []FileIsCurrent` |
| `StatisticsSound` | with finitely many applications, `Spec => []StatisticsAgree` |

`LimitAnswered` rests on `AnswerIsDue`: while the limit is reached without an answer, the
handler of the failure is still running. It covers the equality, at which the code asks already. `FileFollows` rests on `WrittenIsStored`: the
file is current after a write and while a process in service is idle. `NsmKnowsFailed` is
inductive together with `IInv`. `StatisticsSound` needs no further invariant but the value of a sum
over the life cycles, which the library defines by recursion over the subsets of a set. That such
a function exists (`SumExists`), and that it bounds each of its summands (`SumBounds`), is shown by
induction, stated for sets of numbers (`Induction`, from the smallest element of a well-founded
order) and so within reach of the provers. The number of listed applications is then the size of an
injective image of the list (`ListedAtMost`); that is where the set of applications has to be finite.

`NhmMainLedgerProofs` assumes `FixedHistory` of `NhmMainLedger`: one `historic_lc_count` for good,
no torn file and no key file that fails to load, for any applications, any length and the other
faults. Its invariant is `LInv`: `IInv`, and `FileIsWhole`, that the file announces what it has, no more
than the length, and is truncated while it is open. Reading gives back what the ledger saved because of it
(`ReadBackWhole`). Each step of `NhmMain` is then a step of the ledger or a stutter: the start is
`Begin` or `BeginBlank`, a failure `Fail`, the two halves of the write open and close the save,
and a process that ends in between loses it.

| Theorem | Statement |
|---|---|
| `LedgerInductive` | `Spec => []LInv` |
| `LedgerIsKept` | `Spec => LedgerKept`, the specification of `HealthLedger` |

`NhmMainHistoryProofs` is about `NhmMain` with its history variables, for any applications and
configurations. Its invariant is `FlagTellsShutdown`: the flag is SHUTDOWN exactly if the last
life-cycle request to a process in service was a shutdown and no process has acquired the name since.
It holds with a PCL that
works and no life-cycle request before the name is acquired; both are hypotheses of the theorem,
since the code ignores the result of writing the flag (main.c:1346) and overwrites an early
request.

| Theorem | Statement |
|---|---|
| `HistoryImplementsMain` | `HSpec => Spec`, the history only observes |
| `VerdictsAreTrue` | with neither of the two faults, `HSpec => VerdictIsTrue` |

`NhmMainLoopProofs` takes any environments, intervals and durations that satisfy
`LoopAssumption`. Its invariant is `TypeOK` and four parts. `Control` relates the phase to the steps of the
connection, to the sources an iteration still has and to the age of the timers. `SpentBounded`
bounds the time in the handlers of an iteration. `KickBounded` bounds `unkicked` by `armed` and what
the iteration has used, by cases on which of the two timers are still to dispatch, and `armed`
by the period and one iteration. `WaitBounded` does the same for a request of the NSM.
`KickInTime` and `AnswerInTime` are assumed by the theorems that need them and by no others.

| Theorem | Statement |
|---|---|
| `LoopTypeCorrect` | `Spec => []TypeOK` |
| `NotKilled` | with `KickInTime`, `Spec => []KilledOnlyIfHung` |
| `AnsweredInTime` | with `AnswerInTime`, `Spec => []NeverLate` |
| `RequestsServed` | `Spec => []NeverRejected` |

`NhmNodeProofs` shows that every step of the node is a step of `NhmMain` or leaves it alone,
and the same for `NhmSystemd`, for any units, clients, transitions and faults. The two
refinements carry over what is proved about the parts.

| Theorem | Statement |
|---|---|
| `NodeImplementsMain` | `NodeSpec => ImplementsMain`, the specification of `NhmMain` |
| `NodeImplementsObservation` | `NodeSpec => ImplementsObservation`, the specification of `NhmSystemd` |
| `NodeListSound` | `NodeSpec => [](FailedListUnique /\ FailedIsCounted /\ LimitNeverSilent)` |
| `NodeObservationSound` | in the node hold `ObservedOnce`, `FailureReported`, `NoDanglingUnit`, `EveryUnitObserved` and `KnownIsCurrent` of its observation |
| `NodeInductive` | `NodeSpec => []NodeInv` |
| `OnlyRealFailuresCount` | `NodeSpec => []CountsAreReal` |
| `FailureKnown` | with no fault of the NSM, `NodeSpec => []FailureKnownEverywhere` |
| `RestartsAreReasoned` | with finitely many applications, `NodeSpec => RestartHasReasons` |

`NodeObservationSound` cites the theorems of `NhmSystemdProofs`, which it takes as an instance with the
node's constants (`NodeAssumption` gives what they assume). `NodeInv` joins the invariants of the two parts with
the chain between them: `KnownFailureIsListed` (a state that became failed under observation is on the
list) and `FailuresCover` (the count of a unit is at most its failures, and less where a failure
is not yet listed; without that second half the next report could exceed them).
`FailureKnown` follows from it with what the observation knows and what the NSM was told.
`RestartsAreReasoned` rests on `ListedMayHaveFailed` (each application on the list can have failed) and
on `RequestStep`, that a handler requests a restart only at the limit.

`NhmSystemdProofs` takes any units, transitions and bound on the signals, and lets calls fail.
Its first invariant, `IInv`, does not speak of the signals: `ListType` (each name has one entry at most),
`NothingYet` (no entry before the units are listed), `NotObservedTwice` (a unit to subscribe to has
none) and `FailureReported`, whose step rests on the table of transitions: every one into failed has a
callback (`FailureIsReported`).

The second one, `QInv`, adds the queue. `EveryUnitObserved` and `KnownIsCurrent` say what holds when nothing is
left to handle, and are far from inductive: a unit that goes and comes again has two signals under way, of which
the first takes it off the list. `ListFollows` therefore orders them: behind a UnitNew of a unit that
is gone there is a UnitRemoved, behind a UnitRemoved of a unit that is loaded there is a UnitNew
(`Answered`), and a unit that the list and systemd differ in has the signal that says so on its way.
`StateFollows` says the same of states: what is known, or was read for a unit that is about to be
subscribed to, is current unless a change or a removal is queued or a change was missed. The lemmas about queues
say what taking the first signal, adding one and dropping a unit's changes in their place do to
`Holds` and `Answered`.

| Theorem | Statement |
|---|---|
| `ObservationInductive`, `FollowsInductive` | `Spec => []IInv`, `Spec => []QInv` |
| `TypeCorrect` | `Spec => []TypeOK` |
| `ObservedAtMostOnce` | `Spec => []ObservedOnce` |
| `FailuresAreReported` | `Spec => []FailureReported` |
| `NoFreedUnitIsChanged` | `Spec => []NoDanglingUnit` |
| `NoUnitIsLost` | `Spec => []EveryUnitObserved` |
| `KnownStateIsCurrent` | `Spec => []KnownIsCurrent` |

`NhmUserlandProofs` takes any list of things. `VerdictFounded` relates a log line to what was
so during the check, so the invariant follows the check: `Recorded` (what is fine now is in `up`,
what is not is in `down`), `Passed` (the things before the current one were seen fine),
`UnreadRecorded` (a `/proc` that cannot be read now is remembered), `ScanFounded` (the reading of `/proc`
answers what was so at some time of it, or could not go on) and `CallHasConnection`.

| Theorem | Statement |
|---|---|
| `UserlandInductive` | `Spec => []IInv` |
| `UserlandTypeCorrect` | `Spec => []TypeOK` |
| `VerdictIsFounded` | `Spec => []VerdictFounded` |

`NhmLcDataProofs` takes any names, life cycles, limits and end of the file. Behind a cut nothing is left
(`NothingBehindCut`), before it everything is there (`CompleteOnDisk`, `OnDiskFacts`); the
invariant adds what was read of the life cycle in progress (`PartIsRead`), what the head said
(`HeadIsRead`) and the size that is kept (`SizeIsKept`).

| Theorem | Statement |
|---|---|
| `LcDataInductive` | `Spec => []IInv` |
| `LcDataTypeCorrect` | `Spec => []TypeOK` |
| `WhatIsStoredIsRead` | `Spec => []StoredIsRead` |
| `InventionIsBounded` | `Spec => []InventedAreAlike` |

Only model-checked: liveness, which is out of the prover's reach (`HandlerReturns`,
`QuitEndsProcess`, `StartsOrEnds`, `ReadingEnds`, `FailureNoticed`, `HangIsEnded`,
`FailureFound`, `RecoveryFound`), and the five findings, which are violations.

## Not modelled

- `nhm_main_convert_version_string`: its result is written and never used.
- The signal AppHealthStatus, DLT messages and the answers to clients: no handler
  depends on them. ReadStatistics has its result modelled.
- The bytes of a field of the data file: a field is there, partly there or missing. `NhmMain` knows only which
  life cycles are complete.
- The text of configuration keys: a key is an integer, a list, or an error of glib.
- Units that are no services, and messages of another type than expected, which the code ignores.
- The inside of the NSM and the PCL, the generated D-Bus code, the unit tests.

## Plan

Done: the main process with its abstract ledger, the data file, the systemd observation, their composition, the
main loop in time, the userland checks, the configuration, and the proofs of every safety property of
them. In order of importance:

1. The userland check of `NhmUserland` within the iteration of `NhmMainLoop`, so that its
   duration follows from what it looks at.
2. Proof that reading the file with `NhmLcData` gives what `ReadBack` of `NhmMain` allows.
3. Proof that the refinement of the ledger holds with key files that change the length, against a
   ledger whose limit is the one of the running process.
