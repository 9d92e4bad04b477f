------------------------- MODULE NhmMainLoopProofs -------------------------
(***************************************************************************)
(* The deadlines of the main loop hold for any watchdog timeout, userland  *)
(* interval and handler times that leave them the room they need.          *)
(***************************************************************************)
EXTENDS NhmMainLoop, TLAPS

\* What each phase means for the sources, the NSM and the process that hangs.
Control ==
  /\ phase \in {"waiting", "up"} <=> connected = Len(NsmSteps)
  /\ phase \in {"down", "killed"} => connected = 0
  /\ ready # {} => Running
  /\ ready \cap TimerSources # {} => phase = "up"
  /\ "name" \in ready => phase = "waiting"
  /\ "wdog" \in ready => usec # NotANumber
  /\ phase = "up" => usec \in Environments
  /\ phase \in {"connecting", "waiting"} => usec \in Environments
  /\ "request" \in ready => request # "none"
  /\ request # "none" => Running
  /\ hung => phase = "killed" \/ (phase = "up" /\ "userland" \in ready)

\* A bound on the time since the last iteration began.
Elapsed ==
  CASE ready = {} -> LongestCheck + LongestCalls
    [] "userland" \in ready -> spent
    [] OTHER -> LongestCheck + spent

\* No part of an iteration takes longer than its handlers do.
SpentBounded ==
  /\ "userland" \in ready => spent <= LongestCheck
  /\ ready # {} /\ ready \cap TimerSources = {} => spent <= LongestCalls
  /\ "wdog" \in ready /\ "userland" \notin ready => spent = 0

\* The watchdog timer is found expired in the iteration after it expired at the latest.
KickBounded ==
  Watched =>
    /\ "wdog" \notin ready => unkicked <= armed /\ armed <= Period + Elapsed
    /\ "wdog" \in ready => /\ armed <= Elapsed
                           /\ unkicked <= Period + LongestCheck + LongestCalls + armed

\* A request waits for the end of one iteration and for its handler in the next.
WaitBounded ==
  request = "waiting" =>
    waited <= Elapsed + (IF "request" \in ready THEN LongestCheck + LongestCalls ELSE 0)

TimeBounded == ~hung => SpentBounded /\ KickBounded /\ WaitBounded

IInv == TypeOK /\ Control /\ TimeBounded

----------------------------------------------------------------------------
LEMMA StepCount == Len(NsmSteps) = 5
BY DEF NsmSteps

LEMMA PeriodIsNat == ASSUME usec \in Nat PROVE Period \in Nat
BY DEF Period

LEMMA InitIInv == Init => IInv
<1> SUFFICES ASSUME Init PROVE IInv
  OBVIOUS
<1>1. TypeOK
  <2>1. hung \in BOOLEAN /\ rejected \in BOOLEAN /\ usec \in Nat \cup {NotANumber}
    BY Zenon DEF Init
  <2>2. ready \subseteq TimerSources \cup DbusSources
    BY Zenon DEF Init
  <2>3. connected \in 0..Len(NsmSteps) /\ 0 \in Nat
    BY StepCount DEF Init
  <2> QED
    BY <2>1, <2>2, <2>3 DEF Init, TypeOK
<1>2. Control
  <2>1. ready \cap TimerSources = {}
    BY DEF Init
  <2> QED
    BY <2>1, StepCount DEF Init, Control, Running
<1>3. TimeBounded
  BY LoopAssumption DEF Init, TimeBounded, SpentBounded, KickBounded, WaitBounded, Watched
<1> QED
  BY <1>1, <1>2, <1>3 DEF IInv

LEMMA ProcessIInv == ASSUME IInv, Process PROVE IInv'
<1> USE StepCount DEF IInv
<1>1. TypeOK'
  <2>1. usec' \in Nat \cup {NotANumber} /\ hung' \in BOOLEAN /\ rejected' \in BOOLEAN
    BY LoopAssumption DEF Process, Start, ConnectToNsm, ConnectToNsmFails, Exit, FreeNsmObjects,
       TypeOK, nsm
  <2>2. connected' \in 0..Len(NsmSteps)
    BY DEF Process, Start, ConnectToNsm, ConnectToNsmFails, Exit, FreeNsmObjects, TypeOK, Control
  <2>3. /\ phase' \in {"down", "connecting", "waiting", "up", "killed"}
        /\ request' \in {"none", "waiting", "late"}
    BY DEF Process, Start, ConnectToNsm, ConnectToNsmFails, Exit, FreeNsmObjects, TypeOK, nsm
  <2>4. UNCHANGED <<ready, spent, armed, ul, unkicked, waited>>
    BY DEF Process, Start, ConnectToNsm, ConnectToNsmFails, Exit, FreeNsmObjects, timers, nsm
  <2> QED
    BY <2>1, <2>2, <2>3, <2>4 DEF TypeOK
<1>2. Control'
  BY LoopAssumption DEF Process, Start, ConnectToNsm, ConnectToNsmFails, Exit, FreeNsmObjects, TypeOK,
     Control, Running, timers, nsm
<1>3. TimeBounded'
  BY LoopAssumption DEF Process, Start, ConnectToNsm, ConnectToNsmFails, Exit, FreeNsmObjects, TypeOK,
     Control, Running, timers, nsm, TimeBounded, SpentBounded, KickBounded, WaitBounded, Watched
<1> QED
  BY <1>1, <1>2, <1>3

\* The counters are natural numbers, for the arithmetic of the steps.
LEMMA Counters ==
  ASSUME TypeOK
  PROVE  /\ spent \in Nat /\ armed \in Nat /\ unkicked \in Nat /\ waited \in Nat
         /\ LongestCheck \in Nat /\ LongestCalls \in Nat
         /\ Elapsed \in Nat
<1>1. spent \in Nat /\ armed \in Nat /\ unkicked \in Nat /\ waited \in Nat
  BY DEF TypeOK
<1>2. LongestCheck \in Nat /\ LongestCalls \in Nat
  BY LoopAssumption
<1> QED
  BY <1>1, <1>2 DEF Elapsed

LEMMA IterateIInv == ASSUME IInv, Iterate PROVE IInv'
<1>0. TypeOK /\ Control /\ TimeBounded
  BY DEF IInv
<1>1. PICK others \in SUBSET {"call", "name"} :
             ("name" \in others => phase = "waiting") /\ ready' = Due \cup others
  BY DEF Iterate
<1>2. TypeOK'
  BY <1>0, <1>1 DEF Iterate, TypeOK, Due, Expired, TimerSources, DbusSources, nsm
<1>3. ~hung /\ ready = {} /\ Running /\ spent' = 0 /\ ready' # {}
  BY <1>0 DEF Iterate, Control, Running
<1>4. Control'
  BY <1>0, <1>1, <1>3 DEF Iterate, Control, Running, Due, Expired, TimerSources, nsm
<1>5. SpentBounded'
  BY <1>3, LoopAssumption DEF SpentBounded
<1>6. /\ armed \in Nat /\ unkicked \in Nat /\ waited \in Nat
      /\ LongestCheck \in Nat /\ LongestCalls \in Nat
      /\ Elapsed = LongestCheck + LongestCalls
  BY <1>0, <1>3, Counters DEF Elapsed
<1>7. PICK e \in Nat : Elapsed' = e
  BY <1>2, <1>3, <1>6 DEF Elapsed
<1>8. KickBounded'
  <2> SUFFICES ASSUME Watched PROVE KickBounded'
    BY DEF Iterate, KickBounded, Watched
  <2>1. Period \in Nat /\ Period' = Period
    BY <1>0, PeriodIsNat DEF Iterate, Watched, TypeOK, Period
  <2>2. unkicked <= armed /\ armed <= Period + LongestCheck + LongestCalls
    BY <1>0, <1>3, <1>6, <2>1 DEF TimeBounded, KickBounded
  <2>3. CASE "wdog" \in Expired
    <3>1. "wdog" \in ready' /\ armed' = 0 /\ unkicked' = unkicked
      BY <1>1, <2>3 DEF Iterate, Due
    <3> QED
      BY <3>1, <2>1, <2>2, <1>6, <1>7 DEF KickBounded
  <2>4. CASE "wdog" \notin Expired
    <3>1. "wdog" \notin ready' /\ armed' = armed /\ unkicked' = unkicked
      BY <1>1, <2>4 DEF Iterate, Due
    <3>2. armed < Period
      BY <1>6, <2>1, <2>4 DEF Expired, Watched, TimerSources
    <3> QED
      BY <3>1, <3>2, <2>1, <2>2, <1>6, <1>7 DEF KickBounded
  <2> QED
    BY <2>3, <2>4
<1>9. WaitBounded'
  <2>1. request = "waiting" => "request" \in ready' /\ waited <= LongestCheck + LongestCalls
    BY <1>0, <1>1, <1>3, <1>6 DEF TimeBounded, WaitBounded, Due, Control
  <2>2. request' = request /\ waited' = waited
    BY DEF Iterate, nsm
  <2> QED
    BY <2>1, <2>2, <1>6, <1>7 DEF WaitBounded
<1> QED
  BY <1>2, <1>4, <1>5, <1>8, <1>9 DEF IInv, TimeBounded

LEMMA UserlandCheckIInv == ASSUME IInv, UserlandCheck PROVE IInv'
<1>0. TypeOK /\ Control /\ TimeBounded /\ ~hung
  BY DEF IInv, UserlandCheck
<1>1. TypeOK'
  BY <1>0 DEF UserlandCheck, TypeOK, timers, nsm
<1>2. Control'
  BY <1>0 DEF UserlandCheck, Control, Running, timers, nsm
<1>3. /\ armed \in Nat /\ unkicked \in Nat /\ waited \in Nat /\ spent \in Nat
      /\ LongestCheck \in Nat /\ LongestCalls \in Nat
      /\ Elapsed = spent /\ spent <= LongestCheck /\ spent' = 0
  BY <1>0, Counters DEF UserlandCheck, TimeBounded, SpentBounded, Elapsed
<1>4. PICK e \in Nat : Elapsed' = e /\ spent <= e
  BY <1>3 DEF UserlandCheck, Elapsed
<1>5. SpentBounded'
  BY <1>3 DEF UserlandCheck, SpentBounded
<1>6. KickBounded'
  <2> SUFFICES ASSUME Watched PROVE KickBounded'
    BY DEF UserlandCheck, KickBounded, Watched
  <2>1. Period \in Nat /\ Period' = Period
    BY <1>0, PeriodIsNat DEF UserlandCheck, Watched, TypeOK, Period
  <2>2. ("wdog" \in ready' <=> "wdog" \in ready) /\ armed' = armed /\ unkicked' = unkicked
    BY DEF UserlandCheck, timers
  <2> QED
    BY <1>0, <1>3, <1>4, <2>1, <2>2 DEF TimeBounded, KickBounded
<1>7. WaitBounded'
  <2>1. ("request" \in ready' <=> "request" \in ready) /\ request' = request /\ waited' = waited
    BY DEF UserlandCheck, nsm
  <2> QED
    BY <1>0, <1>3, <1>4, <2>1 DEF TimeBounded, WaitBounded
<1> QED
  BY <1>1, <1>2, <1>5, <1>6, <1>7 DEF IInv, TimeBounded

LEMMA KickIInv == ASSUME IInv, Kick PROVE IInv'
<1>0. TypeOK /\ Control /\ TimeBounded
  BY DEF IInv
<1>1. TypeOK'
  BY <1>0 DEF Kick, TypeOK, timers, nsm
<1>2. Control' /\ ~hung
  BY <1>0 DEF Kick, Control, Running, timers, nsm, TimerSources
<1>3. /\ armed \in Nat /\ waited \in Nat /\ LongestCheck \in Nat /\ LongestCalls \in Nat
      /\ spent = 0 /\ spent' = 0 /\ Elapsed = LongestCheck
  BY <1>0, <1>2, Counters DEF Kick, TimeBounded, SpentBounded, Elapsed
<1>4. PICK e \in Nat : Elapsed' = e /\ LongestCheck <= e
  BY <1>3 DEF Kick, Elapsed
<1>5. SpentBounded'
  BY <1>3 DEF Kick, SpentBounded
<1>6. KickBounded'
  <2> SUFFICES ASSUME Watched PROVE KickBounded'
    BY DEF Kick, KickBounded, Watched
  <2>1. Period \in Nat /\ Period' = Period
    BY <1>0, PeriodIsNat DEF Kick, Watched, TypeOK, Period
  <2>2. "wdog" \notin ready' /\ "wdog" \in ready /\ armed' = armed /\ unkicked' = 0
    BY DEF Kick, timers
  <2> QED
    BY <1>0, <1>2, <1>3, <1>4, <2>1, <2>2 DEF TimeBounded, KickBounded
<1>7. WaitBounded'
  <2>1. ("request" \in ready' <=> "request" \in ready) /\ request' = request /\ waited' = waited
    BY DEF Kick, nsm
  <2> QED
    BY <1>0, <1>2, <1>3, <1>4, <2>1 DEF TimeBounded, WaitBounded
<1> QED
  BY <1>1, <1>2, <1>5, <1>6, <1>7 DEF IInv, TimeBounded

\* The handlers of what came over D-Bus leave the bound on an iteration alone.
LEMMA DispatchElapsed ==
  ASSUME IInv, NEW source, Dispatches(source), spent' = spent
  PROVE  /\ ~hung /\ SpentBounded'
         /\ Elapsed = LongestCheck + spent
         /\ \E e \in Nat : Elapsed' = e /\ LongestCheck + spent <= e
<1>0. TypeOK /\ Control /\ TimeBounded
  BY DEF IInv
<1>1. ~hung /\ ready # {} /\ ready \cap TimerSources = {} /\ "userland" \notin ready
  BY <1>0 DEF Dispatches, Control, TimerSources, Running
<1>2. spent \in Nat /\ LongestCheck \in Nat /\ LongestCalls \in Nat /\ spent <= LongestCalls
  BY <1>0, <1>1, Counters DEF TimeBounded, SpentBounded
<1>3. SpentBounded'
  BY <1>1, <1>2 DEF Dispatches, SpentBounded, TimerSources
<1>4. Elapsed = LongestCheck + spent
  BY <1>1 DEF Elapsed
<1>5. "userland" \notin ready'
  BY <1>1 DEF Dispatches
<1>6. CASE ready' = {}
  BY <1>1, <1>2, <1>3, <1>4, <1>6 DEF Elapsed
<1>7. CASE ready' # {}
  BY <1>1, <1>2, <1>3, <1>4, <1>5, <1>7 DEF Elapsed
<1> QED
  BY <1>6, <1>7

LEMMA StartTimersIInv == ASSUME IInv, StartTimers PROVE IInv'
<1>0. TypeOK /\ Control /\ TimeBounded
  BY DEF IInv
<1>1. Dispatches("name") /\ spent' = spent /\ spent \in Nat
  BY <1>0, Counters DEF StartTimers
<1>2. /\ ~hung /\ SpentBounded' /\ Elapsed = LongestCheck + spent
      /\ \E e \in Nat : Elapsed' = e /\ LongestCheck + spent <= e
  BY <1>1, DispatchElapsed
<1>3. PICK e \in Nat : Elapsed' = e /\ LongestCheck + spent <= e
  BY <1>2
<1>4. TypeOK'
  BY <1>0, <1>1 DEF StartTimers, Dispatches, TypeOK, nsm
<1>5. phase = "waiting" /\ ready' \cap TimerSources = {} /\ ready' \subseteq ready
  BY <1>0, <1>1 DEF Dispatches, Control, Running, StartTimers
<1>6. Control'
  <2>1. "name" \notin ready' /\ "wdog" \notin ready'
    BY <1>1, <1>5 DEF Dispatches, TimerSources
  <2>2. phase' = "up" /\ UNCHANGED <<usec, connected, hung, request>>
    BY DEF StartTimers, nsm
  <2> QED
    BY <1>0, <1>2, <1>5, <2>1, <2>2 DEF Control, Running
<1>7. KickBounded'
  <2> SUFFICES ASSUME Watched' PROVE KickBounded'
    BY DEF KickBounded
  <2>1. usec \in Nat /\ usec' = usec
    BY <1>0 DEF StartTimers, Watched, TypeOK
  <2>2. Period \in Nat /\ Period' = Period
    BY <2>1, PeriodIsNat DEF Period
  <2>3. "wdog" \notin ready' /\ armed' = 0 /\ unkicked' = 0
    BY <1>5 DEF StartTimers, TimerSources
  <2> QED
    BY <1>3, <2>2, <2>3 DEF KickBounded
<1>8. WaitBounded'
  <2>1. ("request" \in ready' <=> "request" \in ready) /\ request' = request /\ waited' = waited
    BY DEF StartTimers, Dispatches, nsm
  <2>2. waited \in Nat /\ LongestCheck \in Nat /\ LongestCalls \in Nat
    BY <1>0, Counters
  <2> QED
    BY <1>0, <1>1, <1>2, <1>3, <2>1, <2>2 DEF TimeBounded, WaitBounded
<1> QED
  BY <1>2, <1>4, <1>6, <1>7, <1>8 DEF IInv, TimeBounded

LEMMA CallIInv == ASSUME IInv, Call \/ LcRequest PROVE IInv'
<1>0. TypeOK /\ Control /\ TimeBounded
  BY DEF IInv
<1>1. PICK source \in {"call", "request"} :
        Dispatches(source) /\ (source = "request" => request' = "none")
  BY DEF Call, LcRequest
<1>2. /\ UNCHANGED <<phase, usec, connected, spent, armed, ul, hung, unkicked, waited, rejected>>
      /\ request' \in {request, "none"}
      /\ source # "request" => request' = request
  BY <1>1 DEF Call, LcRequest, timers, nsm, Dispatches
<1>3. /\ ~hung /\ SpentBounded' /\ Elapsed = LongestCheck + spent
      /\ \E e \in Nat : Elapsed' = e /\ LongestCheck + spent <= e
  BY <1>1, <1>2, DispatchElapsed
<1>4. PICK e \in Nat : Elapsed' = e /\ LongestCheck + spent <= e
  BY <1>3
<1>5. ready' = ready \ {source} /\ ready \cap TimerSources = {}
  BY <1>1 DEF Dispatches
<1>6. TypeOK'
  BY <1>0, <1>2, <1>5 DEF TypeOK
<1>7. Control'
  BY <1>0, <1>1, <1>2, <1>3, <1>5 DEF Control, Running, TimerSources
<1>8. /\ spent \in Nat /\ armed \in Nat /\ unkicked \in Nat /\ waited \in Nat
      /\ LongestCheck \in Nat /\ LongestCalls \in Nat
  BY <1>0, Counters
<1>9. KickBounded'
  <2> SUFFICES ASSUME Watched PROVE KickBounded'
    BY <1>2 DEF KickBounded, Watched
  <2>1. Period \in Nat /\ Period' = Period
    BY <1>0, <1>2, PeriodIsNat DEF Watched, TypeOK, Period
  <2>2. "wdog" \notin ready' /\ "wdog" \notin ready
    BY <1>5 DEF TimerSources
  <2> QED
    BY <1>0, <1>2, <1>3, <1>4, <1>8, <2>1, <2>2 DEF TimeBounded, KickBounded
<1>10. WaitBounded'
  <2>1. request' = "waiting" => request = "waiting" /\ ("request" \in ready' <=> "request" \in ready)
    BY <1>1, <1>2, <1>5
  <2> QED
    BY <1>0, <1>2, <1>3, <1>4, <1>8, <2>1 DEF TimeBounded, WaitBounded
<1> QED
  BY <1>3, <1>6, <1>7, <1>9, <1>10 DEF IInv, TimeBounded

LEMMA EnvironmentIInv == ASSUME IInv, Environment PROVE IInv'
<1>0. TypeOK /\ Control /\ TimeBounded
  BY DEF IInv
<1>1. CASE ProcessHangs
  <2>1. TypeOK'
    BY <1>0, <1>1 DEF ProcessHangs, TypeOK, timers, nsm
  <2>2. Control'
    BY <1>0, <1>1 DEF ProcessHangs, Control, Running, timers, nsm, TimerSources
  <2> QED
    BY <1>1, <2>1, <2>2 DEF ProcessHangs, IInv, TimeBounded
<1>2. CASE NsmRequests
  <2>1. connected = Len(NsmSteps) /\ phase \in {"waiting", "up"}
    <3>1. \E i \in 1..connected : i = 5 /\ connected \in 0..5
      BY <1>0, <1>2, StepCount DEF NsmRequests, Connected, NsmSteps, TypeOK
    <3> QED
      BY <1>0, <3>1, StepCount DEF Control
  <2>2. Connected("dbus_lc_consumer_obj")
    BY <2>1, StepCount DEF Connected, NsmSteps
  <2>3. request = "none" /\ request' = "waiting" /\ waited' = 0 /\ rejected' = rejected
    BY <1>2, <2>2 DEF NsmRequests
  <2>4. UNCHANGED <<phase, usec, connected, ready, spent, armed, ul, hung, unkicked>>
    BY <1>2 DEF NsmRequests, timers
  <2>5. TypeOK'
    BY <1>0, <2>3, <2>4 DEF TypeOK
  <2>6. Control' /\ "request" \notin ready'
    BY <1>0, <2>1, <2>3, <2>4 DEF Control, Running
  <2>7. Elapsed' = Elapsed /\ Elapsed \in Nat
    BY <1>0, <2>4, Counters DEF Elapsed
  <2>8. PICK e \in Nat : Elapsed' = e
    BY <2>7
  <2>9. WaitBounded'
    BY <2>3, <2>6, <2>8 DEF WaitBounded
  <2>10. ASSUME ~hung PROVE SpentBounded' /\ KickBounded'
    BY <1>0, <2>4, <2>7, <2>10 DEF TimeBounded, SpentBounded, KickBounded, Watched, Period
  <2> QED
    BY <2>4, <2>5, <2>6, <2>9, <2>10 DEF IInv, TimeBounded
<1>3. CASE NsmGivesUp
  <2>1. TypeOK' /\ Control'
    BY <1>0, <1>3 DEF NsmGivesUp, TypeOK, Control, Running, timers, TimedOut
  <2>2. UNCHANGED <<phase, usec, ready, spent, armed, hung, unkicked>> /\ request' = "late"
    BY <1>3 DEF NsmGivesUp, timers
  <2>3. ASSUME ~hung PROVE SpentBounded' /\ KickBounded' /\ WaitBounded'
    BY <1>0, <2>2, <2>3 DEF TimeBounded, SpentBounded, KickBounded, WaitBounded, Watched, Period,
       Elapsed
  <2> QED
    BY <2>1, <2>2, <2>3 DEF IInv, TimeBounded
<1>4. CASE WatchdogKills
  <2>1. TypeOK'
    BY <1>0, <1>4, StepCount DEF WatchdogKills, FreeNsmObjects, TypeOK, timers
  <2>2. Control'
    BY <1>0, <1>4, StepCount DEF WatchdogKills, FreeNsmObjects, Control, Running, timers
  <2>3. SpentBounded' /\ KickBounded' /\ WaitBounded'
    BY <1>4 DEF WatchdogKills, FreeNsmObjects, SpentBounded, KickBounded, WaitBounded, Watched
  <2> QED
    BY <2>1, <2>2, <2>3 DEF IInv, TimeBounded
<1> QED
  BY <1>1, <1>2, <1>3, <1>4 DEF Environment

LEMMA TickIInv == ASSUME IInv, Tick PROVE IInv'
<1>0. TypeOK /\ Control /\ TimeBounded
  BY DEF IInv
<1>1. UNCHANGED <<phase, usec, connected, ready, hung, request, rejected>>
  BY DEF Tick
<1>2. /\ spent \in Nat /\ armed \in Nat /\ unkicked \in Nat /\ waited \in Nat
      /\ LongestCheck \in Nat /\ LongestCalls \in Nat
  BY <1>0, Counters
<1>3. TypeOK'
  <2>1. spent' \in Nat /\ armed' \in Nat /\ unkicked' \in Nat /\ waited' \in Nat
    BY <1>2 DEF Tick
  <2>2. ul' \in Nat
    BY <1>0 DEF Tick, TypeOK
  <2> QED
    BY <1>0, <1>1, <2>1, <2>2 DEF TypeOK
<1>4. Control'
  BY <1>0, <1>1 DEF Control, Running
<1>5. SUFFICES ASSUME ~hung PROVE SpentBounded' /\ KickBounded' /\ WaitBounded'
  BY <1>1, <1>3, <1>4 DEF IInv, TimeBounded
<1>6. CASE ready = {}
  <2>1. Due = {} /\ spent' = spent
    BY <1>6 DEF Tick, TimeMayPass
  <2>2. SpentBounded'
    BY <1>1, <1>6 DEF SpentBounded
  <2>3. Elapsed' = LongestCheck + LongestCalls
    BY <1>1, <1>6 DEF Elapsed
  <2>4. WaitBounded'
    BY <1>1, <2>1 DEF Due, WaitBounded
  <2>5. KickBounded'
    <3> SUFFICES ASSUME Watched PROVE KickBounded'
      BY <1>1 DEF KickBounded, Watched
    <3>1. Period \in Nat /\ Period' = Period
      BY <1>0, <1>1, PeriodIsNat DEF Watched, TypeOK, Period
    <3>2. armed < Period
      BY <1>2, <2>1, <3>1 DEF Due, Expired, Watched, TimerSources
    <3>3. unkicked <= armed /\ armed' = armed + 1 /\ unkicked' = unkicked + 1
      BY <1>0, <1>5, <1>6 DEF Tick, TimeBounded, KickBounded
    <3>4. PICK e \in Nat : Elapsed' = e
      BY <1>2, <2>3
    <3> QED
      BY <1>1, <1>2, <1>6, <3>1, <3>2, <3>3, <3>4 DEF KickBounded
  <2> QED
    BY <2>2, <2>4, <2>5
<1>7. CASE ready # {}
  <2>1. /\ spent' = spent + 1
        /\ \/ "userland" \in ready /\ spent < LongestCheck
           \/ "userland" \notin ready /\ ready \cap TimerSources = {} /\ spent < LongestCalls
    BY <1>5, <1>7 DEF Tick, TimeMayPass, TimerSources
  <2>2. SpentBounded'
    BY <1>1, <1>2, <2>1 DEF SpentBounded, TimerSources
  <2>3. PICK e \in Nat : Elapsed = e /\ Elapsed' = e + 1
    <3>1. ready' = ready
      BY <1>1
    <3>2. CASE "userland" \in ready
      <4>1. Elapsed = spent /\ Elapsed' = spent'
        BY <1>7, <3>1, <3>2 DEF Elapsed
      <4> QED
        BY <1>2, <2>1, <4>1
    <3>3. CASE "userland" \notin ready
      <4>1. Elapsed = LongestCheck + spent /\ Elapsed' = LongestCheck + spent'
        BY <1>7, <3>1, <3>3 DEF Elapsed
      <4> QED
        BY <1>2, <2>1, <4>1
    <3> QED
      BY <3>2, <3>3
  <2>4. KickBounded'
    <3> SUFFICES ASSUME Watched PROVE KickBounded'
      BY <1>1 DEF KickBounded, Watched
    <3>1. Period \in Nat /\ Period' = Period
      BY <1>0, <1>1, PeriodIsNat DEF Watched, TypeOK, Period
    <3>2. armed' = armed + 1 /\ unkicked' = unkicked + 1
      BY DEF Tick
    <3>3. KickBounded
      BY <1>0, <1>5 DEF TimeBounded
    <3>4. CASE "wdog" \in ready
      BY <1>1, <1>2, <2>3, <3>1, <3>2, <3>3, <3>4 DEF KickBounded
    <3>5. CASE "wdog" \notin ready
      BY <1>1, <1>2, <2>3, <3>1, <3>2, <3>3, <3>5 DEF KickBounded
    <3> QED
      BY <3>4, <3>5
  <2>5. WaitBounded'
    <3>1. request = "waiting" => waited' = waited + 1
      BY DEF Tick
    <3>2. WaitBounded
      BY <1>0, <1>5 DEF TimeBounded
    <3>3. CASE "request" \in ready
      BY <1>1, <1>2, <2>3, <3>1, <3>2, <3>3 DEF WaitBounded
    <3>4. CASE "request" \notin ready
      BY <1>1, <1>2, <2>3, <3>1, <3>2, <3>4 DEF WaitBounded
    <3> QED
      BY <3>3, <3>4
  <2> QED
    BY <2>2, <2>4, <2>5
<1> QED
  BY <1>6, <1>7

LEMMA Stutter == ASSUME IInv, UNCHANGED vars PROVE IInv'
BY DEF IInv, TypeOK, Control, TimeBounded, SpentBounded, KickBounded, WaitBounded, Elapsed, Running,
    Watched, Period, vars, timers, nsm

LEMMA NextIInv == IInv /\ [Next]_vars => IInv'
BY IterateIInv, UserlandCheckIInv, KickIInv, StartTimersIInv, CallIInv, ProcessIInv,
   EnvironmentIInv, TickIInv, Stutter
DEF Next, MainLoop

----------------------------------------------------------------------------
LEMMA LoopInvariant == Spec => []IInv
BY InitIInv, NextIInv, PTL DEF Spec

\* Whatever the timeout of the watchdog, the userland interval and the times of
\* the handlers: the types of the main loop's state.
THEOREM LoopTypeCorrect == Spec => []TypeOK
<1>1. IInv => TypeOK
  BY DEF IInv
<1> QED
  BY LoopInvariant, <1>1, PTL

\* An iteration is as long as its userland check and its D-Bus handlers.
LEMMA ElapsedBounded ==
  ASSUME IInv, ~hung
  PROVE  /\ "wdog" \notin ready => Elapsed <= LongestCheck + LongestCalls
         /\ "wdog" \in ready => Elapsed <= LongestCheck
<1>0. TypeOK /\ Control /\ TimeBounded /\ SpentBounded
  BY DEF IInv, TimeBounded
<1>1. spent \in Nat /\ LongestCheck \in Nat /\ LongestCalls \in Nat
  BY <1>0, Counters
<1>2. CASE ready = {}
  BY <1>1, <1>2 DEF Elapsed
<1>3. CASE "userland" \in ready
  <2>1. Elapsed = spent /\ spent <= LongestCheck
    BY <1>0, <1>3 DEF SpentBounded, Elapsed
  <2> QED
    BY <1>1, <2>1
<1>4. CASE ready # {} /\ "userland" \notin ready
  <2>1. Elapsed = LongestCheck + spent
    BY <1>4 DEF Elapsed
  <2>2. CASE "wdog" \in ready
    BY <1>0, <1>1, <1>4, <2>1, <2>2 DEF SpentBounded
  <2>3. CASE "wdog" \notin ready
    <3>1. ready \cap TimerSources = {}
      BY <1>4, <2>3 DEF TimerSources
    <3> QED
      BY <1>0, <1>1, <1>4, <2>1, <2>3, <3>1 DEF SpentBounded
  <2> QED
    BY <2>2, <2>3
<1> QED
  BY <1>2, <1>3, <1>4

LEMMA NotOverdue == ASSUME KickInTime, IInv, ~hung PROVE ~Overdue
<1>0. TypeOK /\ Control /\ TimeBounded
  BY DEF IInv
<1> SUFFICES ASSUME Watched PROVE ~(unkicked * 1000 > usec)
  BY DEF Overdue, Watched
<1>1. usec \in Nat /\ (usec \div 2000 + 2 * LongestCheck + LongestCalls) * 1000 <= usec
  BY <1>0 DEF KickInTime, Watched, TypeOK, Control
<1>2. Period \in Nat /\ Period = usec \div 2000
  BY <1>1, PeriodIsNat DEF Period
<1>3. /\ armed \in Nat /\ unkicked \in Nat /\ LongestCheck \in Nat /\ LongestCalls \in Nat
      /\ Elapsed \in Nat
  BY <1>0, Counters
<1>4. unkicked <= Period + 2 * LongestCheck + LongestCalls
  <2>1. CASE "wdog" \notin ready
    <3>1. Elapsed <= LongestCheck + LongestCalls
      BY <2>1, ElapsedBounded
    <3>2. unkicked <= armed /\ armed <= Period + Elapsed
      BY <1>0, <2>1 DEF TimeBounded, KickBounded
    <3> QED
      BY <1>2, <1>3, <3>1, <3>2
  <2>2. CASE "wdog" \in ready
    <3>1. Elapsed <= LongestCheck
      BY <2>2, ElapsedBounded
    <3>2. armed <= Elapsed /\ unkicked <= Period + LongestCheck + LongestCalls + armed
      BY <1>0, <2>2 DEF TimeBounded, KickBounded
    <3> QED
      BY <1>2, <1>3, <3>1, <3>2
  <2> QED
    BY <2>1, <2>2
<1>5. (Period + 2 * LongestCheck + LongestCalls) * 1000 <= usec
  BY <1>1, <1>2
<1> QED
  BY <1>1, <1>2, <1>3, <1>4, <1>5

\* systemd ends no process whose handlers return in time: with the timer at half
\* the timeout, what is left covers two userland checks and the D-Bus handlers.
THEOREM NotKilled == ASSUME KickInTime PROVE Spec => []KilledOnlyIfHung
<1>1. Init => KilledOnlyIfHung
  BY DEF Init, KilledOnlyIfHung
<1>2. ASSUME IInv, KilledOnlyIfHung, [Next]_vars PROVE KilledOnlyIfHung'
  <2>1. CASE WatchdogKills
    BY <1>2, <2>1, NotOverdue DEF WatchdogKills, KilledOnlyIfHung
  <2>2. CASE Process
    BY <1>2, <2>2 DEF Process, Start, ConnectToNsm, ConnectToNsmFails, Exit, KilledOnlyIfHung
  <2>3. CASE MainLoop \/ ProcessHangs \/ NsmRequests \/ NsmGivesUp \/ Tick \/ UNCHANGED vars
    <3>1. phase' \in {phase, "up"} /\ (hung' = hung \/ hung' = TRUE)
      BY <2>3 DEF MainLoop, Iterate, UserlandCheck, Kick, StartTimers, Call, LcRequest, ProcessHangs,
         NsmRequests, NsmGivesUp, Tick, vars
    <3> QED
      BY <1>2, <3>1 DEF KilledOnlyIfHung
  <2> QED
    BY <1>2, <2>1, <2>2, <2>3 DEF Next, Environment
<1> QED
  BY <1>1, <1>2, LoopInvariant, PTL DEF Spec

LEMMA NotTimedOut == ASSUME AnswerInTime, IInv, ~hung PROVE ~TimedOut
<1>0. TypeOK /\ Control /\ TimeBounded /\ SpentBounded
  BY DEF IInv, TimeBounded
<1> SUFFICES ASSUME request = "waiting" PROVE ~(waited > LcTimeout)
  BY DEF TimedOut
<1>1. /\ waited \in Nat /\ LongestCheck \in Nat /\ LongestCalls \in Nat /\ Elapsed \in Nat
      /\ LcTimeout \in Nat
  BY <1>0, Counters, LoopAssumption
<1>2. Elapsed <= LongestCheck + LongestCalls
  BY <1>1, ElapsedBounded
<1>3. waited <= Elapsed + LongestCheck + LongestCalls
  BY <1>0, <1>1 DEF TimeBounded, WaitBounded
<1> QED
  BY <1>1, <1>2, <1>3 DEF AnswerInTime

\* The NSM never gives up on a process whose handlers return, if two iterations
\* of its main loop fit into the timeout of a life-cycle request.
THEOREM AnsweredInTime == ASSUME AnswerInTime PROVE Spec => []NeverLate
<1>1. Init => NeverLate
  BY DEF Init, NeverLate
<1>2. ASSUME IInv, NeverLate, [Next]_vars PROVE NeverLate'
  <2>1. CASE NsmGivesUp
    BY <1>2, <2>1, NotTimedOut DEF NsmGivesUp, NeverLate
  <2>2. CASE Process
    BY <1>2, <2>2 DEF Process, Start, ConnectToNsm, ConnectToNsmFails, Exit, FreeNsmObjects, NeverLate,
       IInv, Control, Running, nsm
  <2>3. CASE MainLoop \/ ProcessHangs \/ NsmRequests \/ WatchdogKills \/ Tick \/ UNCHANGED vars
    <3>1. request' \in {request, "none", "waiting"} /\ (hung' = hung \/ hung' = TRUE)
      BY <2>3 DEF MainLoop, Iterate, UserlandCheck, Kick, StartTimers, Call, LcRequest, ProcessHangs,
         NsmRequests, WatchdogKills, FreeNsmObjects, Tick, vars, nsm
    <3> QED
      BY <1>2, <3>1 DEF NeverLate
  <2> QED
    BY <1>2, <2>1, <2>2, <2>3 DEF Next, Environment
<1> QED
  BY <1>1, <1>2, LoopInvariant, PTL DEF Spec

\* Registered at the NSM means that its requests are served: the interface was
\* exported before, and is withdrawn only with the connection.
THEOREM RequestsServed == Spec => []NeverRejected
<1>1. Init => NeverRejected
  BY DEF Init, NeverRejected
<1>2. ASSUME IInv, NeverRejected, [Next]_vars PROVE NeverRejected'
  <2>1. CASE NsmRequests
    <3>1. \E i \in 1..connected : i = 5 /\ connected \in 0..5
      BY <1>2, <2>1, StepCount DEF NsmRequests, Connected, NsmSteps, IInv, TypeOK
    <3>2. Connected("dbus_lc_consumer_obj")
      BY <3>1 DEF Connected, NsmSteps
    <3> QED
      BY <1>2, <2>1, <3>2 DEF NsmRequests, NeverRejected
  <2>2. CASE MainLoop \/ Process \/ ProcessHangs \/ NsmGivesUp \/ WatchdogKills \/ Tick \/ UNCHANGED vars
    BY <1>2, <2>2 DEF MainLoop, Iterate, UserlandCheck, Kick, StartTimers, Call, LcRequest, Process,
       Start, ConnectToNsm, ConnectToNsmFails, Exit, ProcessHangs, NsmGivesUp, WatchdogKills,
       FreeNsmObjects, Tick, vars, nsm, NeverRejected
  <2> QED
    BY <1>2, <2>1, <2>2 DEF Next, Environment
<1> QED
  BY <1>1, <1>2, LoopInvariant, PTL DEF Spec
=============================================================================
