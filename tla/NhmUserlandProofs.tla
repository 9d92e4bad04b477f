------------------------- MODULE NhmUserlandProofs -------------------------
(***************************************************************************)
(* The log of a userland check is founded, for any list of things.         *)
(***************************************************************************)
EXTENDS NhmUserland, TLAPS

Checking == step \in {"check", "scan", "call"}

\* During a check, what is fine is in up and what is not is in down.
Recorded == Checking => \A i \in Things : IF fine[i] THEN i \in up ELSE i \in down

\* The things before the one that is looked at have passed.
Passed == Checking => 1..(check_idx - 1) \subseteq up

\* That /proc cannot be read during a check is remembered.
UnreadRecorded == Checking /\ ~readable => unread

\* The reading of /proc answers what the program was at some time of it, or that it
\* could not go on.
ScanFounded ==
  step = "scan" =>
    /\ check_idx \in Things
    /\ Kinds[check_idx] = "prog"
    /\ TRUE \in scanned => check_idx \in up
    /\ FALSE \in scanned => check_idx \in down \/ unread

\* A call goes to a bus to which there is a connection.
CallHasConnection == step = "call" => check_idx \in Buses /\ bus_conn[check_idx] # "none"

IInv ==
  TypeOK /\ Recorded /\ UnreadRecorded /\ Passed /\ ScanFounded /\ CallHasConnection /\ VerdictFounded

----------------------------------------------------------------------------
LEMMA ThingsAreNumbered == Len(Kinds) \in Nat /\ Things = 1..Len(Kinds) /\ AllFine = Len(Kinds) + 1
BY UserlandAssumption DEF Things, AllFine

LEMMA BusesAreThings == Buses \subseteq Things
BY DEF Buses

LEMMA AnswerAdded ==
  ASSUME NEW answers \in SUBSET BOOLEAN, NEW answer \in BOOLEAN
  PROVE  answers \cup {answer} \in SUBSET BOOLEAN
OBVIOUS

LEMMA InitIInv == Init => IInv
<1> SUFFICES ASSUME Init PROVE IInv
  OBVIOUS
<1> USE ThingsAreNumbered, BusesAreThings
<1>1. TypeOK
  <2>1. readable \in BOOLEAN /\ unread \in BOOLEAN
    BY DEF Init
  <2> QED
    BY <2>1 DEF Init, TypeOK
<1>2. Recorded /\ UnreadRecorded /\ Passed /\ ScanFounded /\ CallHasConnection
  BY DEF Init, Recorded, UnreadRecorded, Passed, ScanFounded, CallHasConnection, Checking
<1>3. VerdictFounded
  BY DEF Init, VerdictFounded
<1> QED
  BY <1>1, <1>2, <1>3 DEF IInv

\* The things change while a check may look at them.
LEMMA EnvironmentIInv ==
  ASSUME IInv, NEW i \in Things, Fails(i) \/ Recovers(i) \/ HandsOver(i)
  PROVE  IInv'
<1> USE ThingsAreNumbered, BusesAreThings
<1>1. UNCHANGED <<readable, step, check_idx, outcome, unread>>
  BY DEF Fails, Recovers, HandsOver
<1>2. up \subseteq up' /\ down \subseteq down' /\ (step = "idle" => up' = up /\ down' = down)
  BY DEF Fails, Recovers, HandsOver, Observe
<1>3. up' \subseteq Things /\ down' \subseteq Things
  BY DEF IInv, TypeOK, Fails, Recovers, HandsOver, Observe
<1>4. fine' \in [Things -> BOOLEAN] /\ \A j \in Things \ {i} : fine'[j] = fine[j]
  BY DEF IInv, TypeOK, Fails, Recovers, HandsOver
<1>5. Checking => IF fine'[i] THEN i \in up' ELSE i \in down'
  <2>1. CASE Fails(i) \/ Recovers(i)
    BY <2>1 DEF Fails, Recovers, Observe, Checking
  <2>2. CASE HandsOver(i)
    BY <2>2, <1>2 DEF HandsOver, IInv, Recorded
  <2> QED
    BY <2>1, <2>2
<1>6. bus_conn' \in [Buses -> {"none", "open", "closed"}]
  BY DEF IInv, TypeOK, Fails, Recovers, HandsOver
<1>7. \A b \in Buses : /\ bus_conn[b] = "closed" => bus_conn'[b] = "closed"
                       /\ bus_conn[b] # "none" => bus_conn'[b] # "none"
  BY DEF IInv, TypeOK, Fails, Recovers, HandsOver
<1>8. scanned' \subseteq BOOLEAN
  <2>1. scanned' \in {scanned, scanned \cup {fine'[i]}, scanned \cup {FALSE}}
    BY DEF Fails, Recovers, HandsOver, Observe
  <2>2. fine'[i] \in BOOLEAN
    BY <1>4
  <2>3. scanned \subseteq BOOLEAN
    BY DEF IInv, TypeOK
  <2>4. CASE scanned' = scanned \cup {fine'[i]}
    BY <2>2, <2>3, <2>4, AnswerAdded
  <2>5. CASE scanned' = scanned \cup {FALSE}
    BY <2>3, <2>5, AnswerAdded
  <2> QED
    BY <2>1, <2>3, <2>4, <2>5
<1>9. TypeOK'
  BY <1>1, <1>3, <1>4, <1>6, <1>8 DEF IInv, TypeOK
<1>10. Recorded' /\ UnreadRecorded'
  BY <1>1, <1>2, <1>4, <1>5 DEF IInv, Recorded, UnreadRecorded, Checking
<1>11. Passed'
  BY <1>1, <1>2 DEF IInv, Passed, Checking
<1>12. ScanFounded'
  <2> SUFFICES ASSUME step = "scan" PROVE ScanFounded'
    BY <1>1 DEF ScanFounded
  <2>1. check_idx \in Things /\ Kinds[check_idx] = "prog"
    BY DEF IInv, ScanFounded
  <2>2. CASE HandsOver(i)
    BY <2>1, <2>2, <1>1, <1>2 DEF HandsOver, IInv, ScanFounded
  <2>3. CASE (Fails(i) \/ Recovers(i)) /\ check_idx # i
    BY <2>1, <2>3, <1>1, <1>2 DEF Fails, Recovers, Observe, IInv, ScanFounded
  <2>4. CASE (Fails(i) \/ Recovers(i)) /\ check_idx = i
    <3>1. scanned' = scanned \cup {fine'[i]}
      BY <2>4 DEF Fails, Recovers, Observe
    <3>2. fine'[i] \in BOOLEAN
      BY <1>4
    <3> QED
      BY <2>1, <2>4, <3>1, <3>2, <1>1, <1>2, <1>5 DEF IInv, ScanFounded, Checking
  <2> QED
    BY <2>2, <2>3, <2>4
<1>13. CallHasConnection'
  BY <1>1, <1>7 DEF IInv, CallHasConnection
<1>14. VerdictFounded'
  BY <1>1, <1>2, <1>7 DEF IInv, VerdictFounded
<1> QED
  BY <1>9, <1>10, <1>11, <1>12, <1>13, <1>14 DEF IInv

\* /proc comes and goes.
LEMMA ProcIInv == ASSUME IInv, ProcFails \/ ProcRecovers PROVE IInv'
<1>1. UNCHANGED <<fine, bus_conn, step, check_idx, outcome, up, down>>
  BY DEF ProcFails, ProcRecovers
<1>2. readable' \in BOOLEAN /\ unread' \in BOOLEAN
  BY DEF IInv, TypeOK, ProcFails, ProcRecovers
<1>3. unread => unread'
  BY DEF ProcFails, ProcRecovers
<1>4. scanned' \subseteq BOOLEAN
  <2>1. scanned' \in {scanned, scanned \cup {FALSE}}
    BY DEF ProcFails, ProcRecovers
  <2>2. scanned \subseteq BOOLEAN
    BY DEF IInv, TypeOK
  <2> QED
    BY <2>1, <2>2, AnswerAdded
<1>5. TypeOK'
  BY <1>1, <1>2, <1>4 DEF IInv, TypeOK
<1>6. Recorded' /\ Passed'
  BY <1>1 DEF IInv, Recorded, Passed, Checking
<1>7. UnreadRecorded'
  BY <1>1 DEF IInv, UnreadRecorded, Checking, ProcFails, ProcRecovers
<1>8. ScanFounded'
  <2> SUFFICES ASSUME step = "scan" PROVE ScanFounded'
    BY <1>1 DEF ScanFounded
  <2>1. CASE ProcFails
    BY <2>1, <1>1 DEF ProcFails, IInv, ScanFounded
  <2>2. CASE ProcRecovers
    BY <2>2, <1>1 DEF ProcRecovers, IInv, ScanFounded
  <2> QED
    BY <2>1, <2>2
<1>9. CallHasConnection' /\ VerdictFounded'
  BY <1>1, <1>3 DEF IInv, CallHasConnection, VerdictFounded
<1> QED
  BY <1>5, <1>6, <1>7, <1>8, <1>9 DEF IInv

\* A look whose result is founded ends the check, or goes on behind the thing.
LEMMA LookedIInv ==
  ASSUME IInv, NEW result \in BOOLEAN, Looked(result), check_idx \in Things,
         UNCHANGED <<fine, readable, up, down, scanned, unread>>, Checking,
         bus_conn' \in [Buses -> {"none", "open", "closed"}],
         result => check_idx \in up,
         ~result => \/ check_idx \in down
                    \/ check_idx \in Buses /\ bus_conn'[check_idx] = "closed"
                    \/ Kinds[check_idx] = "prog" /\ unread
  PROVE  IInv'
<1> USE ThingsAreNumbered
<1>1. CASE result
  <2>1. check_idx' = check_idx + 1 /\ step' = "check" /\ outcome' = outcome
    BY <1>1 DEF Looked
  <2>2. TypeOK'
    BY <2>1 DEF IInv, TypeOK
  <2>3. Passed'
    BY <1>1, <2>1 DEF IInv, Passed, Checking, TypeOK
  <2> QED
    BY <2>1, <2>2, <2>3
       DEF IInv, Recorded, UnreadRecorded, Checking, ScanFounded, CallHasConnection, VerdictFounded
<1>2. CASE ~result
  <2>1. outcome' = check_idx /\ step' = "idle" /\ check_idx' = check_idx
    BY <1>2 DEF Looked
  <2>2. TypeOK'
    BY <2>1 DEF IInv, TypeOK
  <2>3. VerdictFounded'
    BY <1>2, <2>1 DEF IInv, VerdictFounded, Passed
  <2> QED
    BY <2>1, <2>2, <2>3
       DEF IInv, Recorded, UnreadRecorded, Passed, Checking, ScanFounded, CallHasConnection
<1> QED
  BY <1>1, <1>2
----------------------------------------------------------------------------
LEMMA TimerFiresIInv == ASSUME IInv, TimerFires PROVE IInv'
<1> USE ThingsAreNumbered
<1>1. TypeOK'
  <2>1. readable' \in BOOLEAN /\ unread' \in BOOLEAN
    BY DEF IInv, TypeOK, TimerFires
  <2> QED
    BY <2>1 DEF IInv, TypeOK, TimerFires
<1>2. Recorded' /\ Passed'
  BY DEF TimerFires, Recorded, Passed
<1>3. UnreadRecorded'
  BY Zenon DEF TimerFires, UnreadRecorded
<1>4. ScanFounded' /\ CallHasConnection' /\ VerdictFounded'
  BY DEF TimerFires, ScanFounded, CallHasConnection, VerdictFounded
<1> QED
  BY <1>1, <1>2, <1>3, <1>4 DEF IInv

LEMMA LookAtFileOrProcessIInv == ASSUME IInv, LookAtFileOrProcess PROVE IInv'
<1>1. Checking /\ check_idx \in Things
  BY DEF LookAtFileOrProcess, LookingAt, Checking
<1>2. fine[check_idx] \in BOOLEAN /\ IF fine[check_idx] THEN check_idx \in up ELSE check_idx \in down
  BY <1>1 DEF IInv, TypeOK, Recorded
<1>3. bus_conn' \in [Buses -> {"none", "open", "closed"}]
  BY DEF IInv, TypeOK, LookAtFileOrProcess
<1> QED
  BY <1>1, <1>2, <1>3, LookedIInv DEF LookAtFileOrProcess

LEMMA BeginScanIInv == ASSUME IInv, BeginScan PROVE IInv'
<1>1. Checking /\ check_idx \in Things /\ Kinds[check_idx] = "prog"
  BY DEF BeginScan, LookingAt, Checking
<1>2. fine[check_idx] \in BOOLEAN
  BY <1>1 DEF IInv, TypeOK
<1>3. CASE readable
  <2>1. /\ step' = "scan"
        /\ scanned' = {fine[check_idx]}
        /\ UNCHANGED <<fine, readable, bus_conn, check_idx, outcome, up, down, unread>>
    BY <1>3 DEF BeginScan
  <2>2. TypeOK'
    BY <1>2, <2>1 DEF IInv, TypeOK
  <2>3. Recorded' /\ UnreadRecorded' /\ Passed'
    BY <1>1, <2>1 DEF IInv, Recorded, UnreadRecorded, Passed, Checking
  <2>4. ScanFounded'
    BY <1>1, <1>2, <2>1 DEF IInv, Recorded, ScanFounded
  <2>5. CallHasConnection' /\ VerdictFounded'
    BY <2>1 DEF CallHasConnection, VerdictFounded
  <2> QED
    BY <2>2, <2>3, <2>4, <2>5 DEF IInv
<1>4. CASE ~readable
  <2>1. Looked(FALSE) /\ UNCHANGED <<fine, readable, bus_conn, scanned, up, down, unread>>
    BY <1>4 DEF BeginScan
  <2>2. unread
    BY <1>1, <1>4 DEF IInv, UnreadRecorded
  <2>3. bus_conn' \in [Buses -> {"none", "open", "closed"}]
    BY <2>1 DEF IInv, TypeOK
  <2> QED
    BY <1>1, <2>1, <2>2, <2>3, LookedIInv
<1> QED
  BY <1>3, <1>4

LEMMA EndScanIInv == ASSUME IInv, EndScan PROVE IInv'
<1>1. PICK found \in scanned : Looked(found)
  BY DEF EndScan
<1>2. found \in BOOLEAN
  BY DEF IInv, TypeOK
<1>3. Checking /\ check_idx \in Things /\ Kinds[check_idx] = "prog"
  BY DEF IInv, EndScan, Checking, ScanFounded
<1>4. IF found THEN check_idx \in up ELSE check_idx \in down \/ unread
  <2>1. CASE found
    BY <1>2, <2>1 DEF IInv, ScanFounded, EndScan
  <2>2. CASE ~found
    BY <1>2, <2>2 DEF IInv, ScanFounded, EndScan
  <2> QED
    BY <2>1, <2>2
<1>5. bus_conn' \in [Buses -> {"none", "open", "closed"}]
  BY DEF IInv, TypeOK, EndScan
<1>6. UNCHANGED <<fine, readable, up, down, scanned, unread>>
  BY DEF EndScan
<1> QED
  BY <1>1, <1>2, <1>3, <1>4, <1>5, <1>6, LookedIInv

LEMMA ConnectToBusIInv == ASSUME IInv, ConnectToBus PROVE IInv'
<1>1. Checking /\ check_idx \in Buses /\ check_idx \in Things /\ step = "check"
  BY DEF ConnectToBus, LookingAt, Checking, Buses
<1>2. CASE bus_conn[check_idx] = "none" /\ ~fine[check_idx]
  <2>1. Looked(FALSE) /\ UNCHANGED <<bus_conn, fine, readable, scanned, up, down, unread>>
    BY <1>2 DEF ConnectToBus
  <2>2. check_idx \in down
    BY <1>1, <1>2 DEF IInv, Recorded
  <2>3. bus_conn' \in [Buses -> {"none", "open", "closed"}]
    BY <2>1 DEF IInv, TypeOK
  <2> QED
    BY <1>1, <2>1, <2>2, <2>3, LookedIInv
<1>3. CASE ~(bus_conn[check_idx] = "none" /\ ~fine[check_idx])
  <2>1. /\ bus_conn' = [bus_conn EXCEPT ![check_idx] = IF @ = "none" THEN "open" ELSE @]
        /\ step' = "call"
        /\ UNCHANGED <<check_idx, outcome, fine, readable, scanned, up, down, unread>>
    BY <1>3 DEF ConnectToBus
  <2>2. bus_conn' \in [Buses -> {"none", "open", "closed"}] /\ bus_conn'[check_idx] # "none"
    BY <1>1, <2>1 DEF IInv, TypeOK
  <2>3. TypeOK'
    BY <2>1, <2>2, ThingsAreNumbered DEF IInv, TypeOK
  <2>4. Recorded' /\ UnreadRecorded' /\ Passed'
    BY <1>1, <2>1 DEF IInv, Recorded, UnreadRecorded, Passed, Checking
  <2>5. ScanFounded' /\ CallHasConnection' /\ VerdictFounded'
    BY <1>1, <2>1, <2>2 DEF ScanFounded, CallHasConnection, VerdictFounded
  <2> QED
    BY <2>3, <2>4, <2>5 DEF IInv
<1> QED
  BY <1>2, <1>3

LEMMA CallBusIInv == ASSUME IInv, CallBus PROVE IInv'
<1> DEFINE answers == fine[check_idx] /\ bus_conn[check_idx] = "open"
<1>1. Checking /\ check_idx \in Buses /\ check_idx \in Things /\ bus_conn[check_idx] # "none"
  BY BusesAreThings DEF IInv, CallBus, Checking, CallHasConnection
<1>2. Looked(answers) /\ UNCHANGED <<fine, readable, bus_conn, scanned, up, down, unread>>
  BY DEF CallBus
<1>3. answers \in BOOLEAN
  OBVIOUS
<1>4. answers => check_idx \in up
  BY <1>1 DEF IInv, Recorded
<1>5. ~answers => check_idx \in down \/ bus_conn'[check_idx] = "closed"
  BY <1>1, <1>2 DEF IInv, Recorded, TypeOK
<1>6. bus_conn' \in [Buses -> {"none", "open", "closed"}]
  BY <1>2 DEF IInv, TypeOK
<1> HIDE DEF answers
<1> QED
  BY <1>1, <1>2, <1>3, <1>4, <1>5, <1>6, LookedIInv

LEMMA AllLookedAtIInv == ASSUME IInv, AllLookedAt PROVE IInv'
<1> USE ThingsAreNumbered
<1>1. check_idx = AllFine
  BY DEF IInv, TypeOK, AllLookedAt
<1>2. TypeOK'
  BY DEF IInv, TypeOK, AllLookedAt
<1>3. up = Things
  <2>1. 1..(check_idx - 1) = Things
    BY <1>1
  <2>2. 1..(check_idx - 1) \subseteq up
    BY DEF IInv, Passed, Checking, AllLookedAt
  <2> QED
    BY <2>1, <2>2 DEF IInv, TypeOK
<1>4. VerdictFounded'
  BY <1>3 DEF AllLookedAt, VerdictFounded
<1> QED
  BY <1>2, <1>4
     DEF IInv, AllLookedAt, Recorded, UnreadRecorded, Passed, Checking, ScanFounded, CallHasConnection

LEMMA RestartIInv == ASSUME IInv, Restart PROVE IInv'
<1> USE ThingsAreNumbered
<1>1. TypeOK'
  <2>1. readable' \in BOOLEAN /\ unread' \in BOOLEAN
    BY DEF IInv, TypeOK, Restart
  <2> QED
    BY <2>1 DEF IInv, TypeOK, Restart
<1>2. VerdictFounded'
  BY DEF Restart, VerdictFounded
<1> QED
  BY <1>1, <1>2
     DEF IInv, Restart, Recorded, UnreadRecorded, Passed, Checking, ScanFounded, CallHasConnection

LEMMA NextIInv == ASSUME IInv, [Next]_vars PROVE IInv'
<1>1. CASE Environment
  BY <1>1, EnvironmentIInv, ProcIInv DEF Environment
<1>2. CASE Check
  BY <1>2, TimerFiresIInv, LookAtFileOrProcessIInv, BeginScanIInv, EndScanIInv, ConnectToBusIInv,
     CallBusIInv, AllLookedAtIInv DEF Check
<1>3. CASE Restart
  BY <1>3, RestartIInv
<1>4. CASE UNCHANGED vars
  BY <1>4 DEF vars, IInv, TypeOK, Recorded, UnreadRecorded, Passed, Checking, ScanFounded, CallHasConnection,
              VerdictFounded
<1> QED
  BY <1>1, <1>2, <1>3, <1>4 DEF Next

----------------------------------------------------------------------------
\* The invariant holds of every list of things (nhm_main_timer_userland_check_cb).
THEOREM UserlandInductive == Spec => []IInv
<1>1. Init => IInv
  BY InitIInv
<1>2. IInv /\ [Next]_vars => IInv'
  BY NextIInv
<1> QED
  BY <1>1, <1>2, PTL DEF Spec

\* check_idx stays within the lists, and each connection is one of the three kinds.
THEOREM UserlandTypeCorrect == Spec => []TypeOK
<1>1. IInv => TypeOK
  BY DEF IInv
<1> QED
  BY <1>1, UserlandInductive, PTL

\* What a check logs was so at some moment of it, or names a program while /proc could
\* not be read, for any things, in whatever order they fail and recover while the
\* callback runs and the process ends.
THEOREM VerdictIsFounded == Spec => []VerdictFounded
<1>1. IInv => VerdictFounded
  BY DEF IInv
<1> QED
  BY <1>1, UserlandInductive, PTL
============================================================================
