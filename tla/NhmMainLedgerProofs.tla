------------------------ MODULE NhmMainLedgerProofs ------------------------
(***************************************************************************)
(* The life cycles in memory and in the file, through every restart of the *)
(* process, implement HealthLedger, for every set of applications, every   *)
(* length of the history and every fault but a torn file.                  *)
(***************************************************************************)
EXTENDS NhmMainLedger, NhmMainProofs

\* One length of the history holds for good, and a file is truncated or whole.
FileIsWhole ==
  /\ phase # "down" => config.max_lc_count = Limit
  /\ lcdata.count = Len(lcdata.lcs)
  /\ Len(lcdata.lcs) <= Limit
  /\ pc = "flush" => lcdata = Truncated

LInv == IInv /\ FileIsWhole

----------------------------------------------------------------------------
LEMMA WholeIsNewest ==
  ASSUME NEW S, NEW s \in Seq(S), NEW n \in Nat, Len(s) <= n
  PROVE  Ledger!Newest(s, n) = s
<1>1. Len(s) \in Nat
  BY LenProperties
<1>2. Ledger!Newest(s, n) = SubSeq(s, 1, Len(s))
  BY <1>1 DEF Ledger!Newest
<1> QED
  BY <1>2

\* A whole file of the configured length is read back as it is.
LEMMA ReadBackWhole ==
  ASSUME IInv, FileIsWhole, NEW previous \in ReadBack(Limit)
  PROVE  previous = Ledger!Newest(lcdata.lcs, Limit)
<1> DEFINE s == lcdata.lcs
<1>1. s \in Seq(LcInfo) /\ Len(s) \in Nat /\ Limit \in Nat
  BY FixedHistory, LenProperties DEF IInv, TypeOK
<1>2. MinLen(lcdata.count, Limit) = Len(s) /\ MinLen(Len(s), Len(s)) = Len(s)
  BY <1>1 DEF FileIsWhole, MinLen
<1>3. PICK junk \in [1..(Len(s) - Len(s)) -> LcInfo] : previous = SubSeq(s, 1, Len(s)) \o junk
  BY <1>2 DEF ReadBack
<1>4. junk \in Seq(LcInfo) /\ Len(junk) = 0
  BY <1>1, FunctionIsSeq
<1>5. junk = <<>> /\ SubSeq(s, 1, Len(s)) = s
  BY <1>1, <1>4, EmptySeq
<1>6. s \o <<>> = s
  BY <1>1, ConcatEmptySeq
<1>7. Ledger!Newest(s, Limit) = s
  BY <1>1, WholeIsNewest DEF FileIsWhole
<1> QED
  BY <1>3, <1>5, <1>6, <1>7

\* The life cycles that are stored are the newest ones.
LEMMA StoredIsNewest ==
  ASSUME IInv, config.max_lc_count = Limit
  PROVE  /\ Stored.lcs = Ledger!Newest(nodeinfo, Limit)
         /\ Stored.count = Len(Stored.lcs)
         /\ Len(Stored.lcs) <= Limit
<1> DEFINE n == MinLen(Len(nodeinfo), Limit)
<1>1. nodeinfo \in Seq(LcInfo) /\ Len(nodeinfo) \in Nat /\ Limit \in Nat
  BY FixedHistory, LenProperties DEF IInv, TypeOK
<1>2. n \in Nat /\ n <= Limit /\ n <= Len(nodeinfo)
  BY <1>1, MinLenBound
<1>3. Stored.count = n /\ Stored.lcs = SubSeq(nodeinfo, 1, n)
  BY DEF Stored
<1>4. n = IF Len(nodeinfo) <= Limit THEN Len(nodeinfo) ELSE Limit
  BY DEF MinLen
<1> HIDE DEF n
<1>5. Len(SubSeq(nodeinfo, 1, n)) = n
  BY <1>1, <1>2, PrefixType
<1> QED
  BY <1>2, <1>3, <1>4, <1>5 DEF Ledger!Newest

LEMMA ConfiguredLimit ==
  ASSUME NEW c \in LoadConfig
  PROVE  c.max_lc_count = Limit
BY FixedHistory DEF LoadConfig

LEMMA InitWhole == Init => FileIsWhole
BY FixedHistory DEF Init, FileIsWhole, Truncated

LEMMA WholeStep == ASSUME IInv, IInv', FileIsWhole, [Next]_vars PROVE FileIsWhole'
<1>1. ASSUME UNCHANGED <<config, lcdata>>, phase' # "down" => phase # "down", pc' # "flush"
      PROVE  FileIsWhole'
  BY <1>1 DEF FileIsWhole
<1>2. CASE ConnectToNsm
  BY <1>2, ConfiguredLimit DEF ConnectToNsm, FileIsWhole, handler
<1>3. CASE BusAcquired \/ NameAcquired \/ Ready
  BY <1>1, <1>3 DEF BusAcquired, NameAcquired, Ready, Idle, process, handler, IInv, NodeinfoExists
<1>4. CASE OpenLcData
  BY <1>4, FixedHistory DEF OpenLcData, FileIsWhole, Truncated, process
<1>5. CASE FlushLcData
  <2>1. lcdata' = Stored /\ pc' = "return" /\ UNCHANGED process
    BY <1>5, FixedHistory DEF FlushLcData
  <2>2. config.max_lc_count = Limit
    BY <1>5 DEF FlushLcData, FileIsWhole, IInv, NodeinfoExists
  <2> QED
    BY <2>1, <2>2, StoredIsNewest DEF FileIsWhole, process
<1>6. ASSUME NEW a \in Apps, NEW status \in AppStatus, RegisterAppStatus(a, status)
      PROVE  FileIsWhole'
  BY <1>1, <1>6
     DEF RegisterAppStatus, AppFails, AppRecovers, AppUnchanged, Serving, Idle, process, handler
<1>7. CASE Exit \/ Crash
  BY <1>7, FixedHistory
     DEF Exit, Crash, Die, FreeNhmObjects, FreeConfigObjects, FileIsWhole
<1>8. CASE \/ ConnectToNsmFails \/ CheckFailedAppRestart
           \/ \E a \in Apps : RequestNodeRestart(a)
           \/ \E type \in {"RUNUP", "NORMAL"} : LcRequest(type)
           \/ NameLost \/ Sigterm
           \/ UNCHANGED vars
  BY <1>8
     DEF ConnectToNsmFails, CheckFailedAppRestart, RequestNodeRestart, LcRequest, NameLost,
         Sigterm, Quit, vars, process, handler, FileIsWhole
<1> QED
  BY <1>2, <1>3, <1>4, <1>5, <1>6, <1>7, <1>8 DEF Next

THEOREM LedgerInductive == Spec => []LInv
<1>1. Init => FileIsWhole
  BY InitWhole
<1>2. IInv /\ IInv' /\ FileIsWhole /\ [Next]_vars => FileIsWhole'
  BY WholeStep
<1> QED
  BY <1>1, <1>2, Inductive, PTL DEF Spec, LInv

----------------------------------------------------------------------------
LEMMA FailedMembers == \A a : a \in failed <=> OnList(a)
BY DEF failed, OnList

\* nhm_main_bus_acquired_cb() opens a life cycle on what was saved.
LEMMA BusAcquiredBegins == ASSUME LInv, BusAcquired PROVE Ledger!Next
<1>1. config.max_lc_count = Limit /\ nodeinfo = <<>>
  BY DEF LInv, IInv, NodeinfoExists, FileIsWhole, BusAcquired
<1>2. PICK state \in ReadFlag, previous \in ReadData(Limit) :
        nodeinfo' = <<NewLc(state)>> \o previous
  BY <1>1 DEF BusAcquired
<1>3. state \in NodeState
  BY <1>2 DEF LInv, IInv, TypeOK, ReadFlag, NodeState
<1>4. UNCHANGED <<lcdata.lcs, saving, failed>>
  BY DEF BusAcquired, handler, saving, failed
<1>5. CASE previous \in ReadBack(Limit)
  <2>1. previous = Ledger!Newest(lcdata.lcs, Limit)
    BY <1>5, ReadBackWhole DEF LInv
  <2>2. Ledger!Begin(state)
    BY <1>1, <1>2, <1>4, <2>1 DEF Ledger!Begin, NewLc
  <2> QED
    BY <1>3, <2>2 DEF Ledger!Next
<1>6. CASE previous = <<>>
  <2>1. <<NewLc(state)>> \o <<>> = <<NewLc(state)>>
    <3>1. <<NewLc(state)>> \in Seq({NewLc(state)})
      OBVIOUS
    <3> QED
      BY <3>1, ConcatEmptySeq
  <2>2. Ledger!BeginBlank(state)
    BY <1>1, <1>2, <1>4, <1>6, <2>1 DEF Ledger!BeginBlank, NewLc
  <2> QED
    BY <1>3, <2>2 DEF Ledger!Next
<1> QED
  BY <1>2, <1>5, <1>6 DEF ReadData

\* nhm_main_write_data() saves what the process holds.
LEMMA WriteDataSaves == ASSUME LInv, OpenLcData \/ FlushLcData PROVE [Ledger!Next]_(Ledger!ledger)
<1>1. /\ nodeinfo # <<>> \/ pc \notin {"open", "flush"}
      /\ UNCHANGED <<nodeinfo, failed, caller>>
  BY DEF LInv, IInv, NodeinfoExists, OpenLcData, FlushLcData, failed
<1>2. CASE OpenLcData /\ pc' = "flush"
  <2>1. Ledger!BeginSave
    BY <1>1, <1>2 DEF OpenLcData, Ledger!BeginSave, saving, Truncated
  <2> QED
    BY <2>1 DEF Ledger!Next
<1>3. CASE OpenLcData /\ pc' = "return"
  <2>1. CASE caller = "register"
    <3>1. Ledger!SaveFails
      BY <1>1, <1>3, <2>1 DEF OpenLcData, Ledger!SaveFails, saving
    <3> QED
      BY <3>1 DEF Ledger!Next
  <2>2. CASE caller # "register"
    BY <1>1, <1>3, <2>2 DEF OpenLcData, Ledger!ledger, saving
  <2> QED
    BY <2>1, <2>2
<1>4. CASE FlushLcData
  <2>1. lcdata' = Stored
    BY <1>4, FixedHistory DEF FlushLcData
  <2>2. config.max_lc_count = Limit
    BY <1>4 DEF FlushLcData, LInv, FileIsWhole, IInv, NodeinfoExists
  <2>3. lcdata'.lcs = Ledger!Newest(nodeinfo, Limit)
    BY <2>1, <2>2, StoredIsNewest DEF LInv
  <2>4. Ledger!Save
    BY <1>1, <1>4, <2>3 DEF FlushLcData, Ledger!Save, saving
  <2> QED
    BY <2>4 DEF Ledger!Next
<1> QED
  BY <1>2, <1>3, <1>4 DEF OpenLcData

\* A report of a failure is entered; one of anything else ends it.
LEMMA RegisterIsEntered ==
  ASSUME LInv, NEW a \in Apps, NEW status \in AppStatus, RegisterAppStatus(a, status)
  PROVE  [Ledger!Next]_(Ledger!ledger)
<1>1. /\ nodeinfo # <<>> /\ pc = "idle" /\ UNCHANGED lcdata
      /\ saving = "clean"
  BY DEF LInv, IInv, NodeinfoExists, RegisterAppStatus, Serving, Idle, saving
<1>2. \A b : b \in failed' <=> IF b = a THEN status = "Failed" ELSE b \in failed
  <2>1. OnList(a)' <=> status = "Failed"
    BY RegisterEffect DEF LInv
  <2>2. \A b \in Apps \ {a} : OnList(b)' <=> OnList(b)
    BY RegisterEffect DEF LInv
  <2>3. \A b : (OnList(b) => b \in Apps) /\ (OnList(b)' => b \in Apps)
    <3>1. current_failed_apps \in Seq(Apps) /\ current_failed_apps' \in Seq(Apps)
      BY RegisterIInv DEF LInv, IInv, TypeOK
    <3> QED
      BY <3>1 DEF OnList
  <2>4. \A b : b \in failed' <=> OnList(b)'
    BY DEF failed, OnList
  <2> QED
    BY <2>1, <2>2, <2>3, <2>4, FailedMembers
<1>3. CASE status = "Failed" /\ AppFails(a)
  <2>1. a \notin failed
    BY <1>3, FailedMembers DEF AppFails
  <2>2. failed' = failed \cup {a}
    BY <1>2, <1>3
  <2>3. Ledger!Fail(a)
    BY <1>1, <1>3, <2>1, <2>2 DEF AppFails, Ledger!Fail, saving
  <2> QED
    BY <2>3 DEF Ledger!Next
<1>4. CASE status # "Failed" /\ AppRecovers(a)
  <2>1. a \in failed
    BY <1>4, FailedMembers DEF AppRecovers
  <2>2. failed' = failed \ {a}
    BY <1>2, <1>4
  <2>3. Ledger!Recover(a)
    BY <1>1, <1>4, <2>1, <2>2 DEF AppRecovers, Ledger!Recover, handler, saving
  <2> QED
    BY <2>3 DEF Ledger!Next
<1>5. CASE AppUnchanged(a, status)
  BY <1>1, <1>5 DEF AppUnchanged, handler, Ledger!ledger, saving, failed
<1> QED
  BY <1>3, <1>4, <1>5 DEF RegisterAppStatus

\* Whichever way the process ends, what it holds is gone and what is saved stays.
LEMMA EndEnds == ASSUME LInv, Exit \/ Crash PROVE Ledger!Next
<1>1. lcdata' = lcdata
  BY FixedHistory DEF Exit, Crash
<1>2. nodeinfo' = <<>> /\ current_failed_apps' = <<>> /\ pc' = "idle"
  BY DEF Exit, Crash, Die, FreeNhmObjects
<1>3. failed' = {}
  BY <1>2 DEF failed
<1>4. Ledger!End
  BY <1>1, <1>2, <1>3 DEF Ledger!End, saving
<1> QED
  BY <1>4 DEF Ledger!Next

\* Whatever else the process does, it does not touch the ledger.
LEMMA OthersLeaveLedger ==
  ASSUME \/ ConnectToNsm \/ ConnectToNsmFails \/ NameAcquired \/ Ready \/ CheckFailedAppRestart
         \/ \E a \in Apps : RequestNodeRestart(a)
         \/ \E type \in {"RUNUP", "NORMAL"} : LcRequest(type)
         \/ NameLost \/ Sigterm
         \/ UNCHANGED vars
  PROVE  UNCHANGED Ledger!ledger
<1>1. UNCHANGED <<nodeinfo, current_failed_apps, lcdata>>
  BY DEF ConnectToNsm, ConnectToNsmFails, NameAcquired, Ready, CheckFailedAppRestart,
         RequestNodeRestart, LcRequest, NameLost, Sigterm, Quit, vars
<1>2. UNCHANGED saving
  BY DEF ConnectToNsm, ConnectToNsmFails, NameAcquired, Ready, CheckFailedAppRestart,
         RequestNodeRestart, LcRequest, NameLost, Sigterm, Quit, vars, handler, Idle, saving
<1> QED
  BY <1>1, <1>2 DEF Ledger!ledger, failed

\* The refinement, step by step: whatever the applications, the length of the history
\* and the faults but a torn file, memory and file together behave as one ledger.
THEOREM LedgerIsKept == Spec => LedgerKept
<1>1. Init => Ledger!Init
  BY DEF Init, Truncated, Ledger!Init, saving, failed
<1>2. LInv /\ [Next]_vars => [Ledger!Next]_(Ledger!ledger)
  <2> SUFFICES ASSUME LInv, [Next]_vars PROVE [Ledger!Next]_(Ledger!ledger)
    OBVIOUS
  <2>1. CASE BusAcquired
    BY <2>1, BusAcquiredBegins
  <2>2. CASE OpenLcData \/ FlushLcData
    BY <2>2, WriteDataSaves
  <2>3. CASE \E a \in Apps, status \in AppStatus : RegisterAppStatus(a, status)
    BY <2>3, RegisterIsEntered
  <2>4. CASE Exit \/ Crash
    BY <2>4, EndEnds
  <2>5. CASE \/ ConnectToNsm \/ ConnectToNsmFails \/ NameAcquired \/ Ready \/ CheckFailedAppRestart
             \/ \E a \in Apps : RequestNodeRestart(a)
             \/ \E type \in {"RUNUP", "NORMAL"} : LcRequest(type)
             \/ NameLost \/ Sigterm
             \/ UNCHANGED vars
    BY <2>5, OthersLeaveLedger
  <2> QED
    BY <2>1, <2>2, <2>3, <2>4, <2>5 DEF Next
<1> QED
  BY <1>1, <1>2, LedgerInductive, PTL DEF Spec, LedgerKept, Ledger!Spec
============================================================================
