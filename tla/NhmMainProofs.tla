--------------------------- MODULE NhmMainProofs ---------------------------
(***************************************************************************)
(* The safety of NhmMain for every set of applications, every set of       *)
(* configurations and every combination of faults.                         *)
(***************************************************************************)
EXTENDS NhmMain, TLAPS, SequenceTheorems, FiniteSetTheorems, WellFoundedInduction

\* Before the bus is acquired, and after the process ended, no application is
\* listed: FailedIsCounted needs it where there is no current life cycle.
ListEmptyUntilExported ==
  phase \in {"down", "connected", "broken"} => current_failed_apps = <<>>

\* The inductive invariant.
IInv ==
  /\ TypeOK
  /\ NodeinfoExists
  /\ FailedListUnique
  /\ FailedIsCounted
  /\ HistoryBounded
  /\ ListEmptyUntilExported

----------------------------------------------------------------------------
LEMMA MinLenBound ==
  ASSUME NEW m \in Nat, NEW n \in Nat
  PROVE  MinLen(m, n) \in Nat /\ MinLen(m, n) <= m /\ MinLen(m, n) <= n
BY DEF MinLen

\* The first life cycles of a history are a history.
LEMMA PrefixType ==
  ASSUME NEW S, NEW s \in Seq(S), NEW k \in 0..Len(s)
  PROVE  SubSeq(s, 1, k) \in Seq(S) /\ Len(SubSeq(s, 1, k)) = k
OBVIOUS

\* Any choice of elements for the places 1..m is a sequence.
LEMMA FunctionIsSeq ==
  ASSUME NEW S, NEW m \in Nat, NEW f \in [1..m -> S]
  PROVE  f \in Seq(S) /\ Len(f) = m
<1>1. f \in Seq(S)
  BY SeqDef
<1>2. DOMAIN f = 1..Len(f) /\ Len(f) \in Nat
  BY <1>1, LenProperties
<1> QED
  BY <1>1, <1>2

\* g_slist_remove() takes one element out and keeps the others in their order.
LEMMA WithoutType ==
  ASSUME NEW S, NEW s \in Seq(S), NEW i \in DOMAIN s
  PROVE  /\ Without(s, i) \in Seq(S)
         /\ Len(Without(s, i)) = Len(s) - 1
         /\ \A j \in DOMAIN Without(s, i) :
              Without(s, i)[j] = s[IF j < i THEN j ELSE j + 1]
<1> DEFINE front == SubSeq(s, 1, i - 1)
           back == SubSeq(s, i + 1, Len(s))
<1>1. i \in 1..Len(s) /\ Len(s) \in Nat
  OBVIOUS
<1>2. front \in Seq(S) /\ Len(front) = i - 1 /\ \A j \in 1..(i - 1) : front[j] = s[j]
  OBVIOUS
<1>3. back \in Seq(S) /\ Len(back) = Len(s) - i /\ \A j \in 1..(Len(s) - i) : back[j] = s[i + j]
  OBVIOUS
<1> HIDE DEF front, back
<1>4. front \o back \in Seq(S) /\ Len(front \o back) = Len(s) - 1
  BY <1>1, <1>2, <1>3, ConcatProperties
<1>5. ASSUME NEW j \in 1..(Len(s) - 1)
      PROVE  (front \o back)[j] = s[IF j < i THEN j ELSE j + 1]
  <2>1. (front \o back)[j] = IF j <= i - 1 THEN front[j] ELSE back[j - (i - 1)]
    BY <1>1, <1>2, <1>3, ConcatProperties
  <2>2. CASE j < i
    BY <1>1, <1>2, <2>1, <2>2
  <2>3. CASE ~(j < i)
    <3>1. j - (i - 1) \in 1..(Len(s) - i) /\ i + (j - (i - 1)) = j + 1
      BY <1>1, <2>3
    <3> QED
      BY <1>1, <1>3, <2>1, <2>3, <3>1
  <2> QED
    BY <2>2, <2>3
<1>6. DOMAIN (front \o back) = 1..(Len(s) - 1)
  BY <1>4, LenProperties
<1> QED
  BY <1>4, <1>5, <1>6 DEF Without, front, back

\* What is left is all that was at another place.
LEMMA WithoutMembers ==
  ASSUME NEW S, NEW s \in Seq(S), NEW i \in DOMAIN s, NEW x
  PROVE  (\E j \in DOMAIN Without(s, i) : Without(s, i)[j] = x) <=> \E j \in DOMAIN s : j # i /\ s[j] = x
<1> DEFINE t == Without(s, i)
<1>1. /\ t \in Seq(S) /\ Len(t) = Len(s) - 1
      /\ \A j \in DOMAIN t : t[j] = s[IF j < i THEN j ELSE j + 1]
  BY WithoutType
<1> HIDE DEF t
<1>2. i \in 1..Len(s) /\ Len(s) \in Nat /\ DOMAIN s = 1..Len(s) /\ DOMAIN t = 1..(Len(s) - 1)
  BY <1>1, LenProperties
<1>3. ASSUME NEW j \in DOMAIN t
      PROVE  LET n == IF j < i THEN j ELSE j + 1 IN n \in DOMAIN s /\ n # i /\ s[n] = t[j]
  BY <1>1, <1>2
<1>4. ASSUME NEW j \in DOMAIN s, j # i
      PROVE  LET m == IF j < i THEN j ELSE j - 1 IN m \in DOMAIN t /\ t[m] = s[j]
  <2>1. CASE j < i
    BY <1>1, <1>2, <2>1
  <2>2. CASE j > i
    <3>1. j - 1 \in DOMAIN t /\ ~(j - 1 < i) /\ (j - 1) + 1 = j
      BY <1>2, <2>2
    <3>2. t[j - 1] = s[j]
      BY <1>1, <3>1
    <3>3. ~(j < i)
      BY <1>2, <2>2
    <3> QED
      BY <3>1, <3>2, <3>3
  <2> QED
    BY <1>2, <1>4, <2>1, <2>2
<1> QED
  BY <1>3, <1>4 DEF t

\* What nhm_main_read_data() appends to nodeinfo is a history of at most the
\* configured length, from any file.
LEMMA ReadDataType ==
  ASSUME lcdata \in [count : Nat, lcs : Seq(LcInfo)], NEW max \in Nat, NEW s \in ReadData(max)
  PROVE  s \in Seq(LcInfo) /\ Len(s) \in Nat /\ Len(s) <= max
<1> DEFINE n == MinLen(lcdata.count, max)
           k == MinLen(Len(lcdata.lcs), n)
<1>1. n \in Nat /\ n <= max
  BY MinLenBound
<1>2. k \in Nat /\ k <= n /\ k <= Len(lcdata.lcs)
  <2>1. Len(lcdata.lcs) \in Nat
    BY LenProperties
  <2> QED
    BY <1>1, <2>1, MinLenBound
<1>3. CASE s = <<>>
  BY <1>3
<1>4. CASE s \in ReadBack(max)
  <2>1. PICK junk \in [1..(n - k) -> LcInfo] : s = SubSeq(lcdata.lcs, 1, k) \o junk
    BY <1>4 DEF ReadBack
  <2> HIDE DEF n, k
  <2>2. n - k \in Nat
    BY <1>1, <1>2
  <2>3. junk \in Seq(LcInfo) /\ Len(junk) = n - k
    BY <2>1, <2>2, FunctionIsSeq
  <2>4. SubSeq(lcdata.lcs, 1, k) \in Seq(LcInfo) /\ Len(SubSeq(lcdata.lcs, 1, k)) = k
    BY <1>2, PrefixType
  <2>5. s \in Seq(LcInfo) /\ Len(s) = k + (n - k)
    BY <2>1, <2>3, <2>4, ConcatProperties
  <2> QED
    BY <1>1, <1>2, <2>5
<1> QED
  BY <1>3, <1>4 DEF ReadData

----------------------------------------------------------------------------
LEMMA DefaultConfigType == DefaultConfig \in Config
BY DEF DefaultConfig, Config

LEMMA InitIInv == Init => IInv
<1> SUFFICES ASSUME Init PROVE IInv
  OBVIOUS
<1>1. config \in Config /\ lcdata \in [count : Nat, lcs : Seq(LcInfo)]
  BY DEF Init, DefaultConfig, Config, Truncated
<1>2. TypeOK
  <2>1. nsm_health \in [Apps -> BOOLEAN]
    BY Zenon DEF Init
  <2>2. nodeinfo \in Seq(LcInfo) /\ current_failed_apps \in Seq(Apps)
    BY DEF Init
  <2> QED
    BY <1>1, <2>1, <2>2 DEF Init, TypeOK, Phases, PcValues, Callers, NodeState
<1>3. HistoryBounded
  BY <1>1 DEF Init, HistoryBounded, Config
<1>4. NodeinfoExists /\ FailedListUnique /\ FailedIsCounted /\ ListEmptyUntilExported
  BY DEF Init, NodeinfoExists, FailedListUnique, FailedIsCounted, ListEmptyUntilExported
<1> QED
  BY <1>2, <1>3, <1>4 DEF IInv

\* A step that leaves the history and the list alone, and the phase and the
\* configuration with them, disturbs the types and the control only.
LEMMA ListsUnchanged ==
  ASSUME IInv, UNCHANGED <<phase, config, nodeinfo, current_failed_apps>>
  PROVE  /\ FailedListUnique' /\ FailedIsCounted' /\ HistoryBounded' /\ ListEmptyUntilExported'
         /\ (nodeinfo # <<>> <=> phase \in {"exported", "broken", "running"})'
BY DEF IInv, FailedListUnique, FailedIsCounted, HistoryBounded, ListEmptyUntilExported,
       NodeinfoExists

\* Whatever the keys are, the values loaded are of use.
LEMMA LoadConfigType == LoadConfig \subseteq Config
<1>1. ASSUME NEW file \in KeyFiles
      PROVE  /\ LoadUint(file.historic_lc_count, 0) \in Nat
             /\ LoadUint(file.max_failed_apps, 0) \in Nat
             /\ LoadStringArray(file.no_restart_apps) \in Seq(Apps)
  <2>1. file \in KeyFile
    BY NhmAssumption
  <2>2. file.historic_lc_count \in IntegerKey /\ file.max_failed_apps \in IntegerKey
        /\ file.no_restart_apps \in ListKey(Apps)
    BY <2>1 DEF KeyFile
  <2>3. <<>> \in Seq(Apps)
    OBVIOUS
  <2>4. ASSUME NEW key \in IntegerKey PROVE LoadUint(key, 0) \in Nat
    BY DEF LoadUint, IntegerKey
  <2> QED
    BY <2>2, <2>3, <2>4 DEF LoadStringArray, ListKey
<1> QED
  BY <1>1, DefaultConfigType DEF LoadConfig, Config

LEMMA ConnectIInv == ASSUME IInv, ConnectToNsm \/ ConnectToNsmFails PROVE IInv'
<1>1. CASE ConnectToNsm
  <2>1. config' \in Config
    BY <1>1, LoadConfigType DEF ConnectToNsm
  <2>2. TypeOK'
    BY <1>1, <2>1 DEF IInv, TypeOK, ConnectToNsm, handler, Phases
  <2>3. nodeinfo = <<>> /\ current_failed_apps = <<>> /\ pc = "idle" /\ caller = "none"
    BY <1>1 DEF IInv, NodeinfoExists, ListEmptyUntilExported, ConnectToNsm
  <2>4. NodeinfoExists' /\ FailedListUnique' /\ FailedIsCounted' /\ ListEmptyUntilExported'
    BY <1>1, <2>3 DEF ConnectToNsm, handler, NodeinfoExists, FailedListUnique, FailedIsCounted,
                      ListEmptyUntilExported
  <2>5. HistoryBounded'
    BY <1>1, <2>1, <2>3 DEF ConnectToNsm, HistoryBounded, Config
  <2> QED
    BY <2>2, <2>4, <2>5 DEF IInv
<1>2. CASE ConnectToNsmFails
  <2>1. TypeOK' /\ NodeinfoExists'
    BY <1>2 DEF IInv, TypeOK, NodeinfoExists, ConnectToNsmFails, handler
  <2> QED
    BY <1>2, <2>1, ListsUnchanged DEF IInv, ConnectToNsmFails
<1> QED
  BY <1>1, <1>2

LEMMA NewLcType == ASSUME NEW state \in NodeState PROVE NewLc(state) \in LcInfo
BY NhmAssumption DEF NewLc, LcInfo

LEMMA BusAcquiredIInv == ASSUME IInv, BusAcquired PROVE IInv'
<1> DEFINE max == config.max_lc_count
<1>1. max \in Nat
  BY DEF IInv, TypeOK, Config
<1>2. PICK state \in ReadFlag, previous \in ReadData(max) :
        nodeinfo' = <<NewLc(state)>> \o previous
  BY DEF BusAcquired
<1>3. previous \in Seq(LcInfo) /\ Len(previous) \in Nat /\ Len(previous) <= max
  BY <1>1, <1>2, ReadDataType DEF IInv, TypeOK
<1>4. NewLc(state) \in LcInfo
  BY <1>2, NewLcType DEF IInv, TypeOK, ReadFlag, NodeState
<1>5. /\ nodeinfo' \in Seq(LcInfo)
      /\ Len(nodeinfo') = 1 + Len(previous)
  <2>1. <<NewLc(state)>> \in Seq(LcInfo) /\ Len(<<NewLc(state)>>) = 1
    BY <1>4
  <2> QED
    BY <1>2, <1>3, <2>1, ConcatProperties
<1>6. TypeOK'
  BY <1>5 DEF IInv, TypeOK, BusAcquired, handler, Phases
<1>7. nodeinfo' # <<>>
  BY <1>3, <1>5
<1>8. NodeinfoExists'
  BY <1>7 DEF IInv, NodeinfoExists, BusAcquired, Idle, handler
<1>9. HistoryBounded'
  BY <1>1, <1>3, <1>5 DEF HistoryBounded, BusAcquired
<1>10. FailedListUnique' /\ FailedIsCounted' /\ ListEmptyUntilExported'
  BY DEF IInv, ListEmptyUntilExported, FailedListUnique, FailedIsCounted, BusAcquired
<1> QED
  BY <1>6, <1>8, <1>9, <1>10 DEF IInv

LEMMA NameAcquiredIInv == ASSUME IInv, NameAcquired PROVE IInv'
<1>1. TypeOK' /\ NodeinfoExists'
  BY DEF IInv, TypeOK, NodeinfoExists, NameAcquired, WriteFlag, process, PcValues, Callers,
         NodeState, Idle
<1> QED
  BY <1>1, ListsUnchanged DEF IInv, NameAcquired, process

LEMMA ReadyIInv == ASSUME IInv, Ready PROVE IInv'
<1>1. phase = "exported"
  BY DEF IInv, NodeinfoExists, Ready, TypeOK
<1>2. TypeOK' /\ NodeinfoExists' /\ ListEmptyUntilExported'
  BY <1>1 DEF IInv, TypeOK, NodeinfoExists, ListEmptyUntilExported, Ready, PcValues, Callers,
              Phases
<1>3. FailedListUnique' /\ FailedIsCounted' /\ HistoryBounded'
  BY DEF IInv, FailedListUnique, FailedIsCounted, HistoryBounded, Ready
<1> QED
  BY <1>2, <1>3 DEF IInv

LEMMA StoredType ==
  ASSUME IInv
  PROVE  Stored \in [count : Nat, lcs : Seq(LcInfo)]
<1> DEFINE n == MinLen(Len(nodeinfo), config.max_lc_count)
<1>1. nodeinfo \in Seq(LcInfo) /\ Len(nodeinfo) \in Nat /\ config.max_lc_count \in Nat
  BY LenProperties DEF IInv, TypeOK, Config
<1>2. n \in Nat /\ n \in 0..Len(nodeinfo)
  <2>1. n \in Nat /\ n <= Len(nodeinfo)
    BY <1>1, MinLenBound
  <2> HIDE DEF n
  <2> QED
    BY <1>1, <2>1
<1>3. SubSeq(nodeinfo, 1, n) \in Seq(LcInfo)
  BY <1>1, <1>2, PrefixType
<1> QED
  BY <1>2, <1>3 DEF Stored

LEMMA TornType ==
  ASSUME NEW file \in [count : Nat, lcs : Seq(LcInfo)], NEW torn \in TornFrom(file)
  PROVE  torn \in [count : Nat, lcs : Seq(LcInfo)]
<1>1. Truncated \in [count : Nat, lcs : Seq(LcInfo)]
  BY DEF Truncated
<1>2. ASSUME NEW k \in 0..Len(file.lcs)
      PROVE  SubSeq(file.lcs, 1, k) \in Seq(LcInfo)
  BY <1>2, PrefixType
<1> QED
  BY <1>1, <1>2 DEF TornFrom

LEMMA WriteDataIInv == ASSUME IInv, OpenLcData \/ FlushLcData PROVE IInv'
<1>1. CASE OpenLcData
  <2>1. Truncated \in [count : Nat, lcs : Seq(LcInfo)]
    BY DEF Truncated
  <2>2. lcdata' \in [count : Nat, lcs : Seq(LcInfo)]
    BY <1>1, <2>1 DEF IInv, TypeOK, OpenLcData
  <2>3. TypeOK' /\ NodeinfoExists'
    BY <1>1, <2>2 DEF IInv, TypeOK, NodeinfoExists, OpenLcData, process, PcValues
  <2> QED
    BY <1>1, <2>3, ListsUnchanged DEF IInv, OpenLcData, process
<1>2. CASE FlushLcData
  <2>1. lcdata' \in [count : Nat, lcs : Seq(LcInfo)]
    BY <1>2, StoredType, TornType DEF FlushLcData
  <2>2. TypeOK' /\ NodeinfoExists'
    BY <1>2, <2>1 DEF IInv, TypeOK, NodeinfoExists, FlushLcData, process, PcValues
  <2> QED
    BY <1>2, <2>2, ListsUnchanged DEF IInv, FlushLcData, process
<1> QED
  BY <1>1, <1>2

----------------------------------------------------------------------------
\* An entry that is not on the list makes it longer by one and keeps it unique.
LEMMA AppendUnique ==
  ASSUME NEW S, NEW s \in Seq(S), NEW a \in S,
         \A i \in DOMAIN s : s[i] # a,
         \A i, j \in DOMAIN s : s[i] = s[j] => i = j
  PROVE  /\ Append(s, a) \in Seq(S)
         /\ \A i \in DOMAIN Append(s, a) : Append(s, a)[i] = a \/ \E j \in DOMAIN s : Append(s, a)[i] = s[j]
         /\ \A i, j \in DOMAIN Append(s, a) : Append(s, a)[i] = Append(s, a)[j] => i = j
OBVIOUS

LEMMA WithoutUnique ==
  ASSUME NEW S, NEW s \in Seq(S), NEW i \in DOMAIN s,
         \A m, n \in DOMAIN s : s[m] = s[n] => m = n
  PROVE  /\ \A m \in DOMAIN Without(s, i) : \E n \in DOMAIN s : Without(s, i)[m] = s[n]
         /\ \A m, n \in DOMAIN Without(s, i) : Without(s, i)[m] = Without(s, i)[n] => m = n
<1> DEFINE t == Without(s, i)
<1>1. /\ t \in Seq(S) /\ Len(t) = Len(s) - 1
      /\ \A j \in DOMAIN t : t[j] = s[IF j < i THEN j ELSE j + 1]
  BY WithoutType
<1> HIDE DEF t
<1>2. i \in 1..Len(s) /\ Len(s) \in Nat /\ DOMAIN s = 1..Len(s) /\ DOMAIN t = 1..(Len(s) - 1)
  BY <1>1, LenProperties
<1>3. ASSUME NEW m \in DOMAIN t
      PROVE  (IF m < i THEN m ELSE m + 1) \in DOMAIN s
  BY <1>2
<1>4. \A m \in DOMAIN t : \E n \in DOMAIN s : t[m] = s[n]
  BY <1>1, <1>3
<1>5. ASSUME NEW m \in DOMAIN t, NEW n \in DOMAIN t, t[m] = t[n]
      PROVE  m = n
  <2>1. (IF m < i THEN m ELSE m + 1) = (IF n < i THEN n ELSE n + 1)
    BY <1>1, <1>3, <1>5
  <2> QED
    BY <1>2, <2>1
<1> QED
  BY <1>4, <1>5 DEF t

\* The current life cycle has a count for every application.
LEMMA CurrentCounts ==
  ASSUME NEW s \in Seq(LcInfo), s # <<>>
  PROVE  \A b \in Apps : s[1].failcount[b] \in Nat
<1>1. s[1] \in LcInfo
  BY EmptySeq, ElementOfSeq
<1>2. s[1].failcount \in [Apps -> 0..MaxFailcount]
  BY <1>1 DEF LcInfo
<1> QED
  BY <1>2, NhmAssumption

\* A failure is counted in the current life cycle and nowhere else.
LEMMA CountFailure ==
  ASSUME NEW s \in Seq(LcInfo), s # <<>>, NEW a \in Apps, s[1].failcount[a] < MaxFailcount
  PROVE  LET t == [s EXCEPT ![1].failcount[a] = @ + 1]
         IN  /\ t \in Seq(LcInfo) /\ Len(t) = Len(s)
             /\ t[1].failcount = [s[1].failcount EXCEPT ![a] = @ + 1]
             /\ \A b \in Apps : t[1].failcount[b] >= s[1].failcount[b]
             /\ t[1].failcount[a] > 0
<1> DEFINE old == s[1].failcount
           new == [old EXCEPT ![a] = @ + 1]
           lc == [s[1] EXCEPT !.failcount = new]
           t == [s EXCEPT ![1] = lc]
<1>1. 1 \in 1..Len(s) /\ s[1] \in LcInfo
  BY EmptySeq, ElementOfSeq
<1>2. old \in [Apps -> 0..MaxFailcount]
  BY <1>1 DEF LcInfo
<1>3. new \in [Apps -> 0..MaxFailcount] /\ new[a] = old[a] + 1
      /\ \A b \in Apps : new[b] >= old[b]
  BY <1>2, NhmAssumption
<1> HIDE DEF new
<1>4. lc \in LcInfo /\ lc.failcount = new
  BY <1>1, <1>3 DEF LcInfo
<1> HIDE DEF lc
<1>5. t \in Seq(LcInfo) /\ Len(t) = Len(s) /\ t[1] = lc
  BY <1>1, <1>4, ExceptSeq
<1>6. t = [s EXCEPT ![1].failcount[a] = @ + 1]
  BY DEF lc, new
<1> HIDE DEF t
<1>7. new[a] > 0
  BY <1>2, <1>3, NhmAssumption
<1> QED
  BY <1>3, <1>4, <1>5, <1>6, <1>7 DEF new

----------------------------------------------------------------------------
LEMMA TellNsmType ==
  ASSUME IInv, NEW a \in Apps, NEW status \in AppStatus, TellNsm(a, status)
  PROVE  nsm_health' \in [Apps -> BOOLEAN]
<1>1. nsm_health \in [Apps -> BOOLEAN] /\ (status = "Ok") \in BOOLEAN
  BY DEF IInv, TypeOK
<1>2. [nsm_health EXCEPT ![a] = (status = "Ok")] \in [Apps -> BOOLEAN]
  BY <1>1, Zenon
<1> QED
  BY <1>1, <1>2 DEF TellNsm

LEMMA RegisterIInv ==
  ASSUME IInv, NEW a \in Apps, NEW status \in AppStatus, RegisterAppStatus(a, status)
  PROVE  IInv'
<1>1. nsm_health' \in [Apps -> BOOLEAN]
  BY TellNsmType DEF RegisterAppStatus
<1>2. /\ nodeinfo # <<>> /\ phase \in {"exported", "running"} /\ pc = "idle" /\ caller = "none"
      /\ UNCHANGED process
  BY DEF IInv, NodeinfoExists, RegisterAppStatus, Serving, Idle
<1>3. CASE AppFails(a)
  <2>1. ~OnList(a) /\ nodeinfo[1].failcount[a] < MaxFailcount
    BY <1>3 DEF AppFails
  <2>2. /\ nodeinfo' \in Seq(LcInfo) /\ Len(nodeinfo') = Len(nodeinfo)
        /\ \A b \in Apps : nodeinfo'[1].failcount[b] >= nodeinfo[1].failcount[b]
        /\ nodeinfo'[1].failcount[a] > 0
    BY <1>2, <1>3, <2>1, CountFailure DEF IInv, TypeOK, AppFails
  <2>3. /\ current_failed_apps' \in Seq(Apps)
        /\ FailedListUnique'
        /\ \A i \in DOMAIN current_failed_apps' :
             \/ current_failed_apps'[i] = a
             \/ \E j \in DOMAIN current_failed_apps : current_failed_apps'[i] = current_failed_apps[j]
    <3> DEFINE old == current_failed_apps
    <3>1. /\ old \in Seq(Apps)
          /\ \A i \in DOMAIN old : old[i] # a
          /\ \A i, j \in DOMAIN old : old[i] = old[j] => i = j
      BY <2>1 DEF IInv, TypeOK, FailedListUnique, OnList
    <3> HIDE DEF old
    <3>2. /\ Append(old, a) \in Seq(Apps)
          /\ \A i \in DOMAIN Append(old, a) :
               Append(old, a)[i] = a \/ \E j \in DOMAIN old : Append(old, a)[i] = old[j]
          /\ \A i, j \in DOMAIN Append(old, a) : Append(old, a)[i] = Append(old, a)[j] => i = j
      BY <3>1, AppendUnique
    <3> QED
      BY <1>3, <3>2 DEF old, FailedListUnique, AppFails
  <2>4. nodeinfo' # <<>>
    BY <1>2, <2>2, EmptySeq DEF IInv, TypeOK
  <2>5. TypeOK'
    BY <1>1, <1>2, <1>3, <2>2, <2>3
       DEF IInv, TypeOK, AppFails, RegisterAppStatus, process, PcValues, Callers
  <2>6. NodeinfoExists' /\ ListEmptyUntilExported'
    BY <1>2, <1>3, <2>4 DEF NodeinfoExists, ListEmptyUntilExported, AppFails, process
  <2>7. FailedIsCounted'
    <3>1. \A b \in Apps : nodeinfo[1].failcount[b] \in Nat /\ nodeinfo'[1].failcount[b] \in Nat
      BY <1>2, <2>2, <2>4, CurrentCounts DEF IInv, TypeOK
    <3>2. \A i \in DOMAIN current_failed_apps : current_failed_apps[i] \in Apps
      BY DEF IInv, TypeOK
    <3> QED
      BY <2>2, <2>3, <3>1, <3>2 DEF IInv, FailedIsCounted
  <2>8. HistoryBounded'
    BY <1>2, <2>2 DEF IInv, HistoryBounded, process
  <2> QED
    BY <2>3, <2>5, <2>6, <2>7, <2>8 DEF IInv
<1>4. CASE AppRecovers(a)
  <2>1. IndexOf(a) \in DOMAIN current_failed_apps
    BY <1>4 DEF AppRecovers, OnList, IndexOf
  <2>2. /\ current_failed_apps' \in Seq(Apps)
        /\ FailedListUnique'
        /\ \A i \in DOMAIN current_failed_apps' :
             \E j \in DOMAIN current_failed_apps : current_failed_apps'[i] = current_failed_apps[j]
    <3> DEFINE old == current_failed_apps
               k == IndexOf(a)
    <3>1. /\ old \in Seq(Apps)
          /\ k \in DOMAIN old
          /\ \A i, j \in DOMAIN old : old[i] = old[j] => i = j
      BY <2>1 DEF IInv, TypeOK, FailedListUnique
    <3> HIDE DEF old, k
    <3>2. /\ Without(old, k) \in Seq(Apps)
          /\ \A i \in DOMAIN Without(old, k) : \E j \in DOMAIN old : Without(old, k)[i] = old[j]
          /\ \A i, j \in DOMAIN Without(old, k) :
               Without(old, k)[i] = Without(old, k)[j] => i = j
      BY <3>1, WithoutType, WithoutUnique
    <3> QED
      BY <1>4, <3>2 DEF old, k, FailedListUnique, AppRecovers
  <2>3. TypeOK' /\ NodeinfoExists' /\ ListEmptyUntilExported'
    BY <1>1, <1>2, <1>4, <2>2
       DEF IInv, TypeOK, NodeinfoExists, ListEmptyUntilExported, AppRecovers, RegisterAppStatus,
           process, handler
  <2>4. FailedIsCounted' /\ HistoryBounded'
    BY <1>2, <1>4, <2>2 DEF IInv, FailedIsCounted, HistoryBounded, AppRecovers, process
  <2> QED
    BY <2>2, <2>3, <2>4 DEF IInv
<1>5. CASE AppUnchanged(a, status)
  <2>1. TypeOK' /\ NodeinfoExists'
    BY <1>1, <1>2, <1>5
       DEF IInv, TypeOK, NodeinfoExists, AppUnchanged, RegisterAppStatus, process, handler
  <2> QED
    BY <1>2, <1>5, <2>1, ListsUnchanged DEF IInv, AppUnchanged, process
<1> QED
  BY <1>3, <1>4, <1>5 DEF RegisterAppStatus

\* What a report does to the list and to the counts of the current life cycle.
LEMMA RegisterEffect ==
  ASSUME IInv, NEW a \in Apps, NEW status \in AppStatus, RegisterAppStatus(a, status)
  PROVE  /\ nodeinfo # <<>> /\ nodeinfo' # <<>>
         /\ OnList(a)' <=> status = "Failed"
         /\ \A b \in Apps \ {a} :
              /\ OnList(b)' <=> OnList(b)
              /\ nodeinfo'[1].failcount[b] = nodeinfo[1].failcount[b]
         /\ IF status = "Failed" /\ ~OnList(a)
            THEN /\ nodeinfo[1].failcount[a] < MaxFailcount
                 /\ nodeinfo'[1].failcount[a] = nodeinfo[1].failcount[a] + 1
            ELSE nodeinfo'[1].failcount[a] = nodeinfo[1].failcount[a]
<1> DEFINE old == current_failed_apps
<1>1. /\ nodeinfo # <<>> /\ nodeinfo \in Seq(LcInfo)
      /\ old \in Seq(Apps)
      /\ \A i, j \in DOMAIN old : old[i] = old[j] => i = j
  BY DEF IInv, TypeOK, NodeinfoExists, FailedListUnique, RegisterAppStatus, Serving, Idle
<1>2. CASE status = "Failed" /\ AppFails(a)
  <2>1. ~OnList(a) /\ nodeinfo[1].failcount[a] < MaxFailcount
    BY <1>2 DEF AppFails
  <2>2. nodeinfo[1].failcount \in [Apps -> 0..MaxFailcount]
    <3>1. 1 \in 1..Len(nodeinfo) /\ nodeinfo[1] \in LcInfo
      BY <1>1, EmptySeq, ElementOfSeq
    <3> QED
      BY <3>1 DEF LcInfo
  <2>3. /\ nodeinfo'[1].failcount = [nodeinfo[1].failcount EXCEPT ![a] = @ + 1]
        /\ nodeinfo' \in Seq(LcInfo) /\ Len(nodeinfo') = Len(nodeinfo)
    BY <1>1, <1>2, <2>1, CountFailure DEF AppFails
  <2>4. nodeinfo' # <<>>
    BY <1>1, <2>3, EmptySeq
  <2>5. \A b : OnList(b)' <=> b = a \/ OnList(b)
    <3>1. /\ DOMAIN Append(old, a) = 1..(Len(old) + 1)
          /\ DOMAIN old = 1..Len(old) /\ Len(old) \in Nat
          /\ \A i \in 1..Len(old) : Append(old, a)[i] = old[i]
          /\ Append(old, a)[Len(old) + 1] = a
      BY <1>1, AppendProperties, LenProperties
    <3>2. current_failed_apps' = Append(old, a)
      BY <1>2 DEF AppFails
    <3> HIDE DEF old
    <3>3. \A b : (\E i \in DOMAIN Append(old, a) : Append(old, a)[i] = b) <=>
                  b = a \/ \E i \in DOMAIN old : old[i] = b
      BY <3>1
    <3> QED
      BY <3>2, <3>3 DEF OnList, old
  <2> QED
    BY <1>1, <1>2, <2>1, <2>2, <2>3, <2>4, <2>5
<1>3. CASE status # "Failed" /\ AppRecovers(a)
  <2> DEFINE k == IndexOf(a)
  <2>1. k \in DOMAIN old /\ old[k] = a
    BY <1>3 DEF AppRecovers, OnList, IndexOf
  <2>2. current_failed_apps' = Without(old, k) /\ UNCHANGED nodeinfo
    BY <1>3 DEF AppRecovers
  <2> HIDE DEF old, k
  <2>3. \A b : (\E i \in DOMAIN Without(old, k) : Without(old, k)[i] = b) <=>
                \E i \in DOMAIN old : i # k /\ old[i] = b
    BY <1>1, <2>1, WithoutMembers
  <2>4. \A b : (\E i \in DOMAIN old : i # k /\ old[i] = b) <=>
                b # a /\ \E i \in DOMAIN old : old[i] = b
    BY <1>1, <2>1
  <2>5. \A b : OnList(b)' <=> b # a /\ OnList(b)
    BY <2>2, <2>3, <2>4 DEF OnList, old
  <2> QED
    BY <1>1, <1>3, <2>2, <2>5
<1>4. CASE AppUnchanged(a, status)
  BY <1>1, <1>4 DEF AppUnchanged, OnList
<1> QED
  BY <1>2, <1>3, <1>4 DEF RegisterAppStatus

LEMMA RequestRestartType == RequestRestart \subseteq Answers
BY DEF RequestRestart, Answers

LEMMA CheckIInv == ASSUME IInv, CheckFailedAppRestart PROVE IInv'
<1>1. restart' \in Answers \cup {"none"}
  BY RequestRestartType DEF IInv, TypeOK, CheckFailedAppRestart
<1>2. TypeOK' /\ NodeinfoExists'
  BY <1>1 DEF IInv, TypeOK, NodeinfoExists, CheckFailedAppRestart, process, PcValues, Callers
<1> QED
  BY <1>2, ListsUnchanged DEF IInv, CheckFailedAppRestart, process

LEMMA RequestNodeRestartIInv ==
  ASSUME IInv, NEW a \in Apps, RequestNodeRestart(a)
  PROVE  IInv'
<1>1. TypeOK' /\ NodeinfoExists'
  BY RequestRestartType DEF IInv, TypeOK, NodeinfoExists, RequestNodeRestart, process, handler
<1> QED
  BY <1>1, ListsUnchanged DEF IInv, RequestNodeRestart, process

LEMMA LcRequestIInv == ASSUME IInv, NEW type, LcRequest(type) PROVE IInv'
<1>1. TypeOK' /\ NodeinfoExists'
  BY DEF IInv, TypeOK, NodeinfoExists, LcRequest, WriteFlag, NodeState, process, handler
<1> QED
  BY <1>1, ListsUnchanged DEF IInv, LcRequest, process

LEMMA QuitIInv == ASSUME IInv, NameLost \/ Sigterm PROVE IInv'
<1>1. TypeOK' /\ NodeinfoExists'
  BY DEF IInv, TypeOK, NodeinfoExists, NameLost, Sigterm, Quit, handler
<1> QED
  BY <1>1, ListsUnchanged DEF IInv, NameLost, Sigterm, Quit

LEMMA EndIInv == ASSUME IInv, Exit \/ Crash PROVE IInv'
<1>1. lcdata' \in [count : Nat, lcs : Seq(LcInfo)]
  BY TornType DEF IInv, TypeOK, Exit, Crash
<1>2. config' \in Config /\ config'.max_lc_count \in Nat
  BY DefaultConfigType DEF Exit, Crash, Die, FreeNhmObjects, FreeConfigObjects, Config
<1>3. TypeOK'
  <2>1. nodeinfo' \in Seq(LcInfo) /\ current_failed_apps' \in Seq(Apps)
    BY EmptySeq DEF Exit, Crash, Die, FreeNhmObjects, FreeConfigObjects
  <2>2. /\ phase' \in Phases /\ quitting' \in BOOLEAN /\ mainreturn' \in {"SUCCESS", "FAILURE"}
        /\ pc' \in PcValues /\ caller' \in Callers
    BY DEF IInv, TypeOK, Exit, Crash, Die, FreeNhmObjects, FreeConfigObjects, Phases, PcValues,
           Callers
  <2>3. flag' \in NodeState /\ nsm_health' \in [Apps -> BOOLEAN] /\ restart' \in Answers \cup {"none"}
    BY DEF IInv, TypeOK, Exit, Crash, Die, FreeNhmObjects, FreeConfigObjects
  <2> QED
    BY <1>1, <1>2, <2>1, <2>2, <2>3 DEF TypeOK
<1>4. NodeinfoExists' /\ ListEmptyUntilExported' /\ FailedListUnique' /\ FailedIsCounted'
  BY DEF Exit, Crash, Die, FreeNhmObjects, FreeConfigObjects, NodeinfoExists,
         ListEmptyUntilExported, FailedListUnique, FailedIsCounted
<1>5. HistoryBounded'
  BY <1>2 DEF Exit, Crash, Die, FreeNhmObjects, FreeConfigObjects, HistoryBounded
<1> QED
  BY <1>3, <1>4, <1>5 DEF IInv

LEMMA StutterIInv == ASSUME IInv, UNCHANGED vars PROVE IInv'
<1>1. TypeOK' /\ NodeinfoExists'
  BY DEF IInv, TypeOK, NodeinfoExists, vars, process, handler
<1> QED
  BY <1>1, ListsUnchanged DEF IInv, vars, process

----------------------------------------------------------------------------
\* Every step of the process, every fault included, keeps the invariant.
THEOREM Inductive == Spec => []IInv
<1>1. Init => IInv
  BY InitIInv
<1>2. IInv /\ [Next]_vars => IInv'
  <2> SUFFICES ASSUME IInv, [Next]_vars PROVE IInv'
    OBVIOUS
  <2>1. CASE ConnectToNsm \/ ConnectToNsmFails
    BY <2>1, ConnectIInv
  <2>2. CASE BusAcquired \/ NameAcquired \/ Ready
    BY <2>2, BusAcquiredIInv, NameAcquiredIInv, ReadyIInv
  <2>3. CASE OpenLcData \/ FlushLcData
    BY <2>3, WriteDataIInv
  <2>4. CASE \E a \in Apps, status \in AppStatus : RegisterAppStatus(a, status)
    BY <2>4, RegisterIInv
  <2>5. CASE CheckFailedAppRestart
    BY <2>5, CheckIInv
  <2>6. CASE \E a \in Apps : RequestNodeRestart(a)
    BY <2>6, RequestNodeRestartIInv
  <2>7. CASE \E type \in {"RUNUP", "NORMAL"} : LcRequest(type)
    BY <2>7, LcRequestIInv
  <2>8. CASE NameLost \/ Sigterm
    BY <2>8, QuitIInv
  <2>9. CASE Exit \/ Crash
    BY <2>9, EndIInv
  <2>10. CASE UNCHANGED vars
    BY <2>10, StutterIInv
  <2> QED
    BY <2>1, <2>2, <2>3, <2>4, <2>5, <2>6, <2>7, <2>8, <2>9, <2>10 DEF Next
<1> QED
  BY <1>1, <1>2, PTL DEF Spec

\* The variables keep their types.
THEOREM TypeCorrect == Spec => []TypeOK
<1>1. IInv => TypeOK
  BY DEF IInv
<1> QED
  BY <1>1, Inductive, PTL

\* No handler uses the life cycles before they exist or after they are freed.
THEOREM NodeinfoSafe == Spec => []NodeinfoExists
<1>1. IInv => NodeinfoExists
  BY DEF IInv
<1> QED
  BY <1>1, Inductive, PTL

\* The number compared to max_failed_apps counts no application twice, and each
\* one counted has a failure in the current life cycle.
THEOREM FailedListSound == Spec => [](FailedListUnique /\ FailedIsCounted)
<1>1. IInv => FailedListUnique /\ FailedIsCounted
  BY DEF IInv
<1> QED
  BY <1>1, Inductive, PTL

\* The history in memory keeps to its configured length whatever the file holds.
THEOREM HistoryStaysBounded == Spec => []HistoryBounded
<1>1. IInv => HistoryBounded
  BY DEF IInv
<1> QED
  BY <1>1, Inductive, PTL

----------------------------------------------------------------------------
(***************************************************************************)
(* What the process promises its neighbours: an answer to every reached    *)
(* limit, an NSM that knows what the list says, a file that holds what the *)
(* memory does.  Each invariant is inductive together with IInv.           *)
(***************************************************************************)

\* While the limit is reached and no restart was asked for since the last failure,
\* the handler of that failure is still running.
AnswerIsDue ==
  LimitReached /\ restart = "none" => pc # "idle" /\ caller = "register"

\* After nhm_main_write_data(), and between handlers in service, the file is current.
WrittenIsStored ==
  pc = "return" \/ (pc = "idle" /\ phase = "running") => lcdata = Stored

----------------------------------------------------------------------------
\* Steps that leave the list, the limit and the answer alone.
LEMMA AnswerUnchanged ==
  ASSUME AnswerIsDue, UNCHANGED <<config, current_failed_apps, restart>>,
         pc # "idle" /\ caller = "register" => pc' # "idle" /\ caller' = "register"
  PROVE  AnswerIsDue'
BY DEF AnswerIsDue, LimitReached

\* A list that is empty reaches no limit.
LEMMA EmptyListIsBelow ==
  ASSUME current_failed_apps = <<>>, config.max_failed_apps \in Nat
  PROVE  ~LimitReached
<1>1. Len(current_failed_apps) = 0
  BY EmptySeq
<1> QED
  BY <1>1 DEF LimitReached

LEMMA AnswerStep == ASSUME IInv, AnswerIsDue, IInv', [Next]_vars PROVE AnswerIsDue'
<1>1. CASE ConnectToNsm \/ Exit \/ Crash
  <2>1. current_failed_apps' = <<>>
    BY <1>1
       DEF IInv, ListEmptyUntilExported, ConnectToNsm, Exit, Crash, Die, FreeNhmObjects,
           FreeConfigObjects
  <2>2. config'.max_failed_apps \in Nat
    BY DEF IInv, TypeOK, Config
  <2>3. Len(current_failed_apps') = 0
    BY <2>1, EmptySeq
  <2> QED
    BY <2>2, <2>3 DEF AnswerIsDue, LimitReached
<1>2. CASE ConnectToNsmFails \/ BusAcquired \/ NameLost \/ Sigterm
  BY <1>2, AnswerUnchanged
     DEF ConnectToNsmFails, BusAcquired, NameLost, Sigterm, Quit, handler
<1>3. CASE NameAcquired
  BY <1>3, AnswerUnchanged DEF NameAcquired, Idle, process
<1>4. CASE Ready
  BY <1>4, AnswerUnchanged DEF Ready
<1>5. CASE OpenLcData \/ FlushLcData
  BY <1>5, AnswerUnchanged DEF OpenLcData, FlushLcData, process
<1>6. ASSUME NEW a \in Apps, NEW status \in AppStatus, RegisterAppStatus(a, status)
      PROVE  AnswerIsDue'
  <2>1. UNCHANGED config /\ pc = "idle"
    BY <1>6 DEF RegisterAppStatus, Serving, Idle, process
  <2>2. CASE AppFails(a)
    BY <2>2 DEF AppFails, AnswerIsDue
  <2>3. CASE AppRecovers(a)
    <3>1. Len(current_failed_apps') = Len(current_failed_apps) - 1 /\ Len(current_failed_apps) \in Nat
      <4>1. IndexOf(a) \in DOMAIN current_failed_apps
        BY <2>3 DEF AppRecovers, OnList, IndexOf
      <4> QED
        BY <2>3, <4>1, WithoutType, LenProperties DEF AppRecovers, IInv, TypeOK
    <3>2. config.max_failed_apps \in Nat
      BY DEF IInv, TypeOK, Config
    <3>3. LimitReached' => LimitReached
      BY <2>1, <3>1, <3>2 DEF LimitReached
    <3> QED
      BY <2>1, <2>3, <3>3 DEF AnswerIsDue, AppRecovers, handler
  <2>4. CASE AppUnchanged(a, status)
    BY <2>1, <2>4, AnswerUnchanged DEF AppUnchanged, handler
  <2> QED
    BY <1>6, <2>2, <2>3, <2>4 DEF RegisterAppStatus
<1>7. CASE CheckFailedAppRestart
  BY <1>7 DEF CheckFailedAppRestart, RequestRestart, AnswerIsDue, LimitReached, process
<1>8. CASE \E a \in Apps : RequestNodeRestart(a)
  BY <1>8 DEF RequestNodeRestart, RequestRestart, AnswerIsDue
<1>9. CASE \E type \in {"RUNUP", "NORMAL"} : LcRequest(type)
  BY <1>9, AnswerUnchanged DEF LcRequest, process, handler
<1>10. CASE UNCHANGED vars
  BY <1>10, AnswerUnchanged DEF vars, process, handler
<1> QED
  BY <1>1, <1>2, <1>3, <1>4, <1>5, <1>6, <1>7, <1>8, <1>9, <1>10 DEF Next

\* With any number of applications and any limit, a node with more failed applications
\* than the limit has had an answer of the NSM to a request sent after the last failure.
\* AnswerIsDue says so of a node that has only reached it: the code asks there already.
THEOREM LimitAnswered == Spec => []LimitNeverSilent
<1>1. Init => AnswerIsDue
  BY DEF Init, DefaultConfig, AnswerIsDue, LimitReached
<1>2. IInv /\ AnswerIsDue => LimitNeverSilent
  <2>1. TypeOK /\ LimitExceeded => LimitReached
    BY DEF TypeOK, Config, LimitExceeded, LimitReached
  <2> QED
    BY <2>1 DEF IInv, AnswerIsDue, LimitNeverSilent, Serving, Idle
<1>3. IInv /\ AnswerIsDue /\ IInv' /\ [Next]_vars => AnswerIsDue'
  BY AnswerStep
<1> QED
  BY <1>1, <1>2, <1>3, Inductive, PTL DEF Spec

----------------------------------------------------------------------------
LEMMA NsmStep ==
  ASSUME "nsm" \notin Faults, IInv, NsmKnowsFailed, [Next]_vars
  PROVE  NsmKnowsFailed'
<1>1. CASE UNCHANGED <<nsm_health, current_failed_apps>>
  BY <1>1 DEF NsmKnowsFailed
<1>2. CASE Exit \/ Crash
  BY <1>2 DEF Exit, Crash, Die, FreeNhmObjects, FreeConfigObjects, NsmKnowsFailed
<1>3. ASSUME NEW a \in Apps, NEW status \in AppStatus, RegisterAppStatus(a, status)
      PROVE  NsmKnowsFailed'
  <2> DEFINE old == current_failed_apps
  <2>1. /\ old \in Seq(Apps)
        /\ \A i, j \in DOMAIN old : old[i] = old[j] => i = j
        /\ \A i \in DOMAIN old : old[i] \in Apps
        /\ nsm_health \in [Apps -> BOOLEAN]
    BY DEF IInv, TypeOK, FailedListUnique
  <2>2. nsm_health' = [nsm_health EXCEPT ![a] = (status = "Ok")]
    BY <1>3 DEF RegisterAppStatus, TellNsm
  <2>3. \A b \in Apps : b # a => nsm_health'[b] = nsm_health[b]
    BY <2>1, <2>2
  <2>4. status # "Ok" => ~nsm_health'[a]
    BY <2>1, <2>2
  <2>5. CASE status = "Failed" /\ AppFails(a)
    <3>1. /\ \A i \in DOMAIN Append(old, a) :
               Append(old, a)[i] = a \/ \E j \in DOMAIN old : Append(old, a)[i] = old[j]
      BY <2>1, <2>5, AppendUnique DEF AppFails, OnList
    <3>2. \A i \in DOMAIN old : old[i] # a
      BY <2>5 DEF AppFails, OnList
    <3> QED
      BY <2>1, <2>3, <2>4, <2>5, <3>1, <3>2 DEF NsmKnowsFailed, AppFails
  <2>6. CASE AppRecovers(a)
    <3> DEFINE k == IndexOf(a)
    <3>1. k \in DOMAIN old /\ old[k] = a
      BY <2>6 DEF AppRecovers, OnList, IndexOf
    <3>2. \A i \in DOMAIN Without(old, k) :
            \E j \in DOMAIN old : j # k /\ Without(old, k)[i] = old[j]
      <4> HIDE DEF old, k
      <4>1. /\ Len(Without(old, k)) = Len(old) - 1
            /\ Without(old, k) \in Seq(Apps)
            /\ \A j \in DOMAIN Without(old, k) :
                 Without(old, k)[j] = old[IF j < k THEN j ELSE j + 1]
        BY <2>1, <3>1, WithoutType
      <4>2. DOMAIN old = 1..Len(old) /\ Len(old) \in Nat /\ DOMAIN Without(old, k) = 1..(Len(old) - 1)
        BY <2>1, <4>1, LenProperties
      <4>3. ASSUME NEW i \in DOMAIN Without(old, k)
            PROVE  LET j == IF i < k THEN i ELSE i + 1 IN j \in DOMAIN old /\ j # k
        BY <3>1, <4>2
      <4> QED
        BY <4>1, <4>3
    <3>3. \A i \in DOMAIN current_failed_apps' :
            \E j \in DOMAIN old : old[j] # a /\ current_failed_apps'[i] = old[j]
      BY <2>1, <2>6, <3>1, <3>2 DEF AppRecovers
    <3> QED
      BY <2>1, <2>3, <3>3 DEF NsmKnowsFailed
  <2>7. CASE AppUnchanged(a, status)
    <3>1. \A i \in DOMAIN old : old[i] = a => status = "Failed"
      BY <2>7 DEF AppUnchanged, OnList
    <3> QED
      BY <2>1, <2>3, <2>4, <2>7, <3>1 DEF NsmKnowsFailed, AppUnchanged
  <2> QED
    BY <1>3, <2>5, <2>6, <2>7 DEF RegisterAppStatus
<1> QED
  BY <1>1, <1>2, <1>3
     DEF Next, vars, ConnectToNsm, ConnectToNsmFails, BusAcquired, NameAcquired, Ready, OpenLcData,
         FlushLcData, CheckFailedAppRestart, RequestNodeRestart, LcRequest, NameLost, Sigterm, Quit

\* When the calls to the NSM work, it never takes a listed application for running.
THEOREM NsmAgrees == ASSUME "nsm" \notin Faults PROVE Spec => []NsmKnowsFailed
<1>1. Init => NsmKnowsFailed
  BY DEF Init, NsmKnowsFailed
<1>2. IInv /\ NsmKnowsFailed /\ [Next]_vars => NsmKnowsFailed'
  BY NsmStep
<1> QED
  BY <1>1, <1>2, Inductive, PTL DEF Spec

----------------------------------------------------------------------------
LEMMA StoredStep ==
  ASSUME Faults \cap {"io", "disk"} = {}, IInv, WrittenIsStored, [Next]_vars
  PROVE  WrittenIsStored'
<1>1. CASE pc' \in {"open", "flush"} \/ (pc' = "idle" /\ phase' # "running")
  BY <1>1 DEF WrittenIsStored
<1>2. CASE UNCHANGED <<pc, phase, lcdata, nodeinfo, config>>
  BY <1>2 DEF WrittenIsStored, Stored
<1>3. CASE FlushLcData
  BY <1>3 DEF FlushLcData, WrittenIsStored, Stored, process
<1>4. CASE Ready \/ CheckFailedAppRestart
  BY <1>4 DEF Ready, CheckFailedAppRestart, WrittenIsStored, Stored, process
<1>5. CASE ConnectToNsm \/ ConnectToNsmFails \/ BusAcquired \/ NameAcquired \/ OpenLcData
           \/ Exit \/ Crash
  BY <1>1, <1>5
     DEF IInv, NodeinfoExists, ConnectToNsm, ConnectToNsmFails, BusAcquired, NameAcquired,
         OpenLcData, Exit, Crash, Die, FreeNhmObjects, FreeConfigObjects, Idle, handler
<1>6. ASSUME NEW a \in Apps, NEW status \in AppStatus, RegisterAppStatus(a, status)
      PROVE  WrittenIsStored'
  BY <1>1, <1>2, <1>6
     DEF RegisterAppStatus, AppFails, AppRecovers, AppUnchanged, process, handler
<1>7. CASE \/ \E a \in Apps : RequestNodeRestart(a)
           \/ \E type \in {"RUNUP", "NORMAL"} : LcRequest(type)
           \/ NameLost \/ Sigterm
           \/ UNCHANGED vars
  BY <1>2, <1>7
     DEF RequestNodeRestart, LcRequest, NameLost, Sigterm, Quit, vars, process, handler
<1> QED
  BY <1>3, <1>4, <1>5, <1>6, <1>7 DEF Next

\* When files can be opened and are written whole, the file holds the history that
\* is in memory whenever a process in service waits for the next call.
THEOREM FileFollows == ASSUME Faults \cap {"io", "disk"} = {} PROVE Spec => []FileIsCurrent
<1>1. Init => WrittenIsStored
  BY DEF Init, WrittenIsStored
<1>2. WrittenIsStored => FileIsCurrent
  BY DEF WrittenIsStored, FileIsCurrent, Idle
<1>3. IInv /\ WrittenIsStored /\ [Next]_vars => WrittenIsStored'
  BY StoredStep
<1> QED
  BY <1>1, <1>2, <1>3, Inductive, PTL DEF Spec

----------------------------------------------------------------------------
(***************************************************************************)
(* The totals of ReadStatistics.  The sum over the life cycles is defined  *)
(* by recursion over a finite set; what it yields follows by induction,    *)
(* which is stated here for sets: every set of numbers has a smallest one. *)
(***************************************************************************)

\* Any property of the subsets of a finite set that some have, a smallest one has.
LEMMA SmallestSubset ==
  ASSUME NEW S, IsFiniteSet(S), NEW T, T \subseteq SUBSET S, T # {}
  PROVE  \E t \in T : \A u \in T : u \subseteq t => u = t
<1>1. IsWellFoundedOn(StrictSubsetOrdering(S), FiniteSubsetsOf(S))
  BY FS_StrictSubsetOrderingWellFounded
<1>2. T \subseteq FiniteSubsetsOf(S)
  BY FS_Subset DEF FiniteSubsetsOf
<1>3. PICK t \in T : \A u \in T : <<u, t>> \notin StrictSubsetOrdering(S)
  BY <1>1, <1>2, WFMin
<1> QED
  BY <1>3 DEF StrictSubsetOrdering

LEMMA SmallestNumber ==
  ASSUME NEW T, T \subseteq Nat, T # {}
  PROVE  \E x \in T : \A y \in T : x <= y
<1>1. PICK n \in T : TRUE
  OBVIOUS
<1> DEFINE S == 0..n
           Below == {0..m : m \in {k \in T : k <= n}}
<1>2. IsFiniteSet(S)
  BY <1>1, FS_Interval
<1>3. Below \subseteq SUBSET S /\ Below # {}
  BY <1>1
<1>4. PICK t \in Below : \A u \in Below : u \subseteq t => u = t
  <2> HIDE DEF S, Below
  <2>1. \E t \in Below : \A u \in Below : u \subseteq t => u = t
    BY <1>2, <1>3, SmallestSubset
  <2> QED
    BY <2>1
<1>5. PICK x \in T : x <= n /\ t = 0..x
  BY <1>4
<1>6. ASSUME NEW y \in T, y < x
      PROVE  FALSE
  <2>1. y \in Nat /\ x \in Nat /\ n \in Nat
    OBVIOUS
  <2>2. 0..y \in Below /\ 0..y \subseteq t /\ x \in t /\ x \notin 0..y
    BY <1>5, <1>6, <2>1
  <2> QED
    BY <1>4, <2>2
<1> QED
  BY <1>5, <1>6

LEMMA Induction ==
  ASSUME NEW T, 0 \in T, \A n \in Nat : n \in T => n + 1 \in T
  PROVE  Nat \subseteq T
<1> SUFFICES ASSUME Nat \ T # {} PROVE FALSE
  OBVIOUS
<1>1. PICK x \in Nat \ T : \A y \in Nat \ T : x <= y
  <2>1. Nat \ T \subseteq Nat
    OBVIOUS
  <2> QED
    BY <2>1, SmallestNumber
<1>2. x # 0 /\ x - 1 \in Nat /\ x - 1 \notin T
  BY <1>1
<1> QED
  BY <1>1, <1>2

Pick(s) == CHOOSE x \in s : TRUE

\* The function h gives each subset of S the sum of f over it, one element at a time.
Sums(h, f, S) ==
  h = [s \in SUBSET S |-> IF s = {} THEN 0 ELSE f[Pick(s)] + h[s \ {Pick(s)}]]

LEMMA PickedFirst ==
  ASSUME NEW S, IsFiniteSet(S), NEW s \in SUBSET S, s # {}
  PROVE  /\ Pick(s) \in s
         /\ s \ {Pick(s)} \in SUBSET S
         /\ IsFiniteSet(s) /\ Cardinality(s) \in Nat \ {0}
         /\ Cardinality(s \ {Pick(s)}) = Cardinality(s) - 1
<1>1. Pick(s) \in s
  BY DEF Pick
<1>2. IsFiniteSet(s) /\ Cardinality(s) \in Nat
  BY FS_Subset, FS_CardinalityType
<1>3. Cardinality(s) # 0
  BY <1>2, FS_EmptySet
<1> QED
  BY <1>1, <1>2, <1>3, FS_RemoveElement

\* The recursion over the subsets of a finite set is a definition: up to every number of
\* elements there is such a function.
LEMMA SumExists ==
  ASSUME NEW S, IsFiniteSet(S), NEW f \in [S -> Nat]
  PROVE  \E h : Sums(h, f, S)
<1> DEFINE UpTo(k) == {s \in SUBSET S : Cardinality(s) <= k}
           Sum(h, s) == IF s = {} THEN 0 ELSE f[Pick(s)] + h[s \ {Pick(s)}]
           T == {k \in Nat : \E h \in [UpTo(k) -> Nat] : \A s \in UpTo(k) : h[s] = Sum(h, s)}
<1>1. 0 \in T
  <2>1. \A s \in UpTo(0) : s = {}
    <3>1. ASSUME NEW s \in SUBSET S, s # {} PROVE Cardinality(s) \in Nat \ {0}
      BY <3>1, PickedFirst
    <3> QED
      BY <3>1
  <2>2. [s \in UpTo(0) |-> 0] \in [UpTo(0) -> Nat]
    OBVIOUS
  <2> QED
    BY <2>1, <2>2
<1>2. ASSUME NEW k \in Nat, k \in T
      PROVE  k + 1 \in T
  <2>1. PICK h \in [UpTo(k) -> Nat] : \A s \in UpTo(k) : h[s] = Sum(h, s)
    BY <1>2
  <2> DEFINE g == [s \in UpTo(k + 1) |-> Sum(h, s)]
  <2>2. ASSUME NEW s \in UpTo(k + 1), s # {}
        PROVE  Pick(s) \in S /\ s \ {Pick(s)} \in UpTo(k)
    <3>1. /\ Pick(s) \in s
          /\ s \ {Pick(s)} \in SUBSET S
          /\ Cardinality(s) \in Nat \ {0}
          /\ Cardinality(s \ {Pick(s)}) = Cardinality(s) - 1
      BY <2>2, PickedFirst
    <3> QED
      BY <3>1
  <2>3. g \in [UpTo(k + 1) -> Nat]
    BY <2>2
  <2>4. \A s \in UpTo(k) : s \in UpTo(k + 1) /\ g[s] = h[s]
    <3>1. ASSUME NEW s \in UpTo(k) PROVE s \in UpTo(k + 1)
      <4>1. Cardinality(s) \in Nat
        BY FS_Subset, FS_CardinalityType
      <4> QED
        BY <4>1
    <3> QED
      BY <2>1, <3>1
  <2>5. \A s \in UpTo(k + 1) : g[s] = Sum(g, s)
    BY <2>2, <2>4
  <2>6. \E h2 \in [UpTo(k + 1) -> Nat] : \A s \in UpTo(k + 1) : h2[s] = Sum(h2, s)
    <3> HIDE DEF g, UpTo, Sum
    <3> QED
      BY <2>3, <2>5
  <2>7. k + 1 \in Nat
    OBVIOUS
  <2> HIDE DEF g, UpTo, Sum
  <2> QED
    BY <2>6, <2>7
<1>3. Cardinality(S) \in T
  <2>1. Cardinality(S) \in Nat
    BY FS_CardinalityType
  <2>2. Nat \subseteq T
    <3> HIDE DEF T
    <3> QED
      BY <1>1, <1>2, Induction
  <2> QED
    BY <2>1, <2>2
<1>4. UpTo(Cardinality(S)) = SUBSET S
  BY FS_Subset
<1>5. PICK h \in [SUBSET S -> Nat] : \A s \in SUBSET S : h[s] = Sum(h, s)
  BY <1>3, <1>4
<1>6. h = [s \in SUBSET S |-> Sum(h, s)]
  BY <1>5
<1> QED
  BY <1>6 DEF Sums

\* A sum of numbers is a number, and no less than each of them.
LEMMA SumBounds ==
  ASSUME NEW S, IsFiniteSet(S), NEW f \in [S -> Nat], NEW h, Sums(h, f, S)
  PROVE  h[S] \in Nat /\ \A x \in S : f[x] <= h[S]
<1> DEFINE Bounded(s) == h[s] \in Nat /\ \A x \in s : f[x] <= h[s]
           Bad == {s \in SUBSET S : ~Bounded(s)}
<1> SUFFICES ASSUME Bad # {} PROVE FALSE
  OBVIOUS
<1>1. PICK t \in Bad : \A u \in Bad : u \subseteq t => u = t
  <2>1. Bad \subseteq SUBSET S
    OBVIOUS
  <2> HIDE DEF Bad
  <2> QED
    BY <2>1, SmallestSubset
<1>2. h[t] = IF t = {} THEN 0 ELSE f[Pick(t)] + h[t \ {Pick(t)}]
  BY Zenon DEF Sums
<1>3. t # {}
  BY <1>1, <1>2
<1>4. Pick(t) \in t /\ t \ {Pick(t)} \in SUBSET S
  BY <1>1, <1>3, PickedFirst
<1>5. Bounded(t \ {Pick(t)})
  BY <1>1, <1>4
<1>6. f[Pick(t)] \in Nat /\ \A x \in t : f[x] \in Nat
  BY <1>1, <1>4
<1>7. Bounded(t)
  BY <1>2, <1>3, <1>4, <1>5, <1>6
<1> QED
  BY <1>1, <1>7

\* TotalFailures of AppStatistics(), with the recursion spelt out.
FailuresIn(a, S) ==
  (CHOOSE h : h = [s \in SUBSET S |->
                     IF s = {} THEN 0
                     ELSE nodeinfo[CHOOSE x \in s : TRUE].failcount[a]
                            + h[s \ {CHOOSE x \in s : TRUE}]])[S]

LEMMA TotalIsSum == ASSUME NEW a PROVE AppStatistics(a).TotalFailures = FailuresIn(a, Summed)
BY DEF AppStatistics, FailuresIn, MapThenSumSet, MapThenFoldSet

LEMMA TotalFailuresBound ==
  ASSUME NEW a, NEW S, IsFiniteSet(S), \A i \in S : nodeinfo[i].failcount[a] \in Nat
  PROVE  \A i \in S : nodeinfo[i].failcount[a] <= FailuresIn(a, S)
<1> DEFINE f == [i \in S |-> nodeinfo[i].failcount[a]]
           Fold(h) == h = [s \in SUBSET S |->
                             IF s = {} THEN 0
                             ELSE nodeinfo[CHOOSE x \in s : TRUE].failcount[a]
                                    + h[s \ {CHOOSE x \in s : TRUE}]]
           sum == CHOOSE h : Fold(h)
<1>1. FailuresIn(a, S) = sum[S]
  BY DEF FailuresIn
<1>2. ASSUME NEW h PROVE Fold(h) <=> Sums(h, f, S)
  <2>1. \A s \in SUBSET S : s # {} => f[Pick(s)] = nodeinfo[Pick(s)].failcount[a]
    BY DEF Pick
  <2> HIDE DEF f
  <2>2. [s \in SUBSET S |-> IF s = {} THEN 0 ELSE f[Pick(s)] + h[s \ {Pick(s)}]]
        = [s \in SUBSET S |-> IF s = {} THEN 0
                              ELSE nodeinfo[Pick(s)].failcount[a] + h[s \ {Pick(s)}]]
    BY <2>1
  <2> QED
    BY <2>2 DEF Sums, Pick
<1>3. f \in [S -> Nat] /\ \A i \in S : f[i] = nodeinfo[i].failcount[a]
  OBVIOUS
<1>4. Sums(sum, f, S)
  <2> HIDE DEF f, Fold
  <2>1. \E h : Fold(h)
    BY <1>2, <1>3, SumExists
  <2>2. Fold(sum)
    BY <2>1
  <2> QED
    BY <1>2, <2>2
<1> HIDE DEF sum, f
<1>5. \A x \in S : f[x] <= sum[S]
  BY <1>3, <1>4, SumBounds
<1> QED
  BY <1>1, <1>3, <1>5

\* ReadStatistics covers every life cycle in memory.
LEMMA AllSummed ==
  ASSUME IInv
  PROVE  Summed = 1..Len(nodeinfo) /\ IsFiniteSet(Summed) /\ Cardinality(Summed) = Len(nodeinfo)
<1>1. Len(nodeinfo) \in Nat /\ config.max_lc_count \in Nat
  BY LenProperties DEF IInv, TypeOK, Config
<1>2. Summed = 1..Len(nodeinfo)
  <2>1. MinLen(Len(nodeinfo), config.max_lc_count + 1) = Len(nodeinfo)
    BY <1>1 DEF IInv, HistoryBounded, MinLen
  <2> QED
    BY <2>1 DEF Summed
<1>3. IsFiniteSet(1..Len(nodeinfo)) /\ Cardinality(1..Len(nodeinfo)) = Len(nodeinfo)
  <2>1. 1 \in Int /\ Len(nodeinfo) \in Int
    BY <1>1
  <2>2. /\ IsFiniteSet(1..Len(nodeinfo))
        /\ Cardinality(1..Len(nodeinfo)) = IF 1 > Len(nodeinfo) THEN 0 ELSE Len(nodeinfo) - 1 + 1
    BY <2>1, FS_Interval
  <2> QED
    BY <1>1, <2>2
<1> QED
  BY <1>2, <1>3

\* The length of the list is no more than the number of applications that can be on it.
LEMMA ListedAtMost ==
  ASSUME IInv, NEW S, IsFiniteSet(S), \A a \in Apps : OnList(a) => a \in S
  PROVE  Len(current_failed_apps) <= Cardinality(S)
<1> DEFINE list == current_failed_apps
<1>1. list \in Seq(Apps) /\ Len(list) \in Nat /\ DOMAIN list = 1..Len(list)
  BY LenProperties DEF IInv, TypeOK
<1>2. list \in Injection(1..Len(list), S)
  <2>1. \A i \in 1..Len(list) : list[i] \in S
    BY <1>1, ElementOfSeq DEF OnList
  <2>2. list \in [1..Len(list) -> S]
    BY <1>1, <2>1
  <2> QED
    BY <1>1, <2>2 DEF IInv, FailedListUnique, Injection, IsInjective
<1>3. Cardinality(1..Len(list)) = Len(list)
  BY <1>1, FS_Interval
<1> HIDE DEF list
<1>4. Cardinality(1..Len(list)) <= Cardinality(S)
  BY <1>2, FS_Injection
<1> QED
  BY <1>3, <1>4 DEF list

\* For every number of applications, with any history: the statistics of the node agree
\* with those of its applications.
THEOREM StatisticsSound == ASSUME IsFiniteSet(Apps) PROVE Spec => []StatisticsAgree
<1>1. ASSUME IInv PROVE StatisticsAgree
  <2> SUFFICES ASSUME Serving PROVE StatisticsAgree
    BY DEF StatisticsAgree
  <2>1. nodeinfo # <<>> /\ nodeinfo \in Seq(LcInfo) /\ Len(nodeinfo) \in Nat
    BY <1>1, LenProperties DEF IInv, TypeOK, NodeinfoExists, Serving, Idle
  <2>2. \A i \in 1..Len(nodeinfo) : \A a \in Apps : nodeinfo[i].failcount[a] \in Nat
    <3>1. ASSUME NEW i \in 1..Len(nodeinfo)
          PROVE  nodeinfo[i].failcount \in [Apps -> 0..MaxFailcount]
      <4>1. nodeinfo[i] \in LcInfo
        BY <2>1, ElementOfSeq
      <4> QED
        BY <4>1 DEF LcInfo
    <3> QED
      BY <3>1, NhmAssumption
  <2>3. Len(current_failed_apps) <= Cardinality({a \in Apps : nodeinfo[1].failcount[a] > 0})
    <3>1. \A a \in Apps : OnList(a) => nodeinfo[1].failcount[a] > 0
      BY <1>1 DEF IInv, FailedIsCounted, OnList
    <3>2. IsFiniteSet({a \in Apps : nodeinfo[1].failcount[a] > 0})
      BY FS_Subset
    <3> QED
      BY <1>1, <3>1, <3>2, ListedAtMost
  <2>4. ASSUME NEW a \in Apps
        PROVE  /\ AppStatistics(a).CurrentFailCount <= AppStatistics(a).TotalFailures
               /\ AppStatistics(a).TotalLifecycles = Len(nodeinfo)
    <3>1. Summed = 1..Len(nodeinfo) /\ IsFiniteSet(Summed) /\ Cardinality(Summed) = Len(nodeinfo)
      BY <1>1, AllSummed
    <3>2. 1 \in Summed
      BY <2>1, <3>1, EmptySeq
    <3>3. nodeinfo[1].failcount[a] <= AppStatistics(a).TotalFailures
      BY <2>2, <3>1, <3>2, TotalIsSum, TotalFailuresBound
    <3>4. /\ AppStatistics(a).CurrentFailCount = nodeinfo[1].failcount[a]
          /\ AppStatistics(a).TotalLifecycles = Cardinality(Summed)
      BY DEF AppStatistics
    <3> QED
      BY <3>1, <3>3, <3>4
  <2>5. NodeStatistics.CurrentFailCount = Len(current_failed_apps)
    BY DEF NodeStatistics
  <2>6. {a \in Apps : AppStatistics(a).CurrentFailCount > 0}
          = {a \in Apps : nodeinfo[1].failcount[a] > 0}
    BY DEF AppStatistics
  <2> QED
    BY <2>3, <2>4, <2>5, <2>6 DEF StatisticsAgree
<1> QED
  BY <1>1, Inductive, PTL
============================================================================
