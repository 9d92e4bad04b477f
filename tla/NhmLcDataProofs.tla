-------------------------- MODULE NhmLcDataProofs --------------------------
(***************************************************************************)
(* What is read from the data file, for any life cycles that were written  *)
(* and wherever the file ends.                                             *)
(***************************************************************************)
EXTENDS NhmLcData, SequenceTheorems, TLAPS

Reading == at \in {"lc", "app", "done"}

\* The head that is in the file, or nothing.
HeadIsRead == Reading /\ OnDisk(CountField) => lc_list_size = MinLen(Len(stored), max_lc_count)

\* What was read of the life cycle that is being read.
PartIsRead ==
  at = "app" =>
    /\ Len(nodeinfo) < lc_list_size
    /\ OnDisk(StateField(lc_idx)) => start_state = stored[lc_idx].start_state
    /\ OnDisk(SizeField(lc_idx)) => app_list_size = Len(stored[lc_idx].failed_apps)
    /\ lc_idx < cut[1] =>
         \A app \in DOMAIN app_list : app_list[app] = stored[lc_idx].failed_apps[app]

\* The number of applications of the life cycle before the one with index lc.
SizeBefore(lc) == IF lc = 1 THEN 0 ELSE Len(nodeinfo[lc - 1].failed_apps)

\* app_list_size is the one of the life cycle before, until there is one to read.
SizeIsKept ==
  /\ at = "head" => nodeinfo = <<>> /\ app_list_size = 0
  /\ at = "lc" \/ (at = "app" /\ lc_idx > cut[1]) => app_list_size = SizeBefore(lc_idx)

AllRead == at = "done" => Len(nodeinfo) = lc_list_size

\* The numbers that are written fit into their fields.
StoredFits ==
  /\ Len(stored) \in Words
  /\ \A lc \in DOMAIN stored : Len(stored[lc].failed_apps) \in Words

IInv ==
  /\ TypeOK /\ StoredFits
  /\ HeadIsRead /\ PartIsRead /\ SizeIsKept /\ AllRead
  /\ CompleteIsRead /\ InventedAreAlike

----------------------------------------------------------------------------
LEMMA WrittenType ==
  ASSUME NEW h \in Histories, NEW max \in MaxLcCounts
  PROVE  /\ Written(h, max) \in Seq(NamedLcInfo)
         /\ Len(Written(h, max)) \in Words
         /\ \A i \in DOMAIN Written(h, max) : Len(Written(h, max)[i].failed_apps) \in Words
<1> DEFINE n == MinLen(Len(h), max)
<1>1. h \in Seq(NamedLcInfo) /\ Len(h) \in Words /\ max \in Nat
  BY LcDataAssumption
<1>2. n \in 0..Len(h)
  BY <1>1, LenProperties DEF MinLen
<1>3. DOMAIN h = 1..Len(h) /\ \A i \in 1..n : h[i] \in NamedLcInfo
  BY <1>1, <1>2, LenProperties
<1>4. Written(h, max) = SubSeq(h, 1, n)
  BY DEF Written
<1> HIDE DEF n
<1>5. /\ Written(h, max) \in Seq(NamedLcInfo)
      /\ Len(Written(h, max)) = n
      /\ \A i \in 1..n : Written(h, max)[i] = h[i]
  BY <1>1, <1>2, <1>3, <1>4, SubSeqProperties, LcDataAssumption DEF Words
<1>6. \A i \in DOMAIN h : Len(h[i].failed_apps) \in Words
  BY LcDataAssumption
<1>7. DOMAIN Written(h, max) = 1..n
  BY <1>5, LenProperties
<1>8. n \in Words
  BY <1>1, <1>2, LcDataAssumption DEF Words
<1> QED
  BY <1>2, <1>3, <1>5, <1>6, <1>7, <1>8

LEMMA MinLenIsOne ==
  ASSUME NEW m \in Nat, NEW n \in Nat
  PROVE  MinLen(m, n) \in Nat /\ MinLen(m, n) <= m /\ MinLen(m, n) <= n
BY DEF MinLen

LEMMA CutType ==
  ASSUME TypeOK
  PROVE  /\ Len(stored) \in Nat
         /\ cut[1] \in 0..(Len(stored) + 1)
         /\ cut[2] \in Nat
         /\ cut[1] = Len(stored) + 1 => cut[2] = 0
<1>1. stored \in Seq(NamedLcInfo) /\ cut \in Fields(stored)
  BY DEF TypeOK
<1>2. Len(stored) \in Nat /\ DOMAIN stored = 1..Len(stored)
  BY <1>1, LenProperties
<1>3. CASE cut \in {VersionField, CountField, StateField(Len(stored) + 1)}
  BY <1>2, <1>3 DEF VersionField, CountField, StateField
<1>4. CASE \E lc \in DOMAIN stored : cut \in {lc} \X (0..(3 * Len(stored[lc].failed_apps) + 1))
  <2>1. PICK lc \in DOMAIN stored : cut \in {lc} \X (0..(3 * Len(stored[lc].failed_apps) + 1))
    BY <1>4
  <2>2. cut[1] = lc /\ cut[2] \in 0..(3 * Len(stored[lc].failed_apps) + 1)
    BY <2>1
  <2>3. stored[lc] \in NamedLcInfo
    BY <1>1, <1>2, <2>1, LenProperties
  <2>4. Len(stored[lc].failed_apps) \in Nat
    BY <2>3, LenProperties DEF NamedLcInfo
  <2> QED
    BY <1>2, <2>1, <2>2, <2>4
<1> QED
  BY <1>1, <1>3, <1>4 DEF Fields

\* What is on the disk of a life cycle is of one that was written, and has what is
\* before it on the disk.
LEMMA OnDiskFacts ==
  ASSUME TypeOK, NEW lc \in Nat \ {0}, NEW k \in Nat, OnDisk(<<lc, k>>)
  PROVE  /\ lc \in DOMAIN stored
         /\ stored[lc] \in NamedLcInfo
         /\ OnDisk(CountField)
         /\ \A j \in 0..k : OnDisk(<<lc, j>>)
<1>1. lc < cut[1] \/ (lc = cut[1] /\ k < cut[2])
  BY DEF OnDisk, Before
<1>2. lc \in 1..Len(stored)
  BY <1>1, CutType
<1>3. stored \in Seq(NamedLcInfo)
  BY DEF TypeOK
<1>4. OnDisk(CountField)
  BY <1>1, <1>2, CutType DEF OnDisk, Before, CountField
<1>5. \A j \in 0..k : OnDisk(<<lc, j>>)
  BY <1>1, CutType DEF OnDisk, Before
<1> QED
  BY <1>2, <1>3, <1>4, <1>5, LenProperties

LEMMA CompleteOnDisk ==
  ASSUME TypeOK, NEW lc \in Nat \ {0}, NEW k \in Nat, lc < cut[1]
  PROVE  OnDisk(<<lc, k>>)
BY CutType DEF OnDisk, Before

\* Behind the life cycle with the cut there is nothing, not even a part of a field.
LEMMA NothingBehindCut ==
  ASSUME TypeOK, NEW lc \in Nat \ {0}, NEW k \in Nat, lc > cut[1]
  PROVE  ~OnDisk(<<lc, k>>) /\ <<lc, k>> # cut
BY CutType DEF OnDisk, Before

----------------------------------------------------------------------------
LEMMA InitIInv == Init => IInv
<1> SUFFICES ASSUME Init PROVE IInv
  OBVIOUS
<1>1. PICK h \in Histories, max \in MaxLcCounts : stored = Written(h, max)
  BY DEF Init
<1>2. stored \in Seq(NamedLcInfo) /\ StoredFits
  BY <1>1, WrittenType DEF StoredFits
<1>3. nodeinfo = <<>> /\ app_list = <<>> /\ Len(nodeinfo) = 0 /\ Len(app_list) = 0
  BY DEF Init
<1>4. TypeOK
  BY <1>2, <1>3, LcDataAssumption DEF Init, TypeOK, States, Words
<1>5. HeadIsRead /\ PartIsRead /\ SizeIsKept /\ AllRead
  BY <1>3 DEF Init, HeadIsRead, PartIsRead, SizeIsKept, AllRead, Reading
<1>6. CompleteIsRead /\ InventedAreAlike
  BY <1>3 DEF CompleteIsRead, InventedAreAlike
<1> QED
  BY <1>2, <1>4, <1>5, <1>6 DEF IInv

LEMMA NoFileIInv == ASSUME IInv, NoFile PROVE IInv'
<1>1. UNCHANGED <<stored, cut, max_lc_count, nodeinfo, lc_list_size, start_state, app_list,
                  app_list_size, app_name_len>> /\ at' = "no_file"
  BY DEF NoFile, file, locals
<1> QED
  BY <1>1 DEF IInv, TypeOK, StoredFits, HeadIsRead, PartIsRead, SizeIsKept, AllRead, Reading,
              CompleteIsRead, InventedAreAlike, OnDisk

LEMMA CloseIInv == ASSUME IInv, Close PROVE IInv'
<1>1. /\ UNCHANGED <<stored, cut, max_lc_count, nodeinfo, lc_list_size, start_state, app_list,
                     app_list_size, app_name_len>>
      /\ at = "lc" /\ at' = "done" /\ Len(nodeinfo) = lc_list_size
  BY DEF Close, file, locals
<1> QED
  BY <1>1 DEF IInv, TypeOK, StoredFits, HeadIsRead, PartIsRead, SizeIsKept, AllRead, Reading,
              CompleteIsRead, InventedAreAlike, OnDisk

LEMMA RestartIInv == ASSUME IInv, Restart PROVE IInv'
<1>1. /\ UNCHANGED <<stored, cut>>
      /\ max_lc_count' \in MaxLcCounts
      /\ at' = "head" /\ nodeinfo' = <<>> /\ lc_list_size' = 0 /\ start_state' = "NOTSET"
      /\ app_list' = <<>> /\ app_list_size' = 0 /\ app_name_len' = 0
  BY DEF Restart, file
<1>2. TypeOK'
  BY <1>1, LcDataAssumption DEF IInv, TypeOK, States, Words
<1> QED
  BY <1>1, <1>2 DEF IInv, StoredFits, HeadIsRead, PartIsRead, SizeIsKept, AllRead, Reading,
                    CompleteIsRead, InventedAreAlike

LEMMA ReadHeadIInv == ASSUME IInv, ReadHead PROVE IInv'
<1>1. /\ UNCHANGED <<stored, cut, max_lc_count, nodeinfo, start_state, app_list, app_list_size,
                     app_name_len>>
      /\ at = "head" /\ at' = "lc"
  BY DEF ReadHead, file
<1>2. PICK n \in Fread(CountField, Len(stored), lc_list_size) :
        lc_list_size' = MinLen(n, max_lc_count)
  BY DEF ReadHead
<1>3. max_lc_count \in Nat /\ Len(stored) \in Words /\ lc_list_size \in Nat /\ MaxWord \in Nat
  BY LcDataAssumption DEF IInv, TypeOK, StoredFits
<1>4. n \in Nat /\ (OnDisk(CountField) => n = Len(stored))
  BY <1>2, <1>3 DEF Fread, Words
<1>5. lc_list_size' \in 0..max_lc_count
  BY <1>2, <1>3, <1>4, MinLenIsOne
<1>6. nodeinfo = <<>> /\ Len(nodeinfo) = 0 /\ app_list_size = 0
  BY <1>1 DEF IInv, SizeIsKept
<1>7. TypeOK' /\ StoredFits'
  BY <1>1, <1>5, <1>6 DEF IInv, TypeOK, StoredFits
<1>8. HeadIsRead'
  BY <1>1, <1>2, <1>4 DEF HeadIsRead, OnDisk
<1>9. PartIsRead' /\ AllRead' /\ CompleteIsRead' /\ InventedAreAlike'
  BY <1>1 DEF IInv, PartIsRead, AllRead, CompleteIsRead, InventedAreAlike
<1>10. SizeIsKept'
  BY <1>1, <1>6 DEF SizeIsKept, SizeBefore, lc_idx
<1> QED
  BY <1>7, <1>8, <1>9, <1>10 DEF IInv

LEMMA ReadLcIInv == ASSUME IInv, ReadLc PROVE IInv'
<1> DEFINE lc == Len(nodeinfo) + 1
<1>1. /\ UNCHANGED <<stored, cut, max_lc_count, nodeinfo, lc_list_size, app_name_len>>
      /\ at = "lc" /\ at' = "app" /\ app_list' = <<>> /\ Len(app_list') = 0
      /\ Len(nodeinfo) < lc_list_size
  BY DEF ReadLc, file
<1>2. /\ start_state' \in FreadNew(StateField(lc), stored[lc].start_state, States)
      /\ app_list_size' \in Fread(SizeField(lc), Len(stored[lc].failed_apps), app_list_size)
  BY DEF ReadLc, lc_idx
<1>3. lc \in Nat \ {0}
  BY LenProperties DEF IInv, TypeOK
<1> HIDE DEF lc
<1>4. /\ start_state' \in States
      /\ OnDisk(StateField(lc)) => start_state' = stored[lc].start_state
  <2>1. CASE OnDisk(StateField(lc))
    BY <1>2, <1>3, <2>1, OnDiskFacts DEF IInv, FreadNew, StateField, NamedLcInfo
  <2>2. CASE ~OnDisk(StateField(lc))
    BY <1>2, <2>2 DEF FreadNew
  <2> QED
    BY <2>1, <2>2
<1>5. /\ app_list_size' \in Words
      /\ OnDisk(SizeField(lc)) => app_list_size' = Len(stored[lc].failed_apps)
  <2>1. CASE OnDisk(SizeField(lc))
    BY <1>2, <1>3, <2>1, OnDiskFacts DEF IInv, StoredFits, Fread, SizeField
  <2>2. CASE ~OnDisk(SizeField(lc))
    BY <1>2, <2>2 DEF IInv, TypeOK, Fread
  <2> QED
    BY <2>1, <2>2
<1>6. lc > cut[1] => app_list_size' = SizeBefore(lc)
  <2> SUFFICES ASSUME lc > cut[1] PROVE app_list_size' = SizeBefore(lc)
    OBVIOUS
  <2>1. app_list_size' = app_list_size
    BY <1>2, <1>3, NothingBehindCut DEF IInv, Fread, SizeField
  <2>2. app_list_size = SizeBefore(lc)
    BY <1>1 DEF IInv, SizeIsKept, lc_idx, lc
  <2> QED
    BY <2>1, <2>2
<1>7. lc_idx' = lc
  BY <1>1 DEF lc_idx, lc
<1>8. TypeOK' /\ StoredFits'
  BY <1>1, <1>4, <1>5, LcDataAssumption DEF IInv, TypeOK, StoredFits, Words
<1>9. HeadIsRead' /\ AllRead' /\ CompleteIsRead' /\ InventedAreAlike'
  BY <1>1 DEF IInv, HeadIsRead, Reading, OnDisk, AllRead, CompleteIsRead, InventedAreAlike
<1>10. PartIsRead'
  BY <1>1, <1>4, <1>5, <1>7 DEF PartIsRead, OnDisk, StateField, SizeField
<1>11. SizeIsKept'
  BY <1>1, <1>6, <1>7 DEF SizeIsKept, SizeBefore
<1> QED
  BY <1>8, <1>9, <1>10, <1>11 DEF IInv

LEMMA ReadAppIInv == ASSUME IInv, ReadApp PROVE IInv'
<1> DEFINE lc == Len(nodeinfo) + 1
           app == Len(app_list) + 1
           here == stored[lc].failed_apps[app]
<1>1. /\ UNCHANGED <<stored, cut, max_lc_count, at, nodeinfo, lc_list_size, start_state,
                     app_list_size>>
      /\ at = "app"
      /\ Len(app_list) < app_list_size
  BY DEF ReadApp, file
<1>2. app_name_len' \in Fread(NameLenField(lc, app), Strlen[here.name] + 1, app_name_len)
  BY DEF ReadApp, Stored, lc_idx, app_idx
<1>3. PICK name \in ReadName(app_name_len'),
           failcount \in FreadNew(FailcountField(lc, app), here.failcount, Words) :
        app_list' = Append(app_list, [name |-> name, failcount |-> failcount])
  BY DEF ReadApp, Stored, lc_idx, app_idx
<1>4. /\ lc \in Nat \ {0} /\ app \in Nat \ {0}
      /\ app_list \in Seq(FailedApp) /\ app_list_size \in Nat
  BY LenProperties, LcDataAssumption DEF IInv, TypeOK, Words
<1>5. lc_idx = lc /\ app_idx = app /\ Stored = here
  BY DEF lc_idx, app_idx, Stored
<1> HIDE DEF lc, app, here
<1>6. ASSUME NEW k \in Nat, k >= 2, OnDisk(<<lc, k>>)
      PROVE  here \in [name : Names, failcount : Words]
  <2>1. stored[lc] \in NamedLcInfo /\ OnDisk(SizeField(lc))
    BY <1>4, <1>6, OnDiskFacts DEF IInv, SizeField
  <2>2. app_list_size = Len(stored[lc].failed_apps)
    BY <1>1, <1>5, <2>1 DEF IInv, PartIsRead
  <2>3. stored[lc].failed_apps \in Seq([name : Names, failcount : Words])
    BY <2>1 DEF NamedLcInfo
  <2>4. app \in 1..Len(stored[lc].failed_apps)
    BY <1>1, <1>4, <2>2 DEF app
  <2> QED
    BY <2>3, <2>4, LenProperties DEF here
<1>7. app_name_len' \in Words
  <2>1. CASE OnDisk(NameLenField(lc, app))
    <3>1. here.name \in Names
      BY <1>4, <1>6, <2>1 DEF NameLenField
    <3> QED
      BY <1>2, <2>1, <3>1, LcDataAssumption DEF Fread
  <2>2. CASE ~OnDisk(NameLenField(lc, app))
    BY <1>2, <2>2 DEF IInv, TypeOK, Fread
  <2> QED
    BY <2>1, <2>2
<1>8. /\ name \in Names \cup {NoName}
      /\ OnDisk(NameField(lc, app)) => name = here.name
  <2>1. CASE OnDisk(NameField(lc, app))
    BY <1>3, <1>4, <1>5, <1>6, <2>1 DEF ReadName, FreadNew, NameField
  <2>2. CASE ~OnDisk(NameField(lc, app))
    BY <1>3, <1>5, <2>2 DEF ReadName, FreadNew
  <2> QED
    BY <2>1, <2>2
<1>9. /\ failcount \in Words
      /\ OnDisk(FailcountField(lc, app)) => failcount = here.failcount
  <2>1. CASE OnDisk(FailcountField(lc, app))
    BY <1>3, <1>4, <1>6, <2>1 DEF FreadNew, FailcountField
  <2>2. CASE ~OnDisk(FailcountField(lc, app))
    BY <1>3, <2>2 DEF FreadNew
  <2> QED
    BY <2>1, <2>2
<1> DEFINE new == [name |-> name, failcount |-> failcount]
<1>10. new \in FailedApp
  BY <1>8, <1>9 DEF FailedApp
<1>11. /\ app_list' \in Seq(FailedApp)
       /\ Len(app_list') = app
       /\ DOMAIN app_list' = 1..app
       /\ \A j \in 1..Len(app_list) : app_list'[j] = app_list[j]
       /\ app_list'[app] = new
  BY <1>3, <1>4, <1>10, AppendProperties, LenProperties DEF app
<1>12. TypeOK' /\ StoredFits'
  BY <1>1, <1>4, <1>7, <1>11 DEF IInv, TypeOK, StoredFits, app
<1>13. /\ HeadIsRead' /\ AllRead' /\ CompleteIsRead' /\ InventedAreAlike' /\ SizeIsKept'
  BY <1>1
     DEF IInv, HeadIsRead, Reading, OnDisk, AllRead, CompleteIsRead, InventedAreAlike, SizeIsKept,
         SizeBefore, lc_idx
<1>14. ASSUME lc < cut[1], NEW j \in DOMAIN app_list'
       PROVE  app_list'[j] = stored[lc].failed_apps[j]
  <2>1. CASE j = app
    <3>1. OnDisk(NameField(lc, app)) /\ OnDisk(FailcountField(lc, app))
      BY <1>4, <1>14, CompleteOnDisk DEF IInv, NameField, FailcountField
    <3>2. here \in [name : Names, failcount : Words]
      BY <1>4, <1>6, <3>1 DEF NameField
    <3>3. new = here
      BY <1>8, <1>9, <3>1, <3>2
    <3> QED
      BY <1>11, <2>1, <3>3 DEF here
  <2>2. CASE j # app
    <3>1. j \in 1..Len(app_list)
      BY <1>4, <1>11, <1>14, <2>2 DEF app
    <3>2. j \in DOMAIN app_list
      BY <1>4, <3>1, LenProperties
    <3> QED
      BY <1>1, <1>5, <1>11, <1>14, <3>1, <3>2 DEF IInv, PartIsRead
  <2> QED
    BY <2>1, <2>2
<1>15. PartIsRead'
  <2>1. lc_idx' = lc
    BY <1>1, <1>5 DEF lc_idx
  <2> QED
    BY <1>1, <1>5, <1>14, <2>1 DEF IInv, PartIsRead, OnDisk, StateField, SizeField
<1> QED
  BY <1>12, <1>13, <1>15 DEF IInv

LEMMA AddLcIInv == ASSUME IInv, AddLc PROVE IInv'
<1> DEFINE lc == Len(nodeinfo) + 1
           new == [start_state |-> start_state, failed_apps |-> app_list]
<1>1. /\ UNCHANGED <<stored, cut, max_lc_count, lc_list_size, start_state, app_list,
                     app_list_size, app_name_len>>
      /\ at = "app" /\ at' = "lc"
      /\ Len(app_list) = app_list_size
      /\ nodeinfo' = Append(nodeinfo, new)
  BY DEF AddLc, file
<1>2. new \in LcInfo /\ nodeinfo \in Seq(LcInfo) /\ app_list \in Seq(FailedApp)
  BY DEF IInv, TypeOK, LcInfo
<1>3. Len(nodeinfo) \in Nat /\ lc \in Nat \ {0} /\ lc_idx = lc
  BY <1>2, LenProperties DEF lc_idx
<1> HIDE DEF lc
<1>4. /\ nodeinfo' \in Seq(LcInfo)
      /\ Len(nodeinfo') = lc
      /\ DOMAIN nodeinfo' = 1..lc
      /\ \A j \in 1..(lc - 1) : nodeinfo'[j] = nodeinfo[j]
      /\ nodeinfo'[lc] = new
      /\ DOMAIN nodeinfo = 1..(lc - 1)
  BY <1>1, <1>2, <1>3, AppendProperties, LenProperties DEF lc
<1>5. TypeOK' /\ StoredFits'
  <2>1. lc <= lc_list_size
    BY <1>1, <1>3, LcDataAssumption DEF IInv, PartIsRead, TypeOK, lc
  <2> QED
    BY <1>1, <1>4, <2>1 DEF IInv, TypeOK, StoredFits
<1>6. HeadIsRead' /\ PartIsRead' /\ AllRead'
  BY <1>1 DEF IInv, HeadIsRead, Reading, OnDisk, PartIsRead, AllRead
<1>7. SizeIsKept'
  <2>1. lc_idx' = lc + 1
    BY <1>4 DEF lc_idx
  <2>2. new.failed_apps = app_list
    OBVIOUS
  <2>3. SizeBefore(lc_idx)' = Len(app_list)
    BY <1>3, <1>4, <2>1, <2>2 DEF SizeBefore
  <2> QED
    BY <1>1, <2>3 DEF SizeIsKept
<1>8. CompleteIsRead'
  <2>1. ASSUME lc < cut[1] PROVE new = stored[lc]
    <3>1. OnDisk(StateField(lc)) /\ OnDisk(SizeField(lc))
      BY <1>3, <2>1, CompleteOnDisk DEF IInv, StateField, SizeField
    <3>2. stored[lc] \in NamedLcInfo
      BY <1>3, <3>1, OnDiskFacts DEF IInv, StateField
    <3>3. /\ start_state = stored[lc].start_state
          /\ Len(app_list) = Len(stored[lc].failed_apps)
          /\ \A j \in DOMAIN app_list : app_list[j] = stored[lc].failed_apps[j]
      BY <1>1, <1>3, <2>1, <3>1 DEF IInv, PartIsRead
    <3>4. stored[lc].failed_apps \in Seq([name : Names, failcount : Words])
      BY <3>2 DEF NamedLcInfo
    <3>5. app_list = stored[lc].failed_apps
      <4> DEFINE n == Len(app_list)
                 apps == stored[lc].failed_apps
                 NamedApp == [name : Names, failcount : Words]
      <4>1. app_list \in [1..n -> FailedApp] /\ DOMAIN app_list = 1..n
        BY <1>2, LenProperties
      <4>2. apps \in [1..n -> NamedApp]
        BY <3>3, <3>4, LenProperties
      <4>3. \A j \in 1..n : app_list[j] = apps[j]
        BY <3>3, <4>1
      <4> HIDE DEF n, apps, NamedApp
      <4>4. app_list = [j \in 1..n |-> app_list[j]] /\ apps = [j \in 1..n |-> apps[j]]
        BY <4>1, <4>2
      <4>5. app_list = apps
        BY <4>3, <4>4, Zenon
      <4> QED
        BY <4>5 DEF apps
    <3> QED
      BY <3>2, <3>3, <3>5 DEF NamedLcInfo
  <2>2. ASSUME NEW j \in 1..lc, j < cut[1] PROVE nodeinfo'[j] = stored[j]
    BY <1>3, <1>4, <2>1, <2>2 DEF IInv, CompleteIsRead
  <2> QED
    BY <1>1, <1>4, <2>2 DEF CompleteIsRead
<1>9. InventedAreAlike'
  <2> SUFFICES ASSUME NEW j \in 1..lc, j > cut[1]
               PROVE  Len(nodeinfo'[j].failed_apps) =
                        IF j = 1 THEN 0 ELSE Len(nodeinfo'[j - 1].failed_apps)
    BY <1>1, <1>4 DEF InventedAreAlike
  <2>1. CASE j = lc
    <3>1. Len(nodeinfo'[lc].failed_apps) = app_list_size
      BY <1>1, <1>4
    <3>2. app_list_size = SizeBefore(lc)
      BY <1>1, <1>3, <2>1 DEF IInv, SizeIsKept
    <3>3. lc # 1 => nodeinfo'[lc - 1] = nodeinfo[lc - 1]
      BY <1>3, <1>4
    <3> QED
      BY <2>1, <3>1, <3>2, <3>3 DEF SizeBefore
  <2>2. CASE j # lc
    <3>1. j \in DOMAIN nodeinfo /\ nodeinfo'[j] = nodeinfo[j]
      BY <1>3, <1>4, <2>2
    <3>2. j # 1 => nodeinfo'[j - 1] = nodeinfo[j - 1]
      BY <1>3, <1>4, <2>2
    <3> QED
      BY <3>1, <3>2 DEF IInv, InventedAreAlike
  <2> QED
    BY <2>1, <2>2
<1> QED
  BY <1>5, <1>6, <1>7, <1>8, <1>9 DEF IInv

LEMMA NextIInv == ASSUME IInv, [Next]_vars PROVE IInv'
<1>1. CASE Read
  BY <1>1, NoFileIInv, ReadHeadIInv, ReadLcIInv, ReadAppIInv, AddLcIInv, CloseIInv DEF Read
<1>2. CASE Restart
  BY <1>2, RestartIInv
<1>3. CASE UNCHANGED vars
  BY <1>3
     DEF vars, file, locals, IInv, TypeOK, StoredFits, HeadIsRead, PartIsRead, SizeIsKept,
         SizeBefore, AllRead, Reading, CompleteIsRead, InventedAreAlike, OnDisk, lc_idx
<1> QED
  BY <1>1, <1>2, <1>3 DEF Next

----------------------------------------------------------------------------
\* The loops of nhm_main_read_data() keep the invariant for any file and configuration.
THEOREM LcDataInductive == Spec => []IInv
<1>1. Init => IInv
  BY InitIInv
<1>2. IInv /\ [Next]_vars => IInv'
  BY NextIInv
<1> QED
  BY <1>1, <1>2, PTL DEF Spec

\* No loop reads more than was announced, and what it reads has its type.
THEOREM LcDataTypeCorrect == Spec => []TypeOK
<1>1. IInv => TypeOK
  BY DEF IInv
<1> QED
  BY <1>1, LcDataInductive, PTL

\* nhm_main_read_data() gives back each life cycle that is complete in the file, and as
\* many as the file announces and the configuration keeps, wherever the file ends.
THEOREM WhatIsStoredIsRead == Spec => []StoredIsRead
<1>1. IInv => StoredIsRead
  BY DEF IInv, StoredIsRead, HeadIsRead, AllRead, AnnouncedIsRead, Reading
<1> QED
  BY <1>1, LcDataInductive, PTL

\* A life cycle that is not in the file gets as many invented applications as the one
\* before it has (app_list_size is kept), and none if the file has only its head.
THEOREM InventionIsBounded == Spec => []InventedAreAlike
<1>1. IInv => InventedAreAlike
  BY DEF IInv
<1> QED
  BY <1>1, LcDataInductive, PTL
============================================================================
