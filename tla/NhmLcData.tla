----------------------------- MODULE NhmLcData -----------------------------
(***************************************************************************)
(* The data file field by field: what nhm_main_read_data() makes of a file *)
(* that nhm_main_write_data() wrote and that ends where a full disk or the *)
(* end of the process left it.  NhmMain has the result, as ReadBack.       *)
(*                                                                         *)
(* No fread() is checked.  One that finds nothing leaves its variable as   *)
(* it is: what the last life cycle put there, or what g_new() found in the *)
(* memory.  One that finds a part of its field leaves any value.           *)
(***************************************************************************)
EXTENDS Naturals, Sequences

CONSTANTS
  Names,        \* names of applications, and what memory may hold for one
  Strlen,       \* length of each name
  MaxWord,      \* bound on the values of a 4 byte field
  Histories,    \* contents of nodeinfo when the file is written
  MaxLcCounts   \* values of max_lc_count, at the writing and at each reading

\* NhmNodeState, and any other value of the field.
States == {"NOTSET", "STARTED", "SHUTDOWN", "other"}

Words == 0..MaxWord

\* g_new() of no characters gives NULL.
NoName == "NULL"

FailedApp == [name : Names \cup {NoName}, failcount : Words]

LcInfo == [start_state : States, failed_apps : Seq(FailedApp)]

\* What RegisterAppStatus makes of nodeinfo: every application has a name.
NamedLcInfo ==
  [start_state : States, failed_apps : Seq([name : Names, failcount : Words])]

ASSUME LcDataAssumption ==
  /\ NoName \notin Names
  /\ Strlen \in [Names -> Nat]
  /\ MaxWord \in Nat
  /\ \A a \in Names : Strlen[a] + 1 \in Words
  /\ MaxLcCounts \subseteq Nat
  /\ \A h \in Histories :
       /\ h \in Seq(NamedLcInfo)
       /\ Len(h) \in Words
       /\ \A i \in DOMAIN h : Len(h[i].failed_apps) \in Words

VARIABLES
  stored,         \* the life cycles that were written
  cut,            \* the field with which the file ends
  max_lc_count,
  at,             \* place in nhm_main_read_data()
  nodeinfo,       \* the life cycles read so far; the next one has the index lc_idx
  lc_list_size,
  start_state,    \* lc_Info->start_state
  app_list,       \* the applications read so far; the next one has the index app_idx
  app_list_size,
  app_name_len

file == <<stored, cut>>
locals == <<nodeinfo, lc_list_size, start_state, app_list, app_list_size, app_name_len>>
vars == <<file, max_lc_count, at, locals>>

----------------------------------------------------------------------------
(***************************************************************************)
(* A field has the number of its life cycle, 0 for the head of the file,   *)
(* and its number in there.  The end of the file comes where the field     *)
(* behind the last one would be.                                           *)
(***************************************************************************)
VersionField == <<0, 0>>
CountField == <<0, 1>>
StateField(lc) == <<lc, 0>>
SizeField(lc) == <<lc, 1>>
NameLenField(lc, app) == <<lc, 3 * app - 1>>
NameField(lc, app) == <<lc, 3 * app>>
FailcountField(lc, app) == <<lc, 3 * app + 1>>

Fields(lcs) ==
  {VersionField, CountField, StateField(Len(lcs) + 1)}
  \cup UNION {{lc} \X (0..(3 * Len(lcs[lc].failed_apps) + 1)) : lc \in DOMAIN lcs}

Before(f, g) == f[1] < g[1] \/ (f[1] = g[1] /\ f[2] < g[2])

OnDisk(field) == Before(field, cut)

MinLen(m, n) == IF m <= n THEN m ELSE n

\* nhm_main_write_data(): as many life cycles as are configured, or there are.
Written(lcs, max) == SubSeq(lcs, 1, MinLen(Len(lcs), max))

\* Mutant: the variable that is read into has no value of its own.
FreadUninitialised(field, value, before) == IF OnDisk(field) THEN {value} ELSE Words

\* fread() into a variable that had the value before.
Fread(field, value, before) ==
  IF OnDisk(field) THEN {value} ELSE IF field = cut THEN Words ELSE {before}

\* fread() into memory of g_new(), which had any value before.
FreadNew(field, value, any) == IF OnDisk(field) THEN {value} ELSE any

----------------------------------------------------------------------------
Init ==
  /\ \E lcs \in Histories, max \in MaxLcCounts : stored = Written(lcs, max)
  /\ cut \in Fields(stored)
  /\ max_lc_count \in MaxLcCounts
  /\ at = "head"
  /\ nodeinfo = <<>>
  /\ lc_list_size = 0
  /\ start_state = "NOTSET"
  /\ app_list = <<>>
  /\ app_list_size = 0
  /\ app_name_len = 0

lc_idx == Len(nodeinfo) + 1
app_idx == Len(app_list) + 1

\* fopen() fails.
NoFile ==
  /\ at = "head"
  /\ at' = "no_file"
  /\ UNCHANGED <<file, max_lc_count, locals>>

\* Mutant: the number in the file is not cut to the configured one.
ReadHeadUncut ==
  /\ at = "head"
  /\ \E n \in Fread(CountField, Len(stored), lc_list_size) : lc_list_size' = n
  /\ at' = "lc"
  /\ UNCHANGED <<file, max_lc_count, nodeinfo, start_state, app_list, app_list_size, app_name_len>>

ReadHead ==
  /\ at = "head"
  /\ \E n \in Fread(CountField, Len(stored), lc_list_size) :
       lc_list_size' = MinLen(n, max_lc_count)
  /\ at' = "lc"
  /\ UNCHANGED <<file, max_lc_count, nodeinfo, start_state, app_list, app_list_size, app_name_len>>

ReadLc ==
  /\ at = "lc"
  /\ Len(nodeinfo) < lc_list_size
  /\ start_state' \in FreadNew(StateField(lc_idx), stored[lc_idx].start_state, States)
  /\ app_list_size' \in
       Fread(SizeField(lc_idx), Len(stored[lc_idx].failed_apps), app_list_size)
  /\ app_list' = <<>>
  /\ at' = "app"
  /\ UNCHANGED <<file, max_lc_count, nodeinfo, lc_list_size, app_name_len>>

\* The name and the count of the application that is stored at the place read.
Stored == stored[lc_idx].failed_apps[app_idx]

ReadName(len) ==
  FreadNew(NameField(lc_idx, app_idx), Stored.name, IF len = 0 THEN {NoName} ELSE Names)

\* Mutant: the list is built with g_slist_prepend().
ReadAppPrepends ==
  /\ at = "app"
  /\ Len(app_list) < app_list_size
  /\ app_name_len' \in Fread(NameLenField(lc_idx, app_idx), Strlen[Stored.name] + 1, app_name_len)
  /\ \E name \in ReadName(app_name_len'),
        failcount \in FreadNew(FailcountField(lc_idx, app_idx), Stored.failcount, Words) :
       app_list' = <<[name |-> name, failcount |-> failcount]>> \o app_list
  /\ UNCHANGED <<file, max_lc_count, at, nodeinfo, lc_list_size, start_state, app_list_size>>

ReadApp ==
  /\ at = "app"
  /\ Len(app_list) < app_list_size
  /\ app_name_len' \in Fread(NameLenField(lc_idx, app_idx), Strlen[Stored.name] + 1, app_name_len)
  /\ \E name \in ReadName(app_name_len'),
        failcount \in FreadNew(FailcountField(lc_idx, app_idx), Stored.failcount, Words) :
       app_list' = Append(app_list, [name |-> name, failcount |-> failcount])
  /\ UNCHANGED <<file, max_lc_count, at, nodeinfo, lc_list_size, start_state, app_list_size>>

\* Mutant: the life cycle is not added to the array that the loop is counted by.
AddLcForgotten ==
  /\ at = "app"
  /\ Len(app_list) = app_list_size
  /\ at' = "lc"
  /\ UNCHANGED <<file, max_lc_count, locals>>

AddLc ==
  /\ at = "app"
  /\ Len(app_list) = app_list_size
  /\ nodeinfo' = Append(nodeinfo, [start_state |-> start_state, failed_apps |-> app_list])
  /\ at' = "lc"
  /\ UNCHANGED
       <<file, max_lc_count, lc_list_size, start_state, app_list, app_list_size, app_name_len>>

Close ==
  /\ at = "lc"
  /\ Len(nodeinfo) = lc_list_size
  /\ at' = "done"
  /\ UNCHANGED <<file, max_lc_count, locals>>

\* The process ends before it writes the file, and the next one, which may be
\* configured otherwise, reads it again.
Restart ==
  /\ at \in {"no_file", "done"}
  /\ max_lc_count' \in MaxLcCounts
  /\ at' = "head"
  /\ nodeinfo' = <<>>
  /\ lc_list_size' = 0
  /\ start_state' = "NOTSET"
  /\ app_list' = <<>>
  /\ app_list_size' = 0
  /\ app_name_len' = 0
  /\ UNCHANGED file

Read == NoFile \/ ReadHead \/ ReadLc \/ ReadApp \/ AddLc \/ Close

Next == Read \/ Restart

Spec == Init /\ [][Next]_vars

\* nhm_main_read_data() runs to its end.
FairSpec == Spec /\ WF_vars(Read)

----------------------------------------------------------------------------
\* The type of every variable, and loops that keep to their counts.
TypeOK ==
  /\ stored \in Seq(NamedLcInfo)
  /\ cut \in Fields(stored)
  /\ max_lc_count \in MaxLcCounts
  /\ at \in {"head", "lc", "app", "done", "no_file"}
  /\ nodeinfo \in Seq(LcInfo)
  /\ lc_list_size \in 0..max_lc_count
  /\ Len(nodeinfo) <= lc_list_size
  /\ start_state \in States
  /\ app_list \in Seq(FailedApp)
  /\ app_list_size \in Words
  /\ Len(app_list) <= app_list_size
  /\ app_name_len \in Words

\* Whatever is cut off, a life cycle that is complete in the file is read as it was
\* written: state, applications in their order, names and failcounts.
CompleteIsRead ==
  \A lc \in DOMAIN nodeinfo : lc < cut[1] => nodeinfo[lc] = stored[lc]

\* As many life cycles as the file announces and the configuration keeps, for which
\* the announced number is enough to be in the file.
AnnouncedIsRead ==
  at = "done" /\ OnDisk(CountField) => Len(nodeinfo) = MinLen(Len(stored), max_lc_count)

\* Wherever the file ends, no life cycle is lost or altered that could still be read.
StoredIsRead == CompleteIsRead /\ AnnouncedIsRead

\* A life cycle that is not in the file at all has as many applications as the one
\* before it, app_list_size being kept; with only the head in the file it has none.
InventedAreAlike ==
  \A lc \in DOMAIN nodeinfo :
    lc > cut[1] =>
      Len(nodeinfo[lc].failed_apps) = IF lc = 1 THEN 0 ELSE Len(nodeinfo[lc - 1].failed_apps)

\* The reading ends, whatever the sizes that are read.
ReadingEnds == at = "head" ~> at \in {"done", "no_file"}
=============================================================================
