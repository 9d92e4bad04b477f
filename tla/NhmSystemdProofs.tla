------------------------- MODULE NhmSystemdProofs --------------------------
(***************************************************************************)
(* The list of observed units, for any units, transitions and signals.     *)
(* First what does not depend on which signals are on their way (IInv),    *)
(* then the list against the queue of signals and systemd (QInv).          *)
(***************************************************************************)
EXTENDS NhmSystemd, SequenceTheorems, TLAPS

NoEntry == <<>>

Entries == {NoEntry} \cup {<<s>> : s \in KnownStates}

\* The variables without the signals, each name with one entry at most.
ListType ==
  /\ loaded \subseteq Units
  /\ state \in [Units -> ActiveStates]
  /\ step \in Steps
  /\ todo \subseteq Units
  /\ read \in [Units -> KnownStates]
  /\ observed \in [Units -> Entries]
  /\ reported \in [Units -> AppStatus \cup {"none"}]

\* Nothing is observed before the units are listed.
NothingYet ==
  step \in {"off", "subscribed", "refused"} => todo = {} /\ \A u \in Units : observed[u] = NoEntry

NotObservedTwice == \A u \in todo : observed[u] = NoEntry

IInv == ListType /\ NothingYet /\ NotObservedTwice /\ FailureReported

----------------------------------------------------------------------------
Message == [sig : Signals \cup {"Dropped"}, unit : Units]

\* A message is in a queue; each message m in it has a message n somewhere behind.
Holds(queue, m) == \E i \in DOMAIN queue : queue[i] = m

Answered(queue, m, n) ==
  \A i \in DOMAIN queue : queue[i] = m => \E j \in DOMAIN queue : j > i /\ queue[j] = n

\* Nothing is sent without a subscription, and no unit waits for its own when
\* no handler runs.
QueueType ==
  /\ signals \in Seq(Message)
  /\ step \in {"off", "refused"} => signals = <<>>
  /\ step = "idle" => todo = {}

Following == step \in {"listing", "idle", "adding"}

\* A unit that has an entry or is about to get one.
Taken(u) == Observes(u) \/ u \in todo

\* The list and systemd differ in a unit only if the signal that says so is on its
\* way, and the last signal of a unit that is on its way says what it is.
ListFollows(u) ==
  /\ Following /\ u \in loaded /\ ~Taken(u) => Holds(signals, Signal("UnitNew", u))
  /\ u \notin loaded /\ Taken(u) => Holds(signals, Signal("UnitRemoved", u))
  /\ u \notin loaded => Answered(signals, Signal("UnitNew", u), Signal("UnitRemoved", u))
  /\ u \in loaded => Answered(signals, Signal("UnitRemoved", u), Signal("UnitNew", u))

UpToDate(known, u) == known = state[u] \/ (BusFails /\ known = "unknown")

\* What is known of a unit is what it is, but for a change that is on its way, a
\* unit that is about to go, and a change that nobody was subscribed to.
StateFollows(u) ==
  /\ Holds(signals, Signal("PropertiesChanged", u)) => Observes(u)
  /\ u \notin missed /\ ~Holds(signals, Signal("UnitRemoved", u)) =>
       /\ Observes(u) /\ ~Holds(signals, Signal("PropertiesChanged", u)) =>
            UpToDate(observed[u][1], u)
       /\ u \in todo => UpToDate(read[u], u)

QInv == IInv /\ QueueType /\ missed \subseteq Units /\ \A u \in Units : ListFollows(u) /\ StateFollows(u)

----------------------------------------------------------------------------
LEMMA EntryFacts ==
  ASSUME NEW s \in KnownStates, NEW t \in KnownStates
  PROVE  /\ <<s>> \o NoEntry = <<s>>
         /\ Tail(<<s>>) = NoEntry
         /\ [<<s>> EXCEPT ![1] = t] = <<t>>
         /\ <<s>> # NoEntry
         /\ <<s>>[1] = s
BY DEF NoEntry

LEMMA EntryOf ==
  ASSUME ListType, NEW u \in Units, observed[u] # NoEntry
  PROVE  \E s \in KnownStates : observed[u] = <<s>> /\ observed[u][1] = s
<1>1. observed[u] \in Entries
  BY DEF ListType
<1> QED
  BY <1>1, EntryFacts DEF Entries

LEMMA StatesAreKnown ==
  "unknown" \in KnownStates /\ "inactive" \in KnownStates /\ ActiveStates \subseteq KnownStates
BY DEF KnownStates, ActiveStates

LEMMA ReportsType ==
  ASSUME NEW from, NEW to
  PROVE  Reports(from, to) \in AppStatus \cup {"none"}
BY DEF Reports, AppStatus

LEMMA FailureIsReported ==
  ASSUME NEW from, from # "failed"
  PROVE  Reports(from, "failed") = "Failed"
BY DEF Reports

LEMMA GetType ==
  ASSUME ListType, NEW u \in Units
  PROVE  GetActiveState(u) \subseteq KnownStates
BY StatesAreKnown DEF GetActiveState, ListType

----------------------------------------------------------------------------
LEMMA InitIInv == Init => IInv
<1> SUFFICES ASSUME Init PROVE IInv
  OBVIOUS
<1>1. ListType
  BY StatesAreKnown DEF Init, ListType, Steps, Entries, NoEntry, ActiveStates, AppStatus
<1>2. NothingYet /\ NotObservedTwice
  BY DEF Init, NothingYet, NotObservedTwice, NoEntry
<1>3. FailureReported
  BY DEF Init, FailureReported, Observes
<1> QED
  BY <1>1, <1>2, <1>3 DEF IInv

LEMMA EnvironmentIInv == ASSUME IInv, Environment PROVE IInv'
<1>1. UNCHANGED <<step, todo, read, observed, reported>>
  BY DEF Environment, Load, Unload, Change, Touch, systemd
<1>2. loaded' \subseteq Units /\ state' \in [Units -> ActiveStates]
  BY DEF IInv, ListType, Environment, Load, Unload, Change, Touch, systemd
<1> QED
  BY <1>1, <1>2 DEF IInv, ListType, NothingYet, NotObservedTwice, FailureReported, Observes

\* The observation is dropped, at its end or when it cannot be started.
LEMMA DisconnectIInv ==
  ASSUME IInv, Disconnect, step' \in Steps, UNCHANGED <<systemd, read>>,
         reported' \in [Units -> AppStatus \cup {"none"}]
  PROVE  IInv'
<1>1. todo' = {} /\ observed' = [u \in Units |-> NoEntry]
  BY DEF Disconnect, NoEntry
<1>2. ListType'
  BY <1>1 DEF IInv, ListType, systemd, Entries
<1>3. \A u \in Units : ~Observes(u)'
  BY <1>1 DEF Observes, NoEntry
<1> QED
  BY <1>1, <1>2, <1>3 DEF IInv, NothingYet, NotObservedTwice, FailureReported

LEMMA SubscribeIInv == ASSUME IInv, Subscribe PROVE IInv'
<1>1. UNCHANGED <<systemd, read, reported>>
  BY DEF Subscribe
<1>2. CASE step' = "subscribed" /\ UNCHANGED <<signals, todo, observed, missed>>
  BY <1>1, <1>2
     DEF IInv, Subscribe, ListType, NothingYet, NotObservedTwice, FailureReported, Observes,
         systemd, Steps
<1>3. CASE step' = "refused" /\ Disconnect
  BY <1>1, <1>3, DisconnectIInv DEF IInv, ListType, Steps
<1> QED
  BY <1>2, <1>3 DEF Subscribe

LEMMA ListUnitsIInv == ASSUME IInv, ListUnits PROVE IInv'
<1>1. UNCHANGED <<systemd, reported>> /\ step = "subscribed"
  BY DEF ListUnits
<1>2. CASE /\ step' = "listing"
           /\ todo' = loaded
           /\ read' = [u \in Units |-> IF u \in loaded THEN state[u] ELSE read[u]]
           /\ UNCHANGED <<signals, observed, missed>>
  <2>1. ListType'
    BY <1>1, <1>2, StatesAreKnown DEF IInv, ListType, systemd, Steps
  <2>2. \A u \in Units : observed'[u] = NoEntry
    BY <1>1, <1>2 DEF IInv, NothingYet
  <2> QED
    BY <1>2, <2>1, <2>2
       DEF IInv, ListType, NothingYet, NotObservedTwice, FailureReported, Observes, NoEntry
<1>3. CASE step' = "refused" /\ Disconnect /\ UNCHANGED read
  BY <1>1, <1>3, DisconnectIInv DEF IInv, ListType, Steps
<1> QED
  BY <1>2, <1>3 DEF ListUnits

LEMMA SubscribeUnitIInv == ASSUME IInv, NEW u \in Units, SubscribeUnit(u) PROVE IInv'
<1>1. /\ u \in todo
      /\ todo' = todo \ {u}
      /\ UNCHANGED <<loaded, state, read, reported>>
      /\ step' \in {step, "idle"}
      /\ step \in {"listing", "adding"}
  BY DEF SubscribeUnit, systemd
<1>2. observed[u] = NoEntry /\ read[u] \in KnownStates
  BY <1>1 DEF IInv, NotObservedTwice, ListType
<1>3. observed' = [observed EXCEPT ![u] = <<read[u]>>]
  BY <1>2, EntryFacts DEF SubscribeUnit
<1>4. ListType'
  BY <1>1, <1>2, <1>3 DEF IInv, ListType, Entries, Steps
<1>5. NothingYet' /\ NotObservedTwice'
  BY <1>1, <1>3 DEF IInv, ListType, NothingYet, NotObservedTwice
<1>6. FailureReported'
  <2> SUFFICES ASSUME NEW v \in Units, Observes(v)', observed'[v][1] = "failed", read'[v] # "failed"
               PROVE  reported'[v] = "Failed"
    BY DEF FailureReported
  <2>1. v # u
    BY <1>1, <1>2, <1>3, EntryFacts DEF IInv, ListType
  <2> QED
    BY <1>1, <1>3, <2>1 DEF IInv, ListType, FailureReported, Observes
<1> QED
  BY <1>4, <1>5, <1>6 DEF IInv

LEMMA NothingListedIInv == ASSUME IInv, NothingListed PROVE IInv'
BY DEF IInv, NothingListed, ListType, NothingYet, NotObservedTwice, FailureReported, Observes,
       systemd, Steps

LEMMA UnitAddedIInv == ASSUME IInv, NEW u \in Units, UnitAdded(u) PROVE IInv'
<1>1. UNCHANGED <<systemd, observed, reported>> /\ step = "idle"
  BY DEF UnitAdded, Handles
<1>2. CASE UNCHANGED <<step, todo, read>>
  BY <1>1, <1>2
     DEF IInv, ListType, NothingYet, NotObservedTwice, FailureReported, Observes, systemd
<1>3. CASE /\ ~Observes(u)
           /\ \E s \in GetActiveState(u) : read' = [read EXCEPT ![u] = s]
           /\ todo' = {u}
           /\ step' = "adding"
  <2>1. PICK s \in GetActiveState(u) : read' = [read EXCEPT ![u] = s]
    BY <1>3
  <2>2. s \in KnownStates
    BY GetType DEF IInv
  <2>3. ListType'
    BY <1>1, <1>3, <2>1, <2>2 DEF IInv, ListType, systemd, Steps
  <2>4. NothingYet' /\ NotObservedTwice'
    BY <1>1, <1>3 DEF NothingYet, NotObservedTwice, Observes, NoEntry
  <2>5. FailureReported'
    BY <1>1, <1>3, <2>1 DEF IInv, ListType, FailureReported, Observes
  <2> QED
    BY <2>3, <2>4, <2>5 DEF IInv
<1> QED
  BY <1>2, <1>3 DEF UnitAdded

LEMMA UnitRemovedIInv == ASSUME IInv, NEW u \in Units, UnitRemoved(u) PROVE IInv'
<1>1. UNCHANGED <<systemd, step, todo, read, reported>> /\ step = "idle"
  BY DEF UnitRemoved, Handles
<1>2. CASE Observes(u)
  <2>1. observed' = [observed EXCEPT ![u] = NoEntry]
    <3>1. PICK s \in KnownStates : observed[u] = <<s>>
      BY <1>2, EntryOf DEF IInv, Observes, NoEntry
    <3>2. observed' = [observed EXCEPT ![u] = Tail(observed[u])]
      BY <1>2 DEF UnitRemoved
    <3> QED
      BY <3>1, <3>2, EntryFacts
  <2>2. ListType'
    BY <1>1, <2>1 DEF IInv, ListType, systemd, Entries
  <2>3. NothingYet' /\ NotObservedTwice'
    BY <1>1, <2>1 DEF IInv, ListType, NothingYet, NotObservedTwice
  <2>4. FailureReported'
    BY <1>1, <2>1 DEF IInv, ListType, FailureReported, Observes, NoEntry
  <2> QED
    BY <2>2, <2>3, <2>4 DEF IInv
<1>3. CASE ~Observes(u)
  <2>1. UNCHANGED observed
    BY <1>3 DEF UnitRemoved
  <2> QED
    BY <1>1, <2>1
       DEF IInv, ListType, NothingYet, NotObservedTwice, FailureReported, Observes, systemd
<1> QED
  BY <1>2, <1>3

\* An entry stays one entry when a changed state is stored in it.
LEMMA EntryOverwritten ==
  ASSUME NEW s \in KnownStates
  PROVE  [NoEntry EXCEPT ![1] = s] = NoEntry
BY EmptySeq DEF NoEntry

LEMMA ChangeIInv ==
  ASSUME IInv, NEW u \in Units, NEW s \in KnownStates, observed[u] # NoEntry, s # observed[u][1],
         ActiveStateChanged(u, observed[u][1], s),
         UNCHANGED <<systemd, step, todo, read>>
  PROVE  IInv'
<1>1. PICK f \in KnownStates : observed[u] = <<f>> /\ observed[u][1] = f
  BY EntryOf DEF IInv
<1>2. observed' = [observed EXCEPT ![u] = <<s>>]
  <2>1. observed' = [observed EXCEPT ![u] = [observed[u] EXCEPT ![1] = s]]
    BY DEF ActiveStateChanged
  <2>2. [observed[u] EXCEPT ![1] = s] = <<s>>
    BY <1>1, EntryFacts
  <2> QED
    BY <2>1, <2>2
<1>3. reported' = IF Reports(f, s) = "none" THEN reported
                  ELSE [reported EXCEPT ![u] = Reports(f, s)]
  BY <1>1 DEF ActiveStateChanged
<1>4. ListType'
  <2>1. reported' \in [Units -> AppStatus \cup {"none"}]
    BY <1>3, ReportsType DEF IInv, ListType
  <2> QED
    BY <1>2, <2>1 DEF IInv, ListType, systemd, Entries
<1>5. NothingYet' /\ NotObservedTwice'
  BY <1>2 DEF IInv, ListType, NothingYet, NotObservedTwice
<1>6. FailureReported'
  <2> SUFFICES ASSUME NEW v \in Units, Observes(v)', observed'[v][1] = "failed", read'[v] # "failed"
               PROVE  reported'[v] = "Failed"
    BY DEF FailureReported
  <2>1. CASE v = u
    <3>1. s = "failed"
      BY <1>2, <2>1, EntryFacts DEF IInv, ListType
    <3>2. Reports(f, s) = "Failed"
      BY <1>1, <3>1, FailureIsReported
    <3> QED
      BY <1>3, <2>1, <3>2 DEF IInv, ListType
  <2>2. CASE v # u
    <3>1. observed'[v] = observed[v] /\ reported'[v] = reported[v] /\ read'[v] = read[v]
      BY <1>2, <1>3, <2>2 DEF IInv, ListType
    <3> QED
      BY <3>1 DEF IInv, FailureReported, Observes
  <2> QED
    BY <2>1, <2>2
<1> QED
  BY <1>4, <1>5, <1>6 DEF IInv

LEMMA PropertiesChangedIInv == ASSUME IInv, NEW u \in Units, PropertiesChanged(u) PROVE IInv'
<1>1. UNCHANGED <<systemd, step, todo, read>> /\ step = "idle"
  BY DEF PropertiesChanged, Handles
<1>2. PICK s \in GetActiveState(u) :
        IF s # observed[u][1] THEN ActiveStateChanged(u, observed[u][1], s)
                              ELSE UNCHANGED <<observed, reported>>
  BY DEF PropertiesChanged
<1>3. s \in KnownStates
  BY GetType DEF IInv
<1>4. CASE UNCHANGED <<observed, reported>>
  BY <1>1, <1>4
     DEF IInv, ListType, NothingYet, NotObservedTwice, FailureReported, Observes, systemd
<1>5. CASE s # observed[u][1] /\ observed[u] # NoEntry
  BY <1>1, <1>2, <1>3, <1>5, ChangeIInv
<1>6. CASE s # observed[u][1] /\ observed[u] = NoEntry
  <2>1. observed' = [observed EXCEPT ![u] = [observed[u] EXCEPT ![1] = s]]
    BY <1>2, <1>6 DEF ActiveStateChanged
  <2>2. observed' = observed
    BY <1>3, <1>6, <2>1, EntryOverwritten DEF IInv, ListType
  <2>3. /\ reported' \in [Units -> AppStatus \cup {"none"}]
        /\ \A v \in Units \ {u} : reported'[v] = reported[v]
    BY <1>2, <1>6, ReportsType DEF ActiveStateChanged, IInv, ListType
  <2>4. ListType' /\ NothingYet' /\ NotObservedTwice'
    BY <1>1, <2>2, <2>3 DEF IInv, ListType, NothingYet, NotObservedTwice, systemd
  <2>5. FailureReported'
    BY <1>1, <1>6, <2>2, <2>3 DEF IInv, FailureReported, Observes, NoEntry
  <2> QED
    BY <2>4, <2>5 DEF IInv
<1> QED
  BY <1>2, <1>4, <1>5, <1>6

LEMMA SignalDroppedIInv == ASSUME IInv, NEW u \in Units, SignalDropped(u) PROVE IInv'
BY DEF SignalDropped, IInv, ListType, NothingYet, NotObservedTwice, FailureReported, Observes,
       systemd

LEMMA StopIInv == ASSUME IInv, Stop PROVE IInv'
<1>1. Disconnect /\ step' \in Steps /\ UNCHANGED <<systemd, read>>
  BY DEF Stop, Steps
<1>2. reported' \in [Units -> AppStatus \cup {"none"}]
  BY DEF Stop
<1> QED
  BY <1>1, <1>2, DisconnectIInv

----------------------------------------------------------------------------
(***************************************************************************)
(* The queue: what a message sent, handled or dropped does to the others.  *)
(***************************************************************************)
LEMMA HoldsAppend ==
  ASSUME NEW q \in Seq(Message), NEW x \in Message, NEW m
  PROVE  Holds(Append(q, x), m) <=> Holds(q, m) \/ x = m
<1>1. /\ Append(q, x) \in Seq(Message)
      /\ Len(Append(q, x)) = Len(q) + 1
      /\ \A i \in 1 .. Len(q) : Append(q, x)[i] = q[i]
      /\ Append(q, x)[Len(q) + 1] = x
  BY AppendProperties
<1>2. /\ DOMAIN Append(q, x) = 1 .. Len(q) + 1
      /\ DOMAIN q = 1 .. Len(q)
      /\ Len(q) \in Nat
  BY <1>1, LenProperties
<1> QED
  BY <1>1, <1>2 DEF Holds

LEMMA HoldsTail ==
  ASSUME NEW q \in Seq(Message), q # <<>>, NEW m
  PROVE  Holds(q, m) <=> Head(q) = m \/ Holds(Tail(q), m)
<1>1. /\ Head(q) = q[1]
      /\ Len(q) \in Nat /\ Len(q) >= 1
      /\ DOMAIN q = 1 .. Len(q)
      /\ DOMAIN Tail(q) = 1 .. Len(q) - 1
      /\ \A i \in 1 .. Len(q) - 1 : Tail(q)[i] = q[i + 1]
  BY HeadTailProperties, LenProperties, EmptySeq
<1>2. ASSUME NEW i \in DOMAIN q, q[i] = m, Head(q) # m PROVE Holds(Tail(q), m)
  <2>1. i - 1 \in 1 .. Len(q) - 1 /\ (i - 1) + 1 = i
    BY <1>1, <1>2
  <2> QED
    BY <1>1, <1>2, <2>1 DEF Holds
<1>3. ASSUME NEW i \in DOMAIN Tail(q), Tail(q)[i] = m PROVE Holds(q, m)
  <2>1. i + 1 \in 1 .. Len(q) /\ q[i + 1] = m
    BY <1>1, <1>3
  <2> QED
    BY <1>1, <2>1 DEF Holds
<1> QED
  BY <1>1, <1>2, <1>3 DEF Holds

LEMMA AnsweredAppend ==
  ASSUME NEW q \in Seq(Message), NEW x \in Message, NEW m, NEW n, m # n,
         x = n \/ (x # m /\ Answered(q, m, n))
  PROVE  Answered(Append(q, x), m, n)
<1>1. /\ DOMAIN Append(q, x) = 1 .. Len(q) + 1
      /\ DOMAIN q = 1 .. Len(q)
      /\ Len(q) \in Nat
      /\ \A i \in 1 .. Len(q) : Append(q, x)[i] = q[i]
      /\ Append(q, x)[Len(q) + 1] = x
  BY AppendProperties, LenProperties
<1> SUFFICES ASSUME NEW i \in 1 .. Len(q) + 1, Append(q, x)[i] = m
             PROVE  \E j \in 1 .. Len(q) + 1 : j > i /\ Append(q, x)[j] = n
  BY <1>1 DEF Answered
<1>2. CASE x = n
  <2>1. i # Len(q) + 1
    BY <1>1, <1>2
  <2>2. Len(q) + 1 > i
    BY <1>1, <2>1
  <2> QED
    BY <1>1, <1>2, <2>2
<1>3. CASE x # m /\ Answered(q, m, n)
  <2>1. i \in 1 .. Len(q) /\ q[i] = m
    BY <1>1, <1>3
  <2>2. PICK j \in 1 .. Len(q) : j > i /\ q[j] = n
    BY <1>1, <1>3, <2>1 DEF Answered
  <2> QED
    BY <1>1, <2>2
<1> QED
  BY <1>2, <1>3

LEMMA AnsweredTail ==
  ASSUME NEW q \in Seq(Message), q # <<>>, NEW m, NEW n, Answered(q, m, n)
  PROVE  /\ Answered(Tail(q), m, n)
         /\ Head(q) = m => Holds(Tail(q), n)
<1>1. /\ Head(q) = q[1]
      /\ Len(q) \in Nat /\ Len(q) >= 1
      /\ DOMAIN q = 1 .. Len(q)
      /\ DOMAIN Tail(q) = 1 .. Len(q) - 1
      /\ \A i \in 1 .. Len(q) - 1 : Tail(q)[i] = q[i + 1]
  BY HeadTailProperties, LenProperties, EmptySeq
<1>2. ASSUME NEW i \in 1 .. Len(q), q[i] = m
      PROVE  \E j \in 1 .. Len(q) - 1 : j > i - 1 /\ Tail(q)[j] = n
  <2>1. PICK k \in 1 .. Len(q) : k > i /\ q[k] = n
    BY <1>1, <1>2 DEF Answered
  <2>2. k - 1 \in 1 .. Len(q) - 1 /\ k - 1 > i - 1 /\ (k - 1) + 1 = k
    BY <1>1, <2>1
  <2> QED
    BY <1>1, <2>1, <2>2
<1>3. Answered(Tail(q), m, n)
  <2> SUFFICES ASSUME NEW i \in 1 .. Len(q) - 1, Tail(q)[i] = m
               PROVE  \E j \in 1 .. Len(q) - 1 : j > i /\ Tail(q)[j] = n
    BY <1>1 DEF Answered
  <2>1. i + 1 \in 1 .. Len(q) /\ q[i + 1] = m /\ (i + 1) - 1 = i
    BY <1>1
  <2> QED
    BY <1>2, <2>1
<1>4. Head(q) = m => Holds(Tail(q), n)
  <2>1. 1 \in 1 .. Len(q)
    BY <1>1
  <2> QED
    BY <1>1, <1>2, <2>1 DEF Holds
<1> QED
  BY <1>3, <1>4

\* What an unsubscription leaves in the queue.
LEMMA FreeUnitKeeps ==
  ASSUME NEW q \in Seq(Message), NEW u \in Units
  PROVE  /\ FreeUnit(u, q) \in Seq(Message)
         /\ \A sig \in {"UnitNew", "UnitRemoved"}, v \in Units :
              Holds(FreeUnit(u, q), Signal(sig, v)) <=> Holds(q, Signal(sig, v))
         /\ \A s1, s2 \in {"UnitNew", "UnitRemoved"}, v \in Units :
              Answered(q, Signal(s1, v), Signal(s2, v)) =>
                Answered(FreeUnit(u, q), Signal(s1, v), Signal(s2, v))
         /\ \A v \in Units : Holds(FreeUnit(u, q), Signal("PropertiesChanged", v)) <=>
              v # u /\ Holds(q, Signal("PropertiesChanged", v))
<1> DEFINE p == FreeUnit(u, q)
<1>1. /\ DOMAIN q = 1 .. Len(q)
      /\ Len(q) \in Nat
      /\ \A i \in 1 .. Len(q) : q[i] \in Message
  BY LenProperties, ElementOfSeq
<1>2. /\ DOMAIN p = 1 .. Len(q)
      /\ \A i \in 1 .. Len(q) :
           p[i] = IF q[i] = Signal("PropertiesChanged", u) THEN Signal("Dropped", u) ELSE q[i]
  BY <1>1 DEF FreeUnit
<1>3. p \in Seq(Message)
  <2>1. Signal("Dropped", u) \in Message
    BY DEF Signal, Message
  <2>2. p = [i \in 1 .. Len(q) |->
               IF q[i] = Signal("PropertiesChanged", u) THEN Signal("Dropped", u) ELSE q[i]]
    BY <1>1 DEF FreeUnit
  <2> HIDE DEF p
  <2>3. p \in [1 .. Len(q) -> Message]
    BY <1>1, <2>1, <2>2
  <2> QED
    BY <1>1, <2>3, SeqDef
<1> HIDE DEF p
<1>4. ASSUME NEW sig \in {"UnitNew", "UnitRemoved"}, NEW v \in Units, NEW i \in 1 .. Len(q)
      PROVE  p[i] = Signal(sig, v) <=> q[i] = Signal(sig, v)
  BY <1>2 DEF Signal
<1>5. ASSUME NEW v \in Units, NEW i \in 1 .. Len(q)
      PROVE  p[i] = Signal("PropertiesChanged", v) <=> v # u /\ q[i] = Signal("PropertiesChanged", v)
  BY <1>2 DEF Signal
<1>6. \A sig \in {"UnitNew", "UnitRemoved"}, v \in Units :
        Holds(p, Signal(sig, v)) <=> Holds(q, Signal(sig, v))
  BY <1>1, <1>2, <1>4 DEF Holds
<1>7. \A v \in Units : Holds(p, Signal("PropertiesChanged", v)) <=>
        v # u /\ Holds(q, Signal("PropertiesChanged", v))
  BY <1>1, <1>2, <1>5 DEF Holds
<1>8. \A s1, s2 \in {"UnitNew", "UnitRemoved"}, v \in Units :
        Answered(q, Signal(s1, v), Signal(s2, v)) => Answered(p, Signal(s1, v), Signal(s2, v))
  BY <1>1, <1>2, <1>4 DEF Answered
<1> QED
  BY <1>3, <1>6, <1>7, <1>8 DEF p

\* What the queue has of a unit after systemd sent a signal.
LEMMA Sent ==
  ASSUME QueueType, NEW sig \in Signals, NEW u \in Units, Send(sig, u)
  PROVE  /\ signals' \in Seq(Message)
         /\ step \in {"off", "refused"} => signals' = <<>>
         /\ \A v \in Units, s \in Signals : ~(s = sig /\ v = u) =>
              (Holds(signals', Signal(s, v)) <=> Holds(signals, Signal(s, v)))
         /\ ManagerSubscribed => Holds(signals', Signal(sig, u))
         /\ \A v \in Units, s, t \in Signals :
              s # t /\ ((~(s = sig /\ v = u) /\ Answered(signals, Signal(s, v), Signal(t, v)))
                         \/ (t = sig /\ v = u))
                => Answered(signals', Signal(s, v), Signal(t, v))
<1>1. Signal(sig, u) \in Message
  BY DEF Signal, Message
<1>2. \A v \in Units, s \in Signals : Signal(s, v) = Signal(sig, u) <=> s = sig /\ v = u
  BY DEF Signal
<1>3. \A v \in Units, s, t \in Signals : s # t => Signal(s, v) # Signal(t, v)
  BY DEF Signal
<1>4. CASE ManagerSubscribed
  <2>1. signals' = Append(signals, Signal(sig, u))
    BY <1>4 DEF Send
  <2>2. signals \in Seq(Message)
    BY DEF QueueType
  <2>3. signals' \in Seq(Message)
    BY <1>1, <2>1, <2>2, AppendProperties
  <2>4. \A v \in Units, s \in Signals :
          Holds(signals', Signal(s, v)) <=> Holds(signals, Signal(s, v)) \/ (s = sig /\ v = u)
    <3> SUFFICES ASSUME NEW v \in Units, NEW s \in Signals
                 PROVE  Holds(signals', Signal(s, v)) <=>
                          Holds(signals, Signal(s, v)) \/ (s = sig /\ v = u)
      OBVIOUS
    <3>1. Holds(Append(signals, Signal(sig, u)), Signal(s, v)) <=>
            Holds(signals, Signal(s, v)) \/ Signal(sig, u) = Signal(s, v)
      BY <1>1, <2>2, HoldsAppend
    <3> QED
      BY <1>2, <2>1, <3>1
  <2>5. ASSUME NEW v \in Units, NEW s \in Signals, NEW t \in Signals, s # t,
               \/ ~(s = sig /\ v = u) /\ Answered(signals, Signal(s, v), Signal(t, v))
               \/ t = sig /\ v = u
        PROVE  Answered(signals', Signal(s, v), Signal(t, v))
    <3>1. Signal(s, v) # Signal(t, v)
      BY <1>3, <2>5
    <3>2. \/ Signal(sig, u) = Signal(t, v)
          \/ Signal(sig, u) # Signal(s, v) /\ Answered(signals, Signal(s, v), Signal(t, v))
      BY <1>2, <2>5
    <3> QED
      BY <1>1, <2>1, <2>2, <3>1, <3>2, AnsweredAppend
  <2>6. step \notin {"off", "refused"}
    BY <1>4 DEF ManagerSubscribed
  <2>7. Holds(signals', Signal(sig, u))
    BY <2>4
  <2> QED
    BY <2>3, <2>4, <2>5, <2>6, <2>7
<1>5. CASE ~ManagerSubscribed
  <2>1. signals' = signals /\ signals = <<>>
    BY <1>5 DEF Send, ManagerSubscribed, QueueType
  <2>2. \A m, n : Answered(<<>>, m, n)
    BY DEF Answered
  <2> QED
    BY <1>5, <2>1, <2>2 DEF QueueType
<1> QED
  BY <1>4, <1>5

\* The same of one unit and the two signals that say whether it is there.
LEMMA SentOf ==
  ASSUME QueueType, NEW sig \in Signals, NEW u \in Units, Send(sig, u), NEW v \in Units
  PROVE  /\ ~(sig = "UnitNew" /\ v = u) =>
              /\ Holds(signals', Signal("UnitNew", v)) <=> Holds(signals, Signal("UnitNew", v))
              /\ Answered(signals, Signal("UnitNew", v), Signal("UnitRemoved", v)) =>
                   Answered(signals', Signal("UnitNew", v), Signal("UnitRemoved", v))
         /\ ~(sig = "UnitRemoved" /\ v = u) =>
              /\ Holds(signals', Signal("UnitRemoved", v)) <=> Holds(signals, Signal("UnitRemoved", v))
              /\ Answered(signals, Signal("UnitRemoved", v), Signal("UnitNew", v)) =>
                   Answered(signals', Signal("UnitRemoved", v), Signal("UnitNew", v))
         /\ sig = "UnitNew" /\ v = u =>
              Answered(signals', Signal("UnitRemoved", v), Signal("UnitNew", v))
         /\ sig = "UnitRemoved" /\ v = u =>
              Answered(signals', Signal("UnitNew", v), Signal("UnitRemoved", v))
<1>1. /\ \A w \in Units, s \in Signals : ~(s = sig /\ w = u) =>
           (Holds(signals', Signal(s, w)) <=> Holds(signals, Signal(s, w)))
      /\ \A w \in Units, s, t \in Signals :
           s # t /\ ((~(s = sig /\ w = u) /\ Answered(signals, Signal(s, w), Signal(t, w)))
                      \/ (t = sig /\ w = u))
             => Answered(signals', Signal(s, w), Signal(t, w))
  BY Sent
<1>2. "UnitNew" \in Signals /\ "UnitRemoved" \in Signals /\ "UnitNew" # "UnitRemoved"
  BY DEF Signals
<1>3. ASSUME NEW s \in Signals, ~(sig = s /\ v = u)
      PROVE  Holds(signals', Signal(s, v)) <=> Holds(signals, Signal(s, v))
  BY <1>1, <1>3
<1>4. ASSUME NEW s \in Signals, NEW t \in Signals, s # t,
             \/ ~(s = sig /\ v = u) /\ Answered(signals, Signal(s, v), Signal(t, v))
             \/ t = sig /\ v = u
      PROVE  Answered(signals', Signal(s, v), Signal(t, v))
  BY <1>1, <1>4
<1> QED
  BY <1>2, <1>3, <1>4

\* What the queue has of a unit after a signal was handled.
LEMMA Handled ==
  ASSUME QueueType, NEW sig, NEW u \in Units, Handles(sig, u)
  PROVE  /\ Tail(signals) \in Seq(Message)
         /\ \A v \in Units, s \in Signals :
              Holds(signals, Signal(s, v)) <=>
                (s = sig /\ v = u) \/ Holds(Tail(signals), Signal(s, v))
         /\ \A v \in Units, s, t \in Signals :
              Answered(signals, Signal(s, v), Signal(t, v)) =>
                /\ Answered(Tail(signals), Signal(s, v), Signal(t, v))
                /\ s = sig /\ v = u => Holds(Tail(signals), Signal(t, v))
<1>1. signals \in Seq(Message) /\ signals # <<>> /\ Head(signals) = Signal(sig, u)
  BY DEF QueueType, Handles
<1>2. \A v \in Units, s \in Signals : Signal(s, v) = Signal(sig, u) <=> s = sig /\ v = u
  BY DEF Signal
<1>3. Tail(signals) \in Seq(Message)
  BY <1>1, HeadTailProperties
<1>4. ASSUME NEW v \in Units, NEW s \in Signals
      PROVE  Holds(signals, Signal(s, v)) <=>
               (s = sig /\ v = u) \/ Holds(Tail(signals), Signal(s, v))
  BY <1>1, <1>2, HoldsTail
<1>5. ASSUME NEW v \in Units, NEW s \in Signals, NEW t \in Signals,
             Answered(signals, Signal(s, v), Signal(t, v))
      PROVE  /\ Answered(Tail(signals), Signal(s, v), Signal(t, v))
             /\ s = sig /\ v = u => Holds(Tail(signals), Signal(t, v))
  BY <1>1, <1>5, AnsweredTail
<1> QED
  BY <1>3, <1>4, <1>5

LEMMA NextIInv == ASSUME IInv, [Next]_vars PROVE IInv'
<1>1. CASE Environment
  BY <1>1, EnvironmentIInv
<1>2. CASE Connect
  BY <1>2, SubscribeIInv, ListUnitsIInv, NothingListedIInv, SubscribeUnitIInv DEF Connect
<1>3. CASE Handle
  BY <1>3, UnitAddedIInv, UnitRemovedIInv, PropertiesChangedIInv, SignalDroppedIInv DEF Handle
<1>4. CASE Stop
  BY <1>4, StopIInv
<1>5. CASE UNCHANGED vars
  BY <1>5
     DEF vars, systemd, IInv, ListType, NothingYet, NotObservedTwice, FailureReported, Observes
<1> QED
  BY <1>1, <1>2, <1>3, <1>4, <1>5 DEF Next

----------------------------------------------------------------------------
(***************************************************************************)
(* The signals against the list: one lemma per action.                     *)
(***************************************************************************)
Follows == \A u \in Units : ListFollows(u) /\ StateFollows(u)

LEMMA SignalNames ==
  /\ "UnitNew" \in Signals /\ "UnitRemoved" \in Signals /\ "PropertiesChanged" \in Signals
  /\ "Dropped" \notin Signals
BY DEF Signals

LEMMA TakenIsFollowed ==
  ASSUME IInv, NEW u \in Units
  PROVE  /\ step \in {"off", "subscribed", "refused"} => ~Taken(u)
         /\ Taken(u) => ManagerSubscribed
         /\ u \in todo => ~Observes(u)
BY DEF IInv, NothingYet, NotObservedTwice, Taken, Observes, NoEntry, ManagerSubscribed

LEMMA LoadFollows == ASSUME QInv, NEW u \in Units, Load(u) PROVE QueueType' /\ Follows'
<1>1. /\ Send("UnitNew", u)
      /\ u \notin loaded /\ loaded' = loaded \cup {u}
      /\ UNCHANGED <<state, step, todo, read, observed, missed>>
  BY DEF Load
<1>2. QueueType'
  BY <1>1, Sent, SignalNames DEF QInv, QueueType
<1>3. ASSUME NEW v \in Units PROVE ListFollows(v)'
  <2>1. ListFollows(v) /\ (Taken(v)' <=> Taken(v))
    BY <1>1 DEF QInv, Taken, Observes
  <2>2. Following => ManagerSubscribed
    BY DEF Following, ManagerSubscribed
  <2>3. /\ Holds(signals', Signal("UnitRemoved", v)) <=> Holds(signals, Signal("UnitRemoved", v))
        /\ IF v = u THEN ManagerSubscribed => Holds(signals', Signal("UnitNew", v))
           ELSE Holds(signals', Signal("UnitNew", v)) <=> Holds(signals, Signal("UnitNew", v))
    BY <1>1, Sent, SignalNames DEF QInv
  <2>4. Answered(signals, Signal("UnitRemoved", v), Signal("UnitNew", v)) \/ v = u =>
          Answered(signals', Signal("UnitRemoved", v), Signal("UnitNew", v))
    BY <1>1, SentOf, SignalNames DEF QInv
  <2>5. Answered(signals, Signal("UnitNew", v), Signal("UnitRemoved", v)) /\ v # u =>
          Answered(signals', Signal("UnitNew", v), Signal("UnitRemoved", v))
    BY <1>1, SentOf, SignalNames DEF QInv
  <2> QED
    BY <1>1, <2>1, <2>2, <2>3, <2>4, <2>5 DEF ListFollows, Following
<1>4. ASSUME NEW v \in Units PROVE StateFollows(v)'
  BY <1>1, Sent, SignalNames DEF QInv, StateFollows, UpToDate, Observes
<1> QED
  BY <1>2, <1>3, <1>4 DEF Follows

LEMMA UnloadFollows == ASSUME QInv, NEW u \in Units, Unload(u) PROVE QueueType' /\ Follows'
<1>1. /\ Send("UnitRemoved", u)
      /\ u \in loaded /\ loaded' = loaded \ {u}
      /\ UNCHANGED <<state, step, todo, read, observed, missed>>
  BY DEF Unload
<1>2. QueueType'
  BY <1>1, Sent, SignalNames DEF QInv, QueueType
<1>3. ASSUME NEW v \in Units PROVE ListFollows(v)'
  <2>1. /\ ListFollows(v)
        /\ Taken(v)' <=> Taken(v)
        /\ Taken(v) => ManagerSubscribed
    BY <1>1, TakenIsFollowed DEF QInv, Taken, Observes
  <2>2. /\ Holds(signals', Signal("UnitNew", v)) <=> Holds(signals, Signal("UnitNew", v))
        /\ IF v = u THEN ManagerSubscribed => Holds(signals', Signal("UnitRemoved", v))
           ELSE Holds(signals', Signal("UnitRemoved", v)) <=> Holds(signals, Signal("UnitRemoved", v))
    BY <1>1, Sent, SignalNames DEF QInv
  <2>3. Answered(signals, Signal("UnitNew", v), Signal("UnitRemoved", v)) \/ v = u =>
          Answered(signals', Signal("UnitNew", v), Signal("UnitRemoved", v))
    BY <1>1, SentOf, SignalNames DEF QInv
  <2>4. Answered(signals, Signal("UnitRemoved", v), Signal("UnitNew", v)) /\ v # u =>
          Answered(signals', Signal("UnitRemoved", v), Signal("UnitNew", v))
    BY <1>1, SentOf, SignalNames DEF QInv
  <2> QED
    BY <1>1, <2>1, <2>2, <2>3, <2>4 DEF ListFollows, Following
<1>4. ASSUME NEW v \in Units PROVE StateFollows(v)'
  <2>1. /\ Observes(v)' <=> Observes(v)
        /\ Observes(v) \/ v \in todo => ManagerSubscribed
    BY <1>1, TakenIsFollowed DEF QInv, Taken, Observes
  <2> QED
    BY <1>1, <2>1, Sent, SignalNames DEF QInv, StateFollows, UpToDate
<1> QED
  BY <1>2, <1>3, <1>4 DEF Follows

\* A change says nothing of the list.
LEMMA ChangeKeepsList ==
  ASSUME QInv, NEW u \in Units, Send("PropertiesChanged", u), NEW v \in Units,
         UNCHANGED <<loaded, step, todo, observed>>
  PROVE  ListFollows(v)'
<1>1. /\ Holds(signals', Signal("UnitNew", v)) <=> Holds(signals, Signal("UnitNew", v))
      /\ Holds(signals', Signal("UnitRemoved", v)) <=> Holds(signals, Signal("UnitRemoved", v))
      /\ Answered(signals, Signal("UnitNew", v), Signal("UnitRemoved", v)) =>
           Answered(signals', Signal("UnitNew", v), Signal("UnitRemoved", v))
      /\ Answered(signals, Signal("UnitRemoved", v), Signal("UnitNew", v)) =>
           Answered(signals', Signal("UnitRemoved", v), Signal("UnitNew", v))
  BY SentOf, SignalNames DEF QInv
<1> QED
  BY <1>1 DEF QInv, ListFollows, Following, Taken, Observes

\* A change is signalled to whoever observes the unit, and else it is missed by
\* the handler that has read the state already.
LEMMA ChangeFollows == ASSUME QInv, NEW u \in Units, Change(u) PROVE QueueType' /\ Follows'
<1>1. /\ UNCHANGED <<loaded, step, todo, read, observed>>
      /\ \E s \in ActiveStates : state' = [state EXCEPT ![u] = s]
      /\ state \in [Units -> ActiveStates]
  BY DEF Change, QInv, IInv, ListType
<1>2. \A v \in Units \ {u} : state'[v] = state[v]
  BY <1>1
<1>3. ASSUME NEW v \in Units PROVE (Taken(v)' <=> Taken(v)) /\ (Observes(v)' <=> Observes(v))
  BY <1>1 DEF Taken, Observes
<1>4. CASE Observes(u) /\ Send("PropertiesChanged", u) /\ missed' = missed \ {u}
  <2>1. QueueType'
    BY <1>1, <1>4, Sent, SignalNames DEF QInv, QueueType
  <2>2. ASSUME NEW v \in Units PROVE ListFollows(v)'
    BY <1>1, <1>4, ChangeKeepsList
  <2>3. ASSUME NEW v \in Units PROVE StateFollows(v)'
    <3>1. u \notin todo /\ ManagerSubscribed
      BY <1>4, TakenIsFollowed DEF QInv, Taken
    <3> QED
      BY <1>1, <1>2, <1>3, <1>4, <3>1, Sent, SignalNames DEF QInv, StateFollows, UpToDate
  <2> QED
    BY <2>1, <2>2, <2>3 DEF Follows
<1>5. CASE UNCHANGED signals
  <2>1. /\ Observes(u) => Holds(signals, Signal("PropertiesChanged", u)) /\ missed' = missed \ {u}
        /\ ~Observes(u) => missed' = IF u \in todo THEN missed \cup {u} ELSE missed
    <3>1. CASE Observes(u) /\ Pending("PropertiesChanged", u)
      BY <3>1 DEF Change, Pending, Holds
    <3>2. CASE Observes(u) /\ Send("PropertiesChanged", u)
      BY <1>5, <3>2, Sent, SignalNames, TakenIsFollowed DEF QInv, Taken, Change
    <3>3. CASE ~Observes(u)
      BY <3>3 DEF Change
    <3> QED
      BY <3>1, <3>2, <3>3 DEF Change
  <2>2. QueueType'
    BY <1>1, <1>5 DEF QInv, QueueType
  <2>3. ASSUME NEW v \in Units PROVE ListFollows(v)'
    BY <1>1, <1>3, <1>5 DEF QInv, ListFollows, Following
  <2>4. ASSUME NEW v \in Units PROVE StateFollows(v)'
    <3>1. v \in todo => ~Observes(v)
      BY TakenIsFollowed DEF QInv
    <3> QED
      BY <1>1, <1>2, <1>3, <1>5, <2>1, <3>1 DEF QInv, StateFollows, UpToDate
  <2> QED
    BY <2>2, <2>3, <2>4 DEF Follows
<1> QED
  BY <1>4, <1>5 DEF Change

LEMMA TouchFollows == ASSUME QInv, NEW u \in Units, Touch(u) PROVE QueueType' /\ Follows'
<1>1. /\ Send("PropertiesChanged", u)
      /\ Observes(u)
      /\ UNCHANGED <<loaded, state, step, todo, read, observed, missed>>
  BY DEF Touch, systemd
<1>2. QueueType'
  BY <1>1, Sent, SignalNames DEF QInv, QueueType
<1>3. ASSUME NEW v \in Units PROVE (Taken(v)' <=> Taken(v)) /\ (Observes(v)' <=> Observes(v))
  BY <1>1 DEF Taken, Observes
<1>4. ASSUME NEW v \in Units PROVE ListFollows(v)'
  BY <1>1, ChangeKeepsList
<1>5. ASSUME NEW v \in Units PROVE StateFollows(v)'
  <2>1. ManagerSubscribed
    BY <1>1, TakenIsFollowed DEF QInv, Taken
  <2> QED
    BY <1>1, <1>3, <2>1, Sent, SignalNames DEF QInv, StateFollows, UpToDate
<1> QED
  BY <1>2, <1>4, <1>5 DEF Follows

LEMMA EmptyQueue == \A m, n : ~Holds(<<>>, m) /\ Answered(<<>>, m, n)
BY DEF Holds, Answered

LEMMA DisconnectFollows ==
  ASSUME QInv, Disconnect, step' \in {"off", "refused"}, UNCHANGED systemd
  PROVE  QueueType' /\ Follows'
<1>1. /\ signals' = <<>> /\ todo' = {} /\ missed' = {}
      /\ \A v \in Units : ~Observes(v)'
  BY DEF Disconnect, Observes
<1>2. QueueType'
  BY <1>1, EmptySeq DEF QueueType
<1>3. ASSUME NEW v \in Units PROVE ListFollows(v)' /\ StateFollows(v)'
  BY <1>1, EmptyQueue DEF ListFollows, StateFollows, Taken, Following
<1> QED
  BY <1>2, <1>3 DEF Follows

LEMMA SubscribeFollows == ASSUME QInv, Subscribe PROVE QueueType' /\ Follows'
<1>1. CASE step' = "subscribed" /\ UNCHANGED <<signals, todo, observed, missed>>
  <2>1. UNCHANGED <<loaded, state, read>> /\ step = "off"
    BY DEF Subscribe, systemd
  <2> QED
    BY <1>1, <2>1
       DEF QInv, QueueType, Follows, ListFollows, StateFollows, UpToDate, Taken, Observes, Following
<1>2. CASE step' = "refused" /\ Disconnect
  BY <1>2, DisconnectFollows DEF Subscribe
<1> QED
  BY <1>1, <1>2 DEF Subscribe

\* The units are listed after the signals were subscribed to: each that is loaded is
\* taken, and none else.
LEMMA ListUnitsFollows == ASSUME QInv, ListUnits PROVE QueueType' /\ Follows'
<1>1. CASE /\ step' = "listing"
           /\ todo' = loaded
           /\ read' = [u \in Units |-> IF u \in loaded THEN state[u] ELSE read[u]]
           /\ UNCHANGED <<signals, observed, missed>>
  <2>1. UNCHANGED <<loaded, state>> /\ step = "subscribed"
    BY DEF ListUnits, systemd
  <2>2. \A v \in Units : ~Observes(v) /\ ~Observes(v)'
    BY <1>1, <2>1, TakenIsFollowed DEF QInv, Taken, Observes
  <2>3. QueueType'
    BY <1>1 DEF QInv, QueueType
  <2>4. ASSUME NEW v \in Units PROVE ListFollows(v)'
    BY <1>1, <2>1, <2>2 DEF QInv, ListFollows, Taken
  <2>5. ASSUME NEW v \in Units PROVE StateFollows(v)'
    <3>1. v \in todo' => read'[v] = state'[v]
      BY <1>1, <2>1
    <3> QED
      BY <1>1, <2>2, <3>1 DEF QInv, StateFollows, UpToDate
  <2> QED
    BY <2>3, <2>4, <2>5 DEF Follows
<1>2. CASE step' = "refused" /\ Disconnect
  BY <1>2, DisconnectFollows DEF ListUnits
<1> QED
  BY <1>1, <1>2 DEF ListUnits

LEMMA SubscribeUnitFollows ==
  ASSUME QInv, NEW u \in Units, SubscribeUnit(u) PROVE QueueType' /\ Follows'
<1>1. /\ u \in todo /\ todo' = todo \ {u}
      /\ UNCHANGED <<loaded, state, signals, read, missed>>
      /\ step \in {"listing", "adding"}
      /\ step' = IF todo' = {} THEN "idle" ELSE step
  BY DEF SubscribeUnit, systemd
<1>2. observed' = [observed EXCEPT ![u] = <<read[u]>>] /\ observed \in [Units -> Entries]
  <2>1. observed[u] = NoEntry /\ read[u] \in KnownStates
    BY <1>1 DEF QInv, IInv, ListType, NotObservedTwice
  <2> QED
    BY <2>1, EntryFacts DEF SubscribeUnit, QInv, IInv, ListType
<1>3. \A v \in Units \ {u} : observed'[v] = observed[v] /\ (v \in todo' <=> v \in todo)
  BY <1>1, <1>2
<1>4. Observes(u)' /\ observed'[u][1] = read[u]
  BY <1>2 DEF Observes
<1>5. QueueType'
  BY <1>1 DEF QInv, QueueType
<1>6. ASSUME NEW v \in Units PROVE ListFollows(v)'
  <2>1. Taken(v)' <=> Taken(v)
    BY <1>1, <1>3, <1>4 DEF Taken, Observes
  <2>2. Following
    BY <1>1 DEF Following
  <2> QED
    BY <1>1, <2>1, <2>2 DEF QInv, ListFollows
<1>7. ASSUME NEW v \in Units PROVE StateFollows(v)'
  <2>1. CASE v = u
    BY <1>1, <1>4, <2>1 DEF QInv, StateFollows, UpToDate
  <2>2. CASE v # u
    BY <1>1, <1>3, <2>2 DEF QInv, StateFollows, UpToDate, Observes
  <2> QED
    BY <2>1, <2>2
<1> QED
  BY <1>5, <1>6, <1>7 DEF Follows

LEMMA NothingListedFollows == ASSUME QInv, NothingListed PROVE QueueType' /\ Follows'
BY DEF QInv, NothingListed, QueueType, Follows, ListFollows, StateFollows, UpToDate, Taken,
       Observes, Following, systemd

\* A unit of which UnitNew tells may be gone again: then UnitRemoved is behind it.
LEMMA UnitAddedFollows == ASSUME QInv, NEW u \in Units, UnitAdded(u) PROVE QueueType' /\ Follows'
<1>1. /\ Handles("UnitNew", u)
      /\ signals' = Tail(signals)
      /\ UNCHANGED <<loaded, state, observed, missed>>
      /\ step = "idle" /\ todo = {}
  BY DEF UnitAdded, Handles, systemd, QInv, QueueType
<1>2. signals' \in Seq(Message)
  BY <1>1, Handled DEF QInv
<1>3. ASSUME NEW v \in Units
      PROVE  /\ Answered(signals, Signal("UnitNew", v), Signal("UnitRemoved", v)) =>
                  Answered(signals', Signal("UnitNew", v), Signal("UnitRemoved", v))
             /\ Answered(signals, Signal("UnitRemoved", v), Signal("UnitNew", v)) =>
                  Answered(signals', Signal("UnitRemoved", v), Signal("UnitNew", v))
             /\ Answered(signals, Signal("UnitNew", u), Signal("UnitRemoved", u)) =>
                  Holds(signals', Signal("UnitRemoved", u))
             /\ v # u => (Holds(signals', Signal("UnitNew", v)) <=> Holds(signals, Signal("UnitNew", v)))
             /\ Holds(signals', Signal("UnitRemoved", v)) <=> Holds(signals, Signal("UnitRemoved", v))
             /\ Holds(signals', Signal("PropertiesChanged", v)) <=>
                  Holds(signals, Signal("PropertiesChanged", v))
  BY <1>1, Handled, SignalNames DEF QInv
<1>4. CASE Observes(u) /\ UNCHANGED <<step, todo, read>>
  <2>1. QueueType'
    BY <1>1, <1>2, <1>4 DEF QInv, QueueType
  <2>2. ASSUME NEW v \in Units PROVE ListFollows(v)'
    BY <1>1, <1>3, <1>4 DEF QInv, ListFollows, Following, Taken, Observes
  <2>3. ASSUME NEW v \in Units PROVE StateFollows(v)'
    BY <1>1, <1>3, <1>4 DEF QInv, StateFollows, UpToDate, Observes
  <2> QED
    BY <2>1, <2>2, <2>3 DEF Follows
<1>5. CASE /\ ~Observes(u)
           /\ \E s \in GetActiveState(u) : read' = [read EXCEPT ![u] = s]
           /\ todo' = {u}
           /\ step' = "adding"
  <2>1. QueueType'
    BY <1>2, <1>5 DEF QueueType
  <2>2. ASSUME NEW v \in Units PROVE ListFollows(v)'
    BY <1>1, <1>3, <1>5 DEF QInv, ListFollows, Following, Taken, Observes
  <2>3. u \in loaded => UpToDate(read[u], u)'
    <3>1. PICK s \in GetActiveState(u) : read' = [read EXCEPT ![u] = s]
      BY <1>5
    <3>2. read'[u] = s
      BY <3>1 DEF QInv, IInv, ListType
    <3>3. u \in loaded => s = state[u] \/ (BusFails /\ s = "unknown")
      BY DEF GetActiveState
    <3> QED
      BY <1>1, <3>2, <3>3 DEF UpToDate
  <2>4. u \notin loaded => Holds(signals', Signal("UnitRemoved", u))
    BY <1>3 DEF QInv, ListFollows
  <2>5. ASSUME NEW v \in Units PROVE StateFollows(v)'
    <3>1. CASE v = u
      BY <1>1, <1>3, <1>5, <2>3, <2>4, <3>1 DEF QInv, StateFollows, Observes
    <3>2. CASE v # u
      BY <1>1, <1>3, <1>5, <3>2 DEF QInv, StateFollows, UpToDate, Observes
    <3> QED
      BY <3>1, <3>2
  <2> QED
    BY <2>1, <2>2, <2>5 DEF Follows
<1> QED
  BY <1>4, <1>5 DEF UnitAdded

\* A unit of which UnitRemoved tells may be there again: then UnitNew is behind it.
LEMMA UnitRemovedFollows ==
  ASSUME QInv, NEW u \in Units, UnitRemoved(u) PROVE QueueType' /\ Follows'
<1>1. /\ Handles("UnitRemoved", u)
      /\ UNCHANGED <<loaded, state, step, todo, read>>
      /\ step = "idle" /\ todo = {}
  BY DEF UnitRemoved, Handles, systemd, QInv, QueueType
<1> DEFINE rest == Tail(signals)
<1>2. rest \in Seq(Message)
  BY <1>1, Handled DEF QInv
<1>3. ASSUME NEW v \in Units
      PROVE  /\ Answered(signals, Signal("UnitNew", v), Signal("UnitRemoved", v)) =>
                  Answered(rest, Signal("UnitNew", v), Signal("UnitRemoved", v))
             /\ Answered(signals, Signal("UnitRemoved", v), Signal("UnitNew", v)) =>
                  Answered(rest, Signal("UnitRemoved", v), Signal("UnitNew", v))
             /\ Answered(signals, Signal("UnitRemoved", u), Signal("UnitNew", u)) =>
                  Holds(rest, Signal("UnitNew", u))
             /\ Holds(rest, Signal("UnitNew", v)) <=> Holds(signals, Signal("UnitNew", v))
             /\ v # u => (Holds(rest, Signal("UnitRemoved", v)) <=>
                            Holds(signals, Signal("UnitRemoved", v)))
             /\ Holds(rest, Signal("PropertiesChanged", v)) <=>
                  Holds(signals, Signal("PropertiesChanged", v))
  BY <1>1, Handled, SignalNames DEF QInv
<1> HIDE DEF rest
<1>4. CASE Observes(u)
  <2>1. signals' = FreeUnit(u, rest) /\ missed' = missed \ {u}
    BY <1>4 DEF UnitRemoved, rest
  <2>2. signals' \in Seq(Message)
    BY <1>2, <2>1, FreeUnitKeeps
  <2>3. ASSUME NEW v \in Units
        PROVE  /\ Holds(signals', Signal("UnitNew", v)) <=> Holds(rest, Signal("UnitNew", v))
               /\ Holds(signals', Signal("UnitRemoved", v)) <=> Holds(rest, Signal("UnitRemoved", v))
               /\ Answered(rest, Signal("UnitNew", v), Signal("UnitRemoved", v)) =>
                    Answered(signals', Signal("UnitNew", v), Signal("UnitRemoved", v))
               /\ Answered(rest, Signal("UnitRemoved", v), Signal("UnitNew", v)) =>
                    Answered(signals', Signal("UnitRemoved", v), Signal("UnitNew", v))
               /\ Holds(signals', Signal("PropertiesChanged", v)) <=>
                    v # u /\ Holds(rest, Signal("PropertiesChanged", v))
    BY <1>2, <2>1, FreeUnitKeeps
  <2>4. ~Observes(u)' /\ \A v \in Units \ {u} : observed'[v] = observed[v]
    <3>1. PICK s \in KnownStates : observed[u] = <<s>>
      BY <1>4, EntryOf DEF QInv, IInv, Observes, NoEntry
    <3>2. observed' = [observed EXCEPT ![u] = Tail(observed[u])]
      BY <1>4 DEF UnitRemoved
    <3> QED
      BY <3>1, <3>2, EntryFacts DEF QInv, IInv, ListType, Observes, NoEntry
  <2>5. QueueType'
    BY <1>1, <2>2 DEF QueueType
  <2>6. ASSUME NEW v \in Units PROVE ListFollows(v)'
    <3>1. CASE v = u
      BY <1>1, <1>3, <2>3, <2>4, <3>1 DEF QInv, ListFollows, Taken
    <3>2. CASE v # u
      BY <1>1, <1>3, <2>3, <2>4, <3>2 DEF QInv, ListFollows, Following, Taken, Observes
    <3> QED
      BY <3>1, <3>2
  <2>7. ASSUME NEW v \in Units PROVE StateFollows(v)'
    <3>1. CASE v = u
      BY <1>1, <1>3, <2>3, <2>4, <3>1 DEF QInv, StateFollows
    <3>2. CASE v # u
      BY <1>1, <1>3, <2>1, <2>3, <2>4, <3>2 DEF QInv, StateFollows, UpToDate, Observes
    <3> QED
      BY <3>1, <3>2
  <2> QED
    BY <2>5, <2>6, <2>7 DEF Follows
<1>5. CASE ~Observes(u)
  <2>1. signals' = rest /\ UNCHANGED <<observed, missed>>
    BY <1>5 DEF UnitRemoved, rest
  <2>2. QueueType'
    BY <1>1, <1>2, <2>1 DEF QueueType
  <2>3. ASSUME NEW v \in Units PROVE ListFollows(v)'
    BY <1>1, <1>3, <1>5, <2>1 DEF QInv, ListFollows, Following, Taken, Observes
  <2>4. ASSUME NEW v \in Units PROVE StateFollows(v)'
    BY <1>1, <1>3, <1>5, <2>1 DEF QInv, StateFollows, UpToDate, Observes
  <2> QED
    BY <2>2, <2>3, <2>4 DEF Follows
<1> QED
  BY <1>4, <1>5

\* What is known of a unit after a change is what was read of it in the handler.
LEMMA ChangeReadsState ==
  ASSUME QInv, NEW u \in Units, PropertiesChanged(u)
  PROVE  /\ Observes(u)
         /\ \A v \in Units : Observes(v)' <=> Observes(v)
         /\ \A v \in Units \ {u} : observed'[v] = observed[v]
         /\ observed'[u][1] \in GetActiveState(u)
<1>1. Observes(u)
  <2>1. Holds(signals, Signal("PropertiesChanged", u))
    BY Handled, SignalNames DEF QInv, PropertiesChanged
  <2> QED
    BY <2>1 DEF QInv, StateFollows
<1>2. PICK s \in GetActiveState(u) :
        IF s # observed[u][1] THEN ActiveStateChanged(u, observed[u][1], s)
                              ELSE UNCHANGED <<observed, reported>>
  BY DEF PropertiesChanged
<1>3. PICK f \in KnownStates : observed[u] = <<f>> /\ observed[u][1] = f
  BY <1>1, EntryOf DEF QInv, IInv, Observes, NoEntry
<1>4. CASE s = observed[u][1]
  BY <1>1, <1>2, <1>4 DEF Observes
<1>5. CASE s # observed[u][1]
  <2>1. s \in KnownStates
    BY GetType DEF QInv, IInv
  <2>2. observed' = [observed EXCEPT ![u] = [observed[u] EXCEPT ![1] = s]]
    BY <1>2, <1>5 DEF ActiveStateChanged
  <2>3. [observed[u] EXCEPT ![1] = s] = <<s>>
    BY <1>3, <2>1, EntryFacts
  <2>4. observed'[u] = <<s>> /\ \A v \in Units \ {u} : observed'[v] = observed[v]
    BY <2>2, <2>3 DEF QInv, IInv, ListType
  <2>5. <<s>> # <<>> /\ <<s>>[1] = s
    BY <2>1, EntryFacts DEF NoEntry
  <2> QED
    BY <1>1, <2>4, <2>5 DEF Observes
<1> QED
  BY <1>4, <1>5

\* The state is read when the signal is handled, so one signal is enough for all
\* the changes before.
LEMMA PropertiesChangedFollows ==
  ASSUME QInv, NEW u \in Units, PropertiesChanged(u) PROVE QueueType' /\ Follows'
<1>1. /\ Handles("PropertiesChanged", u)
      /\ signals' = Tail(signals)
      /\ UNCHANGED <<loaded, state, step, todo, read, missed>>
      /\ todo = {}
  BY DEF PropertiesChanged, Handles, systemd, QInv, QueueType
<1>2. ASSUME NEW v \in Units
      PROVE  /\ Answered(signals, Signal("UnitNew", v), Signal("UnitRemoved", v)) =>
                  Answered(signals', Signal("UnitNew", v), Signal("UnitRemoved", v))
             /\ Answered(signals, Signal("UnitRemoved", v), Signal("UnitNew", v)) =>
                  Answered(signals', Signal("UnitRemoved", v), Signal("UnitNew", v))
             /\ Holds(signals', Signal("UnitNew", v)) <=> Holds(signals, Signal("UnitNew", v))
             /\ Holds(signals', Signal("UnitRemoved", v)) <=> Holds(signals, Signal("UnitRemoved", v))
             /\ v # u => (Holds(signals', Signal("PropertiesChanged", v)) <=>
                            Holds(signals, Signal("PropertiesChanged", v)))
             /\ Holds(signals', Signal("PropertiesChanged", v)) =>
                  Holds(signals, Signal("PropertiesChanged", v))
             /\ Holds(signals, Signal("PropertiesChanged", u))
  BY <1>1, Handled, SignalNames DEF QInv
<1>3. QueueType'
  BY <1>1, Handled DEF QInv, QueueType
<1>4. Observes(u)
  BY <1>2 DEF QInv, StateFollows
<1>5. /\ \A v \in Units : Observes(v)' <=> Observes(v)
      /\ \A v \in Units \ {u} : observed'[v] = observed[v]
      /\ observed'[u][1] \in GetActiveState(u)
  BY ChangeReadsState
<1>6. ASSUME NEW v \in Units PROVE ListFollows(v)'
  BY <1>1, <1>2, <1>5 DEF QInv, ListFollows, Following, Taken
<1>7. ASSUME NEW v \in Units PROVE StateFollows(v)'
  <2>1. CASE v = u
    <3>1. u \in loaded => UpToDate(observed[u][1], u)'
      BY <1>1, <1>5 DEF GetActiveState, UpToDate
    <3>2. u \notin loaded => Holds(signals', Signal("UnitRemoved", u))
      BY <1>2, <1>4 DEF QInv, ListFollows, Taken
    <3> QED
      BY <1>1, <1>4, <1>5, <2>1, <3>1, <3>2 DEF StateFollows
  <2>2. CASE v # u
    BY <1>1, <1>2, <1>5, <2>2 DEF QInv, StateFollows, UpToDate
  <2> QED
    BY <2>1, <2>2
<1> QED
  BY <1>3, <1>6, <1>7 DEF Follows

LEMMA SignalDroppedFollows ==
  ASSUME QInv, NEW u \in Units, SignalDropped(u) PROVE QueueType' /\ Follows'
<1>1. /\ Handles("Dropped", u)
      /\ signals' = Tail(signals)
      /\ UNCHANGED <<loaded, state, step, todo, read, observed, missed>>
  BY DEF SignalDropped, systemd
<1>2. ASSUME NEW v \in Units
      PROVE  /\ Answered(signals, Signal("UnitNew", v), Signal("UnitRemoved", v)) =>
                  Answered(signals', Signal("UnitNew", v), Signal("UnitRemoved", v))
             /\ Answered(signals, Signal("UnitRemoved", v), Signal("UnitNew", v)) =>
                  Answered(signals', Signal("UnitRemoved", v), Signal("UnitNew", v))
             /\ Holds(signals', Signal("UnitNew", v)) <=> Holds(signals, Signal("UnitNew", v))
             /\ Holds(signals', Signal("UnitRemoved", v)) <=> Holds(signals, Signal("UnitRemoved", v))
             /\ Holds(signals', Signal("PropertiesChanged", v)) <=>
                  Holds(signals, Signal("PropertiesChanged", v))
  BY <1>1, Handled, SignalNames DEF QInv
<1>3. QueueType'
  BY <1>1, Handled DEF QInv, QueueType, Handles
<1>4. ASSUME NEW v \in Units PROVE ListFollows(v)' /\ StateFollows(v)'
  BY <1>1, <1>2 DEF QInv, ListFollows, StateFollows, UpToDate, Following, Taken, Observes
<1> QED
  BY <1>3, <1>4 DEF Follows

LEMMA StopFollows == ASSUME QInv, Stop PROVE QueueType' /\ Follows'
BY DisconnectFollows DEF Stop

LEMMA InitQ == Init => QInv
<1> SUFFICES ASSUME Init PROVE QInv
  OBVIOUS
<1>1. QueueType
  BY EmptySeq DEF Init, QueueType
<1>2. ASSUME NEW u \in Units PROVE ListFollows(u) /\ StateFollows(u)
  BY EmptyQueue DEF Init, ListFollows, StateFollows, Following, Taken, Observes
<1> QED
  BY <1>1, <1>2, InitIInv DEF QInv, Init

LEMMA NextQ == ASSUME QInv, [Next]_vars PROVE QInv'
<1>1. IInv'
  BY NextIInv DEF QInv
<1>2. missed' \subseteq Units
  BY DEF QInv, Next, Environment, Load, Unload, Change, Touch, Connect, Subscribe, ListUnits,
         SubscribeUnit, NothingListed, Handle, UnitAdded, UnitRemoved, PropertiesChanged,
         SignalDropped, Stop, Disconnect, vars
<1>3. QueueType' /\ Follows'
  <2>1. CASE Environment
    BY <2>1, LoadFollows, UnloadFollows, ChangeFollows, TouchFollows DEF Environment
  <2>2. CASE Connect
    BY <2>2, SubscribeFollows, ListUnitsFollows, NothingListedFollows, SubscribeUnitFollows DEF Connect
  <2>3. CASE Handle
    BY <2>3, UnitAddedFollows, UnitRemovedFollows, PropertiesChangedFollows, SignalDroppedFollows
       DEF Handle
  <2>4. CASE Stop
    BY <2>4, StopFollows
  <2>5. CASE UNCHANGED vars
    BY <2>5 DEF vars, QInv, QueueType, Follows, ListFollows, StateFollows, UpToDate, Taken, Observes,
                Following
  <2> QED
    BY <2>1, <2>2, <2>3, <2>4, <2>5 DEF Next
<1> QED
  BY <1>1, <1>2, <1>3 DEF QInv, Follows

----------------------------------------------------------------------------
\* The list of observed units stays well-formed in every step of the observation, of
\* systemd and of the process that ends (nhm_systemd_connect() and its callbacks).
THEOREM ObservationInductive == Spec => []IInv
<1>1. Init => IInv
  BY InitIInv
<1>2. IInv /\ [Next]_vars => IInv'
  BY NextIInv
<1> QED
  BY <1>1, <1>2, PTL DEF Spec

\* No name has two entries in nhm_systemd_observed_units, and none that is still to
\* be subscribed to has one: a change of a unit calls app_status_cb once.
THEOREM ObservedAtMostOnce == Spec => []ObservedOnce
<1>1. ASSUME IInv PROVE ObservedOnce
  <2>1. ASSUME NEW u \in Units PROVE Len(observed[u]) <= 1
    <3>1. CASE observed[u] = NoEntry
      BY <3>1 DEF NoEntry
    <3>2. CASE observed[u] # NoEntry
      <4>1. PICK s \in KnownStates : observed[u] = <<s>>
        BY <1>1, <3>2, EntryOf DEF IInv
      <4>2. Len(observed[u]) = 1
        BY <4>1
      <4> QED
        BY <4>2
    <3> QED
      BY <3>1, <3>2
  <2>2. ASSUME NEW u \in Units, u \in todo PROVE observed[u] = <<>>
    BY <1>1, <2>2 DEF IInv, NotObservedTwice, NoEntry
  <2> QED
    BY <2>1, <2>2 DEF ObservedOnce
<1> QED
  BY <1>1, ObservationInductive, PTL

\* The list, the queue of signals and systemd stay in the relation that every handler
\* relies on, in every order of what systemd and the main loop do.
THEOREM FollowsInductive == Spec => []QInv
<1>1. Init => QInv
  BY InitQ
<1>2. QInv /\ [Next]_vars => QInv'
  BY NextQ
<1> QED
  BY <1>1, <1>2, PTL DEF Spec

\* Every variable keeps its type.
THEOREM TypeCorrect == Spec => []TypeOK
<1>1. ASSUME QInv PROVE TypeOK
  <2>1. ASSUME NEW u \in Units PROVE observed[u] \in Seq(KnownStates)
    <3>1. observed[u] \in Entries
      BY <1>1 DEF QInv, IInv, ListType
    <3>2. \A s \in KnownStates : <<s>> \in Seq(KnownStates)
      OBVIOUS
    <3>3. <<>> \in Seq(KnownStates)
      OBVIOUS
    <3> QED
      BY <3>1, <3>2, <3>3 DEF Entries, NoEntry
  <2>2. observed \in [Units -> Seq(KnownStates)]
    BY <1>1, <2>1 DEF QInv, IInv, ListType
  <2> QED
    BY <1>1, <2>2 DEF QInv, IInv, ListType, QueueType, Message, TypeOK
<1> QED
  BY <1>1, FollowsInductive, PTL

\* nhm_systemd_free_unit() leaves no signal behind that would reach a unit that was
\* freed, for any number of signals on their way.
THEOREM NoFreedUnitIsChanged == Spec => []NoDanglingUnit
<1>1. ASSUME QInv PROVE NoDanglingUnit
  BY <1>1 DEF QInv, StateFollows, NoDanglingUnit, Pending, Holds
<1> QED
  BY <1>1, FollowsInductive, PTL

\* nhm_systemd_connect() subscribes before it lists, and so loses no unit that comes or
\* goes meanwhile: what list and systemd differ in is still to be handled.
THEOREM NoUnitIsLost == Spec => []EveryUnitObserved
<1>1. ASSUME QInv PROVE EveryUnitObserved
  BY <1>1 DEF QInv, QueueType, ListFollows, Following, Taken, Connected, EveryUnitObserved, Pending, Holds
<1> QED
  BY <1>1, FollowsInductive, PTL

\* With nothing more to handle of a unit, the state that is known of it is the one it
\* has, whatever signals were merged, dropped or answered late; only a change between
\* the reading and the subscription and a failed call are not made good.
THEOREM KnownStateIsCurrent == Spec => []KnownIsCurrent
<1>1. ASSUME QInv PROVE KnownIsCurrent
  <2> SUFFICES ASSUME NEW u \in Units, Quiet(u), u \notin missed
               PROVE  UpToDate(observed[u][1], u)
    BY DEF KnownIsCurrent, UpToDate
  <2>1. step = "idle" /\ u \in loaded /\ \A sig \in Signals : ~Holds(signals, Signal(sig, u))
    BY DEF Quiet, Connected, Pending, Holds
  <2>2. Observes(u)
    BY <1>1, <2>1, SignalNames DEF QInv, QueueType, ListFollows, Following, Taken
  <2> QED
    BY <1>1, <2>1, <2>2, SignalNames DEF QInv, StateFollows
<1> QED
  BY <1>1, FollowsInductive, PTL

\* A unit that is seen to fail is reported so by nhm_systemd_unit_active_state_changed(),
\* whatever happened between the signals, for any transitions systemd may take.
THEOREM FailuresAreReported == Spec => []FailureReported
<1>1. IInv => FailureReported
  BY DEF IInv
<1> QED
  BY <1>1, ObservationInductive, PTL
============================================================================
