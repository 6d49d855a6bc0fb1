------------------------- MODULE LinuxCentralProofs -------------------------
(***************************************************************************)
(* Proofs about LinuxCentral, for any finite sets of connects, scans,      *)
(* hangups and subscribes.                                                 *)
(***************************************************************************)
EXTENDS LinuxCentral, FiniteSetTheorems, TLAPS

(***************************************************************************)
(* The inductive invariant.                                                *)
(***************************************************************************)

\* A watcher and a discovery loop begin where their call spawns them.
Unspawned ==
  /\ \A c \in Connects :
       connectPc[c] \notin {"spawned", "over"} => observer[c] = "none"
  /\ \A s \in Scans :
       scanPc[s] \notin {"looking", "over"} => observer[s] = "none"

\* A reader's subscribe has opened its socket.
ReadersOpened ==
  \A u \in Subs : u \in reading => subPc[u] \in {"spawned", "ok"}

\* Connects whose link has been counted, or that have given up.
Counted == {c \in Connects : connectPc[c] \in {"tracked", "spawned", "over"}}

\* Each connect counts its link at most once.
EachCountsOnce == established <= Cardinality(Counted)

\* The types, without the bounds on the two counts.
VariablesTyped ==
  /\ link \in BOOLEAN /\ pending \in BOOLEAN /\ connected \in BOOLEAN
  /\ connectPc \in [Connects -> {"idle", "dialing", "abandoning", "linked", "tracked",
                                 "spawned", "over", "dropped"}]
  /\ observer \in [Observers -> {"none", "starting", "watching", "asking", "emitting",
                                 "closing", "hanging up", "over"}]
  /\ news \subseteq Connects \cup Scans
  /\ watcher \in Connects \cup {Nobody}
  /\ scanPc \in [Scans -> {"idle", "evicting", "removing", "discovering", "looking",
                           "over"}]
  /\ scanTask \in Scans \cup {Nobody}
  /\ subPc \in [Subs -> {"idle", "opening", "spawned", "ok", "refused"}]
  /\ reader \in Subs \cup {Nobody}
  /\ reading \subseteq Subs
  /\ established \in Nat
  /\ reported \in Nat

\* Next, by who acts.
ObserverSteps(o) == CauseKnown(o) \/ EmitDisconnect(o) \/ Close(o)
HangupSteps(h)   == Hangup(h) \/ HungUp(h) \/ HangupFails(h)
RestSteps        == StopScan \/ Unsubscribe \/ LinkLost \/ DeviceRemoved

CentralInv ==
  /\ VariablesTyped
  /\ Unspawned
  /\ ReadersOpened
  /\ EachCountsOnce
  /\ NoStrayTask
  /\ ReportedOnce

(***************************************************************************)
(* Counting.                                                               *)
(***************************************************************************)
LEMMA ObserversApart ==
  /\ IsFiniteSet(Observers) /\ IsFiniteSet(Connects)
  /\ Nobody \notin Observers /\ Nobody \notin Subs
  /\ Connects \subseteq Observers /\ Scans \subseteq Observers
  /\ Hangups \subseteq Observers
  /\ Connects \cap Scans = {} /\ Connects \cap Hangups = {} /\ Scans \cap Hangups = {}
  BY LinuxCentralAssumption, FS_Union DEF Observers

\* Those about to report a loss are finitely many.
LEMMA ClosingFinite == IsFiniteSet(Closing) /\ Cardinality(Closing) \in Nat
  <1>1. Closing \subseteq Observers
    BY DEF Closing
  <1>2. QED BY <1>1, ObserversApart, FS_Subset, FS_CardinalityType

\* The connects counted so far are finitely many, at most all.
LEMMA CountedFinite == IsFiniteSet(Counted) /\ Cardinality(Counted) \in Nat
                       /\ Cardinality(Counted) <= Cardinality(Connects)
  <1>1. Counted \subseteq Connects
    BY DEF Counted
  <1>2. QED BY <1>1, ObserversApart, FS_Subset, FS_CardinalityType

\* The balance is kept while the counts and who is closing stay.
LEMMA BalanceKept ==
  ASSUME ReportedOnce, Closing' = Closing, UNCHANGED <<connected, established, reported>>
  PROVE  ReportedOnce'
  BY DEF ReportedOnce

\* Calls only move on among those counted.
LEMMA CountKept ==
  ASSUME EachCountsOnce, established \in Nat, Counted \subseteq Counted',
         Counted' \subseteq Connects, established' = established
  PROVE  EachCountsOnce'
  <1>1. IsFiniteSet(Counted')
    BY ObserversApart, FS_Subset
  <1>2. Cardinality(Counted) <= Cardinality(Counted') /\ Cardinality(Counted') \in Nat
    BY <1>1, FS_Subset, FS_CardinalityType
  <1>3. QED BY <1>2, CountedFinite DEF EachCountsOnce

(***************************************************************************)
(* The steps of a connect.                                                 *)
(***************************************************************************)
LEMMA TrackCounts ==
  ASSUME established \in Nat, NEW c \in Connects, Track(c)
  PROVE  established' \in {established, established + 1} /\ established' \in Nat
  <1>1. established' = established + IF connected THEN 0 ELSE 1
    BY DEF Track
  <1>2. (IF connected THEN 0 ELSE 1) \in {0, 1}
    OBVIOUS
  <1>3. QED BY <1>1, <1>2

\* A step of a connect keeps the types, ...
LEMMA ConnectTyped ==
  ASSUME VariablesTyped, NEW c \in Connects, ConnectSteps(c)
  PROVE  VariablesTyped'
  <1> USE ObserversApart DEF VariablesTyped, SetConnect, Observe, connectVars, linkVars,
                              scanVars, subVars, countVars
  <1>1. CASE Connect(c)
    BY <1>1 DEF Connect
  <1>2. CASE Dialed(c)
    BY <1>2 DEF Dialed
  <1>3. CASE DialFails(c)
    BY <1>3 DEF DialFails
  <1>4. CASE TimesOut(c)
    BY <1>4 DEF TimesOut
  <1>5. CASE Abandoned(c)
    BY <1>5 DEF Abandoned, LinkFalls
  <1>6. CASE ConnectDropped(c)
    BY <1>6 DEF ConnectDropped
  <1>7. CASE Track(c)
    <2>1. established' \in Nat
      BY <1>7, TrackCounts
    <2>2. QED BY <1>7, <2>1 DEF Track
  <1>8. CASE SpawnWatcher(c)
    BY <1>8 DEF SpawnWatcher
  <1>9. CASE KeepWatcher(c)
    BY <1>9 DEF KeepWatcher, Aborted, AtAwait
  <1>10. CASE WatcherSubscribes(c)
    BY <1>10 DEF WatcherSubscribes
  <1>11. CASE WatcherReads(c)
    BY <1>11 DEF WatcherReads
  <1>12. QED BY <1>1, <1>2, <1>3, <1>4, <1>5, <1>6, <1>7, <1>8, <1>9, <1>10, <1>11 DEF ConnectSteps

\* ... and the whole invariant: only Track counts a connection.
LEMMA ConnectKeeps ==
  ASSUME CentralInv, NEW c \in Connects, ConnectSteps(c)
  PROVE  CentralInv'
  <1> USE ObserversApart DEF CentralInv, SetConnect, Observe, connectVars, linkVars,
                              scanVars, subVars, countVars
  <1>1. VariablesTyped'
    BY ConnectTyped
  <1>2. Unspawned' /\ ReadersOpened'
    <2> USE DEF VariablesTyped, Unspawned, ReadersOpened
    <2>1. CASE Connect(c)
      BY <2>1 DEF Connect
    <2>2. CASE Dialed(c)
      BY <2>2 DEF Dialed
    <2>3. CASE DialFails(c)
      BY <2>3 DEF DialFails
    <2>4. CASE TimesOut(c)
      BY <2>4 DEF TimesOut
    <2>5. CASE Abandoned(c)
      BY <2>5 DEF Abandoned
    <2>6. CASE ConnectDropped(c)
      BY <2>6 DEF ConnectDropped
    <2>7. CASE Track(c)
      BY <2>7 DEF Track
    <2>8. CASE SpawnWatcher(c)
      BY <2>8 DEF SpawnWatcher
    <2>9. CASE KeepWatcher(c)
      BY <2>9 DEF KeepWatcher, Aborted, AtAwait
    <2>10. CASE WatcherSubscribes(c)
      BY <2>10 DEF WatcherSubscribes
    <2>11. CASE WatcherReads(c)
      BY <2>11 DEF WatcherReads
    <2>12. QED BY <2>1, <2>2, <2>3, <2>4, <2>5, <2>6, <2>7, <2>8, <2>9, <2>10,
                  <2>11 DEF ConnectSteps
  <1>3. NoStrayTask'
    <2> USE DEF VariablesTyped, NoStrayTask, AtAwait
    <2>1. CASE Connect(c)
      BY <2>1 DEF Connect
    <2>2. CASE Dialed(c)
      BY <2>2 DEF Dialed
    <2>3. CASE DialFails(c)
      BY <2>3 DEF DialFails
    <2>4. CASE TimesOut(c)
      BY <2>4 DEF TimesOut
    <2>5. CASE Abandoned(c)
      BY <2>5 DEF Abandoned
    <2>6. CASE ConnectDropped(c)
      BY <2>6 DEF ConnectDropped
    <2>7. CASE Track(c)
      BY <2>7 DEF Track
    <2>8. CASE SpawnWatcher(c)
      BY <2>8 DEF SpawnWatcher
    <2>9. CASE KeepWatcher(c)
      BY <2>9 DEF KeepWatcher, Aborted
    <2>10. CASE WatcherSubscribes(c)
      BY <2>10 DEF WatcherSubscribes
    <2>11. CASE WatcherReads(c)
      BY <2>11 DEF WatcherReads
    <2>12. QED BY <2>1, <2>2, <2>3, <2>4, <2>5, <2>6, <2>7, <2>8, <2>9, <2>10,
                  <2>11 DEF ConnectSteps
  <1>4. Closing' = Closing
    <2> USE DEF VariablesTyped, Unspawned, Closing
    <2>1. CASE Connect(c)
      BY <2>1 DEF Connect
    <2>2. CASE Dialed(c)
      BY <2>2 DEF Dialed
    <2>3. CASE DialFails(c)
      BY <2>3 DEF DialFails
    <2>4. CASE TimesOut(c)
      BY <2>4 DEF TimesOut
    <2>5. CASE Abandoned(c)
      BY <2>5 DEF Abandoned
    <2>6. CASE ConnectDropped(c)
      BY <2>6 DEF ConnectDropped
    <2>7. CASE Track(c)
      BY <2>7 DEF Track
    <2>8. CASE SpawnWatcher(c)
      BY <2>8 DEF SpawnWatcher
    <2>9. CASE KeepWatcher(c)
      BY <2>9 DEF KeepWatcher, Aborted, AtAwait
    <2>10. CASE WatcherSubscribes(c)
      BY <2>10 DEF WatcherSubscribes
    <2>11. CASE WatcherReads(c)
      BY <2>11 DEF WatcherReads
    <2>12. QED BY <2>1, <2>2, <2>3, <2>4, <2>5, <2>6, <2>7, <2>8, <2>9, <2>10,
                  <2>11 DEF ConnectSteps
  <1>5. Counted \subseteq Counted' /\ Counted' \subseteq Connects
    <2> USE DEF VariablesTyped, Counted
    <2>1. CASE Connect(c)
      BY <2>1 DEF Connect
    <2>2. CASE Dialed(c)
      BY <2>2 DEF Dialed
    <2>3. CASE DialFails(c)
      BY <2>3 DEF DialFails
    <2>4. CASE TimesOut(c)
      BY <2>4 DEF TimesOut
    <2>5. CASE Abandoned(c)
      BY <2>5 DEF Abandoned
    <2>6. CASE ConnectDropped(c)
      BY <2>6 DEF ConnectDropped
    <2>7. CASE Track(c)
      BY <2>7 DEF Track
    <2>8. CASE SpawnWatcher(c)
      BY <2>8 DEF SpawnWatcher
    <2>9. CASE KeepWatcher(c)
      BY <2>9 DEF KeepWatcher
    <2>10. CASE WatcherSubscribes(c)
      BY <2>10 DEF WatcherSubscribes
    <2>11. CASE WatcherReads(c)
      BY <2>11 DEF WatcherReads
    <2>12. QED BY <2>1, <2>2, <2>3, <2>4, <2>5, <2>6, <2>7, <2>8, <2>9, <2>10,
                  <2>11 DEF ConnectSteps
  <1>6. CASE Track(c)
    <2>1. c \notin Counted /\ Counted' = Counted \cup {c}
      BY <1>6 DEF Track, Counted, VariablesTyped
    <2>2. Cardinality(Counted') = Cardinality(Counted) + 1
      BY <2>1, CountedFinite, FS_AddElement
    <2>3. /\ established \in Nat /\ reported \in Nat
          /\ connected' = TRUE /\ reported' = reported
          /\ established' = established + IF connected THEN 0 ELSE 1
      BY <1>6 DEF Track, VariablesTyped
    <2>4. EachCountsOnce'
      <3>1. established' <= established + 1
        BY <2>3
      <3>2. QED BY <2>2, <2>3, <3>1, CountedFinite DEF EachCountsOnce
    <2>5. ReportedOnce'
      <3>1. CASE connected
        BY <1>4, <2>3, <3>1, ClosingFinite DEF ReportedOnce
      <3>2. CASE ~connected
        BY <1>4, <2>3, <3>2, ClosingFinite DEF ReportedOnce
      <3>3. QED BY <3>1, <3>2
    <2>6. QED BY <1>1, <1>2, <1>3, <2>4, <2>5
  <1>7. CASE ~Track(c)
    <2>1. UNCHANGED countVars
      BY <1>7 DEF ConnectSteps, Connect, Dialed, DialFails, TimesOut, Abandoned,
                  ConnectDropped, SpawnWatcher, KeepWatcher, WatcherSubscribes, WatcherReads
    <2>2. established \in Nat
      BY DEF VariablesTyped
    <2>3. EachCountsOnce' /\ ReportedOnce'
      BY <1>4, <1>5, <2>1, <2>2, CountKept, BalanceKept
    <2>4. QED BY <1>1, <1>2, <1>3, <2>3
  <1>8. QED BY <1>6, <1>7

\* A report adds one.
LEMMA CloseCounts ==
  ASSUME reported \in Nat, NEW o \in Observers, Close(o)
  PROVE  reported' \in Nat
  BY DEF Close

(***************************************************************************)
(* The other steps.                                                        *)
(***************************************************************************)
\* A disconnect() stops the watcher before it goes on.
LEMMA HangupKeeps ==
  ASSUME CentralInv, NEW h \in Hangups, HangupSteps(h)
  PROVE  CentralInv'
  <1> USE ObserversApart DEF SetConnect, SetScan, SetSub, Observe, connectVars, linkVars,
                             scanVars, subVars, countVars
  <1>1. VariablesTyped'
    <2> USE DEF CentralInv, VariablesTyped
    <2>1. CASE Hangup(h)
      BY <2>1 DEF Hangup, Aborted, AtAwait
    <2>2. CASE HungUp(h)
      BY <2>2 DEF HungUp, LinkFalls
    <2>3. CASE HangupFails(h)
      BY <2>3 DEF HangupFails
    <2>4. QED BY <2>1, <2>2, <2>3 DEF HangupSteps
  <1>2. Unspawned' /\ ReadersOpened'
    <2> USE DEF CentralInv, VariablesTyped, Unspawned, ReadersOpened
    <2>1. CASE Hangup(h)
      BY ZenonT(20), <2>1 DEF Hangup, Aborted, AtAwait
    <2>2. CASE HungUp(h)
      BY <2>2 DEF HungUp, LinkFalls
    <2>3. CASE HangupFails(h)
      BY <2>3 DEF HangupFails
    <2>4. QED BY <2>1, <2>2, <2>3 DEF HangupSteps
  <1>3. NoStrayTask'
    <2> USE DEF CentralInv, VariablesTyped, NoStrayTask, AtAwait
    <2>1. CASE Hangup(h)
      BY <2>1 DEF Hangup, Aborted, AtAwait
    <2>2. CASE HungUp(h)
      BY <2>2 DEF HungUp, LinkFalls
    <2>3. CASE HangupFails(h)
      BY <2>3 DEF HangupFails
    <2>4. QED BY <2>1, <2>2, <2>3 DEF HangupSteps
  <1>4. UNCHANGED <<connectPc, established>>
    BY DEF HangupSteps, Hangup, Aborted, AtAwait, HungUp, LinkFalls, HangupFails
  <1>5. EachCountsOnce'
    BY <1>4 DEF CentralInv, EachCountsOnce, Counted
  <1>6. Closing' = Closing
    <2> USE DEF CentralInv, VariablesTyped, Unspawned, Closing
    <2>1. CASE Hangup(h)
      BY <2>1 DEF Hangup, Aborted, AtAwait
    <2>2. CASE HungUp(h)
      BY <2>2 DEF HungUp, LinkFalls
    <2>3. CASE HangupFails(h)
      BY <2>3 DEF HangupFails
    <2>4. QED BY <2>1, <2>2, <2>3 DEF HangupSteps
  <1>7. ReportedOnce'
    <2>1. UNCHANGED <<connected, reported>>
      BY DEF HangupSteps, Hangup, Aborted, AtAwait, HungUp, LinkFalls, HangupFails
    <2>2. QED BY <1>4, <1>6, <2>1, BalanceKept DEF CentralInv
  <1>8. QED BY <1>1, <1>2, <1>3, <1>5, <1>7 DEF CentralInv

\* A scan replaces the loop it has waited for.
LEMMA ScanKeeps ==
  ASSUME CentralInv, NEW s \in Scans, ScanSteps(s)
  PROVE  CentralInv'
  <1> USE ObserversApart DEF SetConnect, SetScan, SetSub, Observe, connectVars, linkVars,
                             scanVars, subVars, countVars
  <1>1. VariablesTyped'
    <2> USE DEF CentralInv, VariablesTyped
    <2>1. CASE StartScan(s)
      BY <2>1 DEF StartScan, AbortLoop, Aborted, AtAwait
    <2>2. CASE Spare(s)
      BY <2>2 DEF Spare
    <2>3. CASE Condemn(s)
      BY <2>3 DEF Condemn
    <2>4. CASE Evict(s)
      BY <2>4 DEF Evict, LinkFalls
    <2>5. CASE Discover(s)
      BY <2>5 DEF Discover
    <2>6. CASE KeepLoop(s)
      BY <2>6 DEF KeepLoop
    <2>7. CASE ScanFails(s)
      BY <2>7 DEF ScanFails
    <2>8. CASE LoopReads(s)
      BY <2>8 DEF LoopReads, Aborted, AtAwait
    <2>9. QED BY <2>1, <2>2, <2>3, <2>4, <2>5, <2>6, <2>7, <2>8 DEF ScanSteps
  <1>2. Unspawned' /\ ReadersOpened'
    <2> USE DEF CentralInv, VariablesTyped, Unspawned, ReadersOpened
    <2>1. CASE StartScan(s)
      BY <2>1 DEF StartScan, AbortLoop, Aborted, AtAwait
    <2>2. CASE Spare(s)
      BY <2>2 DEF Spare
    <2>3. CASE Condemn(s)
      BY <2>3 DEF Condemn
    <2>4. CASE Evict(s)
      BY <2>4 DEF Evict, LinkFalls
    <2>5. CASE Discover(s)
      BY ZenonT(20), <2>5 DEF Discover
    <2>6. CASE KeepLoop(s)
      BY <2>6 DEF KeepLoop
    <2>7. CASE ScanFails(s)
      BY <2>7 DEF ScanFails
    <2>8. CASE LoopReads(s)
      BY <2>8 DEF LoopReads, Aborted, AtAwait
    <2>9. QED BY <2>1, <2>2, <2>3, <2>4, <2>5, <2>6, <2>7, <2>8 DEF ScanSteps
  <1>3. NoStrayTask'
    <2> USE DEF CentralInv, VariablesTyped, NoStrayTask, AtAwait
    <2>1. CASE StartScan(s)
      BY <2>1 DEF StartScan, AbortLoop, Aborted, AtAwait
    <2>2. CASE Spare(s)
      BY <2>2 DEF Spare
    <2>3. CASE Condemn(s)
      BY <2>3 DEF Condemn
    <2>4. CASE Evict(s)
      BY <2>4 DEF Evict, LinkFalls
    <2>5. CASE Discover(s)
      BY <2>5 DEF Discover
    <2>6. CASE KeepLoop(s)
      BY <2>6 DEF KeepLoop
    <2>7. CASE ScanFails(s)
      BY <2>7 DEF ScanFails
    <2>8. CASE LoopReads(s)
      BY <2>8 DEF LoopReads, Aborted, AtAwait
    <2>9. QED BY <2>1, <2>2, <2>3, <2>4, <2>5, <2>6, <2>7, <2>8 DEF ScanSteps
  <1>4. UNCHANGED <<connectPc, established>>
    BY DEF ScanSteps, StartScan, AbortLoop, Aborted, AtAwait, Spare, Condemn, Evict, LinkFalls,
       Discover, KeepLoop, ScanFails, LoopReads
  <1>5. EachCountsOnce'
    BY <1>4 DEF CentralInv, EachCountsOnce, Counted
  <1>6. Closing' = Closing
    <2> USE DEF CentralInv, VariablesTyped, Unspawned, Closing
    <2>1. CASE StartScan(s)
      BY <2>1 DEF StartScan, AbortLoop, Aborted, AtAwait
    <2>2. CASE Spare(s)
      BY <2>2 DEF Spare
    <2>3. CASE Condemn(s)
      BY <2>3 DEF Condemn
    <2>4. CASE Evict(s)
      BY <2>4 DEF Evict, LinkFalls
    <2>5. CASE Discover(s)
      BY <2>5 DEF Discover
    <2>6. CASE KeepLoop(s)
      BY <2>6 DEF KeepLoop
    <2>7. CASE ScanFails(s)
      BY <2>7 DEF ScanFails
    <2>8. CASE LoopReads(s)
      BY <2>8 DEF LoopReads, Aborted, AtAwait
    <2>9. QED BY <2>1, <2>2, <2>3, <2>4, <2>5, <2>6, <2>7, <2>8 DEF ScanSteps
  <1>7. ReportedOnce'
    <2>1. UNCHANGED <<connected, reported>>
      BY DEF ScanSteps, StartScan, AbortLoop, Aborted, AtAwait, Spare, Condemn, Evict,
         LinkFalls, Discover, KeepLoop, ScanFails, LoopReads
    <2>2. QED BY <1>4, <1>6, <2>1, BalanceKept DEF CentralInv
  <1>8. QED BY <1>1, <1>2, <1>3, <1>5, <1>7 DEF CentralInv

\* A subscribe keeps its reader only if there is none.
LEMMA SubKeeps ==
  ASSUME CentralInv, NEW u \in Subs, SubSteps(u)
  PROVE  CentralInv'
  <1> USE ObserversApart DEF SetConnect, SetScan, SetSub, Observe, connectVars, linkVars,
                             scanVars, subVars, countVars
  <1>1. VariablesTyped'
    <2> USE DEF CentralInv, VariablesTyped
    <2>1. CASE Subscribe(u)
      BY <2>1 DEF Subscribe
    <2>2. CASE OpenReader(u)
      BY <2>2 DEF OpenReader
    <2>3. CASE SubFails(u)
      BY <2>3 DEF SubFails
    <2>4. CASE KeepReader(u)
      BY <2>4 DEF KeepReader
    <2>5. CASE ReaderEnds(u)
      BY <2>5 DEF ReaderEnds
    <2>6. QED BY <2>1, <2>2, <2>3, <2>4, <2>5 DEF SubSteps
  <1>2. Unspawned' /\ ReadersOpened'
    <2> USE DEF CentralInv, VariablesTyped, Unspawned, ReadersOpened
    <2>1. CASE Subscribe(u)
      BY <2>1 DEF Subscribe
    <2>2. CASE OpenReader(u)
      BY <2>2 DEF OpenReader
    <2>3. CASE SubFails(u)
      BY <2>3 DEF SubFails
    <2>4. CASE KeepReader(u)
      BY ZenonT(20), <2>4 DEF KeepReader
    <2>5. CASE ReaderEnds(u)
      BY <2>5 DEF ReaderEnds
    <2>6. QED BY <2>1, <2>2, <2>3, <2>4, <2>5 DEF SubSteps
  <1>3. NoStrayTask'
    <2> USE DEF CentralInv, VariablesTyped, NoStrayTask, AtAwait
    <2>1. CASE Subscribe(u)
      BY <2>1 DEF Subscribe
    <2>2. CASE OpenReader(u)
      BY ZenonT(20), <2>2 DEF OpenReader
    <2>3. CASE SubFails(u)
      BY <2>3 DEF SubFails
    <2>4. CASE KeepReader(u)
      <3>1. UNCHANGED <<observer, watcher, connectPc>>
        BY <2>4 DEF KeepReader
      <3>2. ASSUME NEW v \in reading', v # u PROVE reader' = v \/ subPc'[v] = "spawned"
        <4>1. v \in reading /\ v \in Subs
          BY <2>4, <3>2 DEF KeepReader
        <4>2. subPc'[v] = subPc[v]
          BY <2>4, <3>2, <4>1 DEF KeepReader
        <4>3. CASE reader = Nobody
          BY <4>1, <4>2, <4>3
        <4>4. CASE reader # Nobody
          BY <2>4, <4>1, <4>2, <4>4 DEF KeepReader
        <4>5. QED BY <4>3, <4>4
      <3>3. u \in reading' => reader' = u
        BY <2>4 DEF KeepReader
      <3>4. QED BY <3>1, <3>2, <3>3
    <2>5. CASE ReaderEnds(u)
      BY <2>5 DEF ReaderEnds
    <2>6. QED BY <2>1, <2>2, <2>3, <2>4, <2>5 DEF SubSteps
  <1>4. UNCHANGED <<connectPc, established>>
    BY DEF SubSteps, Subscribe, OpenReader, SubFails, KeepReader, ReaderEnds
  <1>5. EachCountsOnce'
    BY <1>4 DEF CentralInv, EachCountsOnce, Counted
  <1>6. Closing' = Closing
    <2> USE DEF CentralInv, VariablesTyped, Unspawned, Closing
    <2>1. CASE Subscribe(u)
      BY <2>1 DEF Subscribe
    <2>2. CASE OpenReader(u)
      BY <2>2 DEF OpenReader
    <2>3. CASE SubFails(u)
      BY <2>3 DEF SubFails
    <2>4. CASE KeepReader(u)
      BY <2>4 DEF KeepReader
    <2>5. CASE ReaderEnds(u)
      BY <2>5 DEF ReaderEnds
    <2>6. QED BY <2>1, <2>2, <2>3, <2>4, <2>5 DEF SubSteps
  <1>7. ReportedOnce'
    <2>1. UNCHANGED <<connected, reported>>
      BY DEF SubSteps, Subscribe, OpenReader, SubFails, KeepReader, ReaderEnds
    <2>2. QED BY <1>4, <1>6, <2>1, BalanceKept DEF CentralInv
  <1>8. QED BY <1>1, <1>2, <1>3, <1>5, <1>7 DEF CentralInv

\* What is stopped is stopped with its entry; BlueZ changes neither.
LEMMA RestKeeps ==
  ASSUME CentralInv, RestSteps
  PROVE  CentralInv'
  <1> USE ObserversApart DEF SetConnect, SetScan, SetSub, Observe, connectVars, linkVars,
                             scanVars, subVars, countVars
  <1>1. VariablesTyped'
    <2> USE DEF CentralInv, VariablesTyped
    <2>1. CASE StopScan
      BY <2>1 DEF StopScan, AbortLoop, Aborted, AtAwait
    <2>2. CASE Unsubscribe
      BY <2>2 DEF Unsubscribe
    <2>3. CASE LinkLost
      BY <2>3 DEF LinkLost, LinkFalls
    <2>4. CASE DeviceRemoved
      BY <2>4 DEF DeviceRemoved
    <2>5. QED BY <2>1, <2>2, <2>3, <2>4 DEF RestSteps
  <1>2. Unspawned' /\ ReadersOpened'
    <2> USE DEF CentralInv, VariablesTyped, Unspawned, ReadersOpened
    <2>1. CASE StopScan
      BY <2>1 DEF StopScan, AbortLoop, Aborted, AtAwait
    <2>2. CASE Unsubscribe
      BY <2>2 DEF Unsubscribe
    <2>3. CASE LinkLost
      BY <2>3 DEF LinkLost, LinkFalls
    <2>4. CASE DeviceRemoved
      BY <2>4 DEF DeviceRemoved
    <2>5. QED BY <2>1, <2>2, <2>3, <2>4 DEF RestSteps
  <1>3. NoStrayTask'
    <2> USE DEF CentralInv, VariablesTyped, NoStrayTask, AtAwait
    <2>1. CASE StopScan
      BY <2>1 DEF StopScan, AbortLoop, Aborted, AtAwait
    <2>2. CASE Unsubscribe
      BY <2>2 DEF Unsubscribe
    <2>3. CASE LinkLost
      BY <2>3 DEF LinkLost, LinkFalls
    <2>4. CASE DeviceRemoved
      BY <2>4 DEF DeviceRemoved
    <2>5. QED BY <2>1, <2>2, <2>3, <2>4 DEF RestSteps
  <1>4. UNCHANGED <<connectPc, established>>
    BY DEF RestSteps, StopScan, AbortLoop, Aborted, AtAwait, Unsubscribe, LinkLost, LinkFalls,
       DeviceRemoved
  <1>5. EachCountsOnce'
    BY <1>4 DEF CentralInv, EachCountsOnce, Counted
  <1>6. Closing' = Closing
    <2> USE DEF CentralInv, VariablesTyped, Unspawned, Closing
    <2>1. CASE StopScan
      BY <2>1 DEF StopScan, AbortLoop, Aborted, AtAwait
    <2>2. CASE Unsubscribe
      BY <2>2 DEF Unsubscribe
    <2>3. CASE LinkLost
      BY <2>3 DEF LinkLost, LinkFalls
    <2>4. CASE DeviceRemoved
      BY <2>4 DEF DeviceRemoved
    <2>5. QED BY <2>1, <2>2, <2>3, <2>4 DEF RestSteps
  <1>7. ReportedOnce'
    <2>1. UNCHANGED <<connected, reported>>
      BY DEF RestSteps, StopScan, AbortLoop, Aborted, AtAwait, Unsubscribe, LinkLost,
         LinkFalls, DeviceRemoved
    <2>2. QED BY <1>4, <1>6, <2>1, BalanceKept DEF CentralInv
  <1>8. QED BY <1>1, <1>2, <1>3, <1>5, <1>7 DEF CentralInv

\* Whoever takes the device out of `connected` is closing until it has reported it.
LEMMA ObserverKeeps ==
  ASSUME CentralInv, NEW o \in Observers, ObserverSteps(o)
  PROVE  CentralInv'
  <1> USE ObserversApart DEF SetConnect, SetScan, SetSub, Observe, connectVars, linkVars,
                             scanVars, subVars, countVars
  <1>1. VariablesTyped'
    <2> USE DEF CentralInv, VariablesTyped
    <2>1. CASE CauseKnown(o)
      BY <2>1 DEF CauseKnown
    <2>2. CASE EmitDisconnect(o)
      BY <2>2 DEF EmitDisconnect, Finished
    <2>3. CASE Close(o)
      <3>1. Finished(o) \in {"watching", "over"}
        BY DEF Finished
      <3>2. reported' \in Nat
        BY <2>3, CloseCounts
      <3>3. reader' \in Subs \cup {Nobody} /\ reading' \subseteq Subs
        BY <2>3 DEF Close
      <3>4. QED BY <2>3, <3>1, <3>2, <3>3 DEF Close
    <2>4. QED BY <2>1, <2>2, <2>3 DEF ObserverSteps
  <1>2. Unspawned' /\ ReadersOpened'
    <2> USE DEF CentralInv, VariablesTyped, Unspawned, ReadersOpened
    <2>1. CASE CauseKnown(o)
      BY <2>1 DEF CauseKnown
    <2>2. CASE EmitDisconnect(o)
      BY <2>2 DEF EmitDisconnect, Finished
    <2>3. CASE Close(o)
      BY <2>3 DEF Close, Finished
    <2>4. QED BY <2>1, <2>2, <2>3 DEF ObserverSteps
  <1>3. NoStrayTask'
    <2> USE DEF CentralInv, VariablesTyped, NoStrayTask, AtAwait
    <2>1. CASE CauseKnown(o)
      BY <2>1 DEF CauseKnown
    <2>2. CASE EmitDisconnect(o)
      BY <2>2 DEF EmitDisconnect, Finished
    <2>3. CASE Close(o)
      BY <2>3 DEF Close, Finished
    <2>4. QED BY <2>1, <2>2, <2>3 DEF ObserverSteps
  <1>4. UNCHANGED <<connectPc, established>>
    BY DEF ObserverSteps, CauseKnown, EmitDisconnect, Finished, Close
  <1>5. EachCountsOnce'
    BY <1>4 DEF CentralInv, EachCountsOnce, Counted
  <1>6. ReportedOnce'
    <2>1. /\ connected \in BOOLEAN /\ reported \in Nat /\ established \in Nat
          /\ established = reported + Cardinality(Closing) + (IF connected THEN 1 ELSE 0)
      BY DEF CentralInv, VariablesTyped, ReportedOnce
    <2>2. CASE CauseKnown(o) \/ (EmitDisconnect(o) /\ ~connected)
      <3>1. Closing' = Closing
        BY <2>2 DEF CauseKnown, EmitDisconnect, Closing, Finished, CentralInv, VariablesTyped
      <3>2. UNCHANGED <<established, reported>> /\ (connected' <=> connected)
        BY <2>1, <2>2 DEF CauseKnown, EmitDisconnect
      <3>3. QED BY <2>1, <3>1, <3>2 DEF ReportedOnce
    <2>3. CASE EmitDisconnect(o) /\ connected
      <3>1. o \notin Closing /\ Closing' = Closing \cup {o}
        BY <2>3 DEF EmitDisconnect, Closing, CentralInv, VariablesTyped
      <3>2. Cardinality(Closing') = Cardinality(Closing) + 1
        BY <3>1, ClosingFinite, FS_AddElement
      <3>3. UNCHANGED <<established, reported>> /\ connected' = FALSE
        BY <2>3 DEF EmitDisconnect
      <3>4. established = reported + Cardinality(Closing) + 1
        BY <2>1, <2>3
      <3>5. established' = reported' + Cardinality(Closing')
        BY <2>1, <3>2, <3>3, <3>4, ClosingFinite
      <3>6. QED BY <2>1, <3>2, <3>3, <3>5, ClosingFinite DEF ReportedOnce
    <2>4. CASE Close(o)
      <3>1. o \in Closing /\ Closing' = Closing \ {o}
        BY <2>4 DEF Close, Closing, Finished, CentralInv, VariablesTyped
      <3>2. Cardinality(Closing') = Cardinality(Closing) - 1
        BY <3>1, ClosingFinite, FS_RemoveElement
      <3>3. established' = established /\ reported' = reported + 1 /\ connected' = connected
        BY <2>4 DEF Close
      <3>4. (IF connected THEN 1 ELSE 0) \in {0, 1}
        OBVIOUS
      <3>5. established' = reported' + Cardinality(Closing') + (IF connected THEN 1 ELSE 0)
        BY <2>1, <3>2, <3>3, <3>4, ClosingFinite
      <3>6. QED BY <3>3, <3>5 DEF ReportedOnce
    <2>5. QED BY <2>2, <2>3, <2>4 DEF ObserverSteps
  <1>7. QED BY <1>1, <1>2, <1>3, <1>5, <1>6 DEF CentralInv

\* Every step keeps the invariant.
LEMMA StepKeeps == CentralInv /\ [CentralNext]_centralVars => CentralInv'
  <1> SUFFICES ASSUME CentralInv, [CentralNext]_centralVars PROVE CentralInv'
    OBVIOUS
  <1>1. CASE UNCHANGED centralVars
    BY <1>1 DEF CentralInv, VariablesTyped, Unspawned, ReadersOpened, EachCountsOnce, Counted,
                NoStrayTask, AtAwait, ReportedOnce, Closing, centralVars, linkVars,
                connectVars, scanVars, subVars, countVars
  <1>2. QED
    BY <1>1, ConnectKeeps, ObserverKeeps, HangupKeeps, ScanKeeps, SubKeeps, RestKeeps
    DEF CentralNext, ObserverSteps, HangupSteps, RestSteps

\* It holds before anything has been called.
LEMMA InvInitially == CentralInit => CentralInv
  <1> SUFFICES ASSUME CentralInit PROVE CentralInv
    OBVIOUS
  <1>1. Closing = {} /\ Counted = {}
    BY DEF CentralInit, Closing, Counted
  <1>2. Cardinality(Closing) = 0 /\ Cardinality(Counted) = 0
    BY <1>1, FS_EmptySet
  <1>3. ReportedOnce /\ EachCountsOnce
    <2>1. connected = FALSE /\ established = 0 /\ reported = 0
      BY DEF CentralInit
    <2>2. (IF connected THEN 1 ELSE 0) = 0
      BY <2>1
    <2>3. QED BY <1>2, <2>1, <2>2 DEF ReportedOnce, EachCountsOnce
  <1>4. VariablesTyped
    BY DEF CentralInit, VariablesTyped
  <1>5. Unspawned /\ ReadersOpened /\ NoStrayTask
    BY ObserversApart DEF CentralInit, Unspawned, ReadersOpened, NoStrayTask, AtAwait
  <1>6. QED
    BY <1>3, <1>4, <1>5 DEF CentralInv

\* It is an invariant.
LEMMA InvAlways == CentralSpec => []CentralInv
  BY InvInitially, StepKeeps, PTL DEF CentralSpec

(***************************************************************************)
(* The theorems.                                                           *)
(***************************************************************************)

\* Every variable of the BlueZ central keeps its type; no more losses are reported
\* than connections were counted, and no more of those than there were connects.
THEOREM CentralTypeCorrect == CentralSpec => []CentralTypeOK
  <1>1. CentralInv => CentralTypeOK
    <2> SUFFICES ASSUME CentralInv PROVE CentralTypeOK
      OBVIOUS
    <2>1. /\ VariablesTyped /\ established <= Cardinality(Counted)
          /\ established = reported + Cardinality(Closing) + (IF connected THEN 1 ELSE 0)
      BY DEF CentralInv, EachCountsOnce, ReportedOnce
    <2>2. established \in Nat /\ reported \in Nat
      BY <2>1 DEF VariablesTyped
    <2>3. (IF connected THEN 1 ELSE 0) \in {0, 1}
      OBVIOUS
    <2>4. Cardinality(Connects) \in Nat
      BY ObserversApart, FS_CardinalityType
    <2>5. established \in 0..Cardinality(Connects) /\ reported \in 0..established
      BY <2>1, <2>2, <2>3, <2>4, ClosingFinite, CountedFinite
    <2>6. QED BY <2>1, <2>5 DEF VariablesTyped, CentralTypeOK
  <1>2. QED BY <1>1, InvAlways, PTL

\* Each time the device entered `connected` it is reported to have left it once, for
\* any number of watchers, discovery loops and disconnects that see the link down.
THEOREM EachLossReportedOnce == CentralSpec => []ReportedOnce
  <1>1. CentralInv => ReportedOnce
    BY DEF CentralInv
  <1>2. QED BY <1>1, InvAlways, PTL

\* No watcher and no reader acts on once the map has another one, or none, for the
\* device: every way to replace or to remove an entry aborts the task it had.
THEOREM TasksAreHeld == CentralSpec => []NoStrayTask
  <1>1. CentralInv => NoStrayTask
    BY DEF CentralInv
  <1>2. QED BY <1>1, InvAlways, PTL
=============================================================================
