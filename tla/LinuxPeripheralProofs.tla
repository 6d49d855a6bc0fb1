----------------------- MODULE LinuxPeripheralProofs -----------------------
(***************************************************************************)
(* Proofs about LinuxPeripheral, for any set of starts, stops and sends,   *)
(* any finite set of sessions and any number of power-offs.                *)
(***************************************************************************)
EXTENDS LinuxPeripheral, FiniteSetTheorems, TLAPS

(***************************************************************************)
(* The inductive invariant.                                                *)
(***************************************************************************)

\* A generation is a power-off the watcher has handled; some it never hears of.
Generations ==
  /\ generation + events <= offs
  /\ \A s \in Starts : startGen[s] <= generation

\* A handle that is held or taken was stored by its start, and is in one place.
AdvPlaces ==
  /\ \A s \in Starts : adv = s => startPc[s] = "done"
  /\ \A k \in Takers, s \in Starts :
       takenAdv[k] = s => startPc[s] = "done" /\ adv # s

AppPlaces ==
  /\ \A s \in Starts :
       app = s => startPc[s] \notin {"idle", "serving", "served"}
  /\ \A k \in Takers, s \in Starts :
       takenApp[k] = s => startPc[s] \notin {"idle", "serving", "served"} /\ app # s

\* Only a taker that has yet to drop them has handles.
TakersEmpty ==
  \A k \in Takers :
    takerPc[k] # "dropping" => takenAdv[k] = None /\ takenApp[k] = None

\* A handle awaited in the present generation is registered, unless a power-off
\* nobody heard of took it, ...
AwaitedIsRegistered ==
  \A s \in Starts : startGen[s] = generation /\ events = 0 /\ s \notin unheard =>
    /\ startPc[s] = "served" => s \in apps
    /\ startPc[s] = "advertised" => s \in advs

\* ... and has an application under it, unless a stop took that.
AwaitedHasApp ==
  \A s \in Starts :
    startGen[s] = generation /\ startPc[s] \in {"advertising", "advertised"}
      => app # None \/ s \in cut

HandlesInv ==
  /\ TypeOK
  /\ Generations
  /\ AdvPlaces
  /\ AppPlaces
  /\ TakersEmpty
  /\ AwaitedIsRegistered
  /\ AwaitedHasApp
  /\ HandlesMatch
  /\ AdvHasApp

(***************************************************************************)
(* Types.                                                                  *)
(***************************************************************************)
LEMMA StartTyped ==
  ASSUME TypeOK, NEW s \in Starts, StartSteps(s)
  PROVE  TypeOK'
  BY PeripheralAssumption
  DEF TypeOK, StartSteps, BeginStart, Served, StoreApp, Advertised, StoreAdv,
      StartFails, SetStart, bluezVars, takerVars, sessionVars, sendVars

LEMMA TakerTyped ==
  ASSUME TypeOK, Generations,
         \/ \E k \in Stops : StopTakes(k)
         \/ PowerLost
         \/ \E k \in Takers : TakerSteps(k)
  PROVE  TypeOK'
  <1>1. CASE \E k \in Stops : StopTakes(k)
    BY <1>1 DEF TypeOK, StopTakes, Take, Takers, bluezVars, sessionVars, sendVars
  <1>2. CASE PowerLost
    BY <1>2, PeripheralAssumption
    DEF TypeOK, Generations, PowerLost, Take, Takers, sessionVars, sendVars
  <1>3. ASSUME NEW k \in Takers, TakerSteps(k) PROVE TypeOK'
    <2>1. Cardinality(notifiers) \in Nat
      BY PeripheralAssumption, FS_Subset, FS_CardinalityType DEF TypeOK
    <2>2. CASE DropTaken(k)
      BY <2>2 DEF TypeOK, DropTaken, publishVars, sessionVars, sendVars
    <2>3. CASE ClearNotifiers(k)
      BY <2>1, <2>3 DEF TypeOK, ClearNotifiers, publishVars, bluezVars, sendVars
    <2>4. QED BY <1>3, <2>2, <2>3 DEF TakerSteps
  <1>4. QED BY <1>1, <1>2, <1>3

LEMMA BluezTyped ==
  ASSUME TypeOK, Generations,
         \/ PowerOff \/ PowerOn \/ WatchAdapter \/ WatchEnds
         \/ \E n \in Sessions : SessionSteps(n)
  PROVE  TypeOK'
  <1>1. CASE PowerOff
    <2>1. offs' \in 0..MaxPowerOffs /\ events' \in 0..MaxPowerOffs
      BY <1>1, PeripheralAssumption DEF TypeOK, Generations, PowerOff
    <2>2. QED BY <1>1, <2>1 DEF TypeOK, PowerOff, publishVars, takerVars, sendVars
  <1>2. CASE PowerOn \/ WatchAdapter \/ WatchEnds
    BY <1>2 DEF TypeOK, PowerOn, WatchAdapter, WatchEnds, publishVars, takerVars,
                sessionVars, sendVars
  <1>3. ASSUME NEW n \in Sessions, SessionSteps(n) PROVE TypeOK'
    BY <1>3 DEF TypeOK, SessionSteps, SessionStarts, SessionStops, publishVars,
                bluezVars, takerVars, sendVars
  <1>4. QED BY <1>1, <1>2, <1>3

LEMMA SendTyped ==
  ASSUME TypeOK, NEW x \in Sends, SendSteps(x)
  PROVE  TypeOK'
  <1>1. Cardinality(Ended) \in Nat
    <2>1. Ended \in SUBSET Sessions
      BY DEF TypeOK, Ended
    <2>2. QED BY <2>1, PeripheralAssumption, FS_Subset, FS_CardinalityType
  <1>2. UNCHANGED <<publishVars, bluezVars, takerVars>>
    BY DEF SendSteps, Collect, Answered, Prune, SendDropped, SkipStopped, Emit
  <1>3. /\ notifiers' \subseteq Sessions /\ stopped' \subseteq Sessions
        /\ opened' \subseteq Sessions /\ subscribed' \in Int
    BY <1>1 DEF TypeOK, SendSteps, Collect, Answered, Prune, SendDropped, SkipStopped,
                Emit, sessionVars
  <1>4. /\ sendPc' \in [Sends -> {"idle", "sending"}]
        /\ todo' \in [Sends -> SUBSET Sessions]
        /\ holding' \in [Sends -> Sessions \cup {None}]
        /\ sawStopped' \in [Sends -> BOOLEAN]
    <2>1. CASE Collect(x) \/ Prune(x) \/ SendDropped(x)
      BY <2>1 DEF TypeOK, Collect, Prune, SendDropped, SetSend
    <2>2. CASE Answered(x)
      BY <2>2 DEF TypeOK, Answered
    <2>3. ASSUME NEW n \in Sessions, SkipStopped(x, n) \/ Emit(x, n)
          PROVE  /\ sendPc' = sendPc /\ todo' = [todo EXCEPT ![x] = @ \ {n}]
                 /\ holding' \in [Sends -> Sessions \cup {None}]
                 /\ sawStopped' \in [Sends -> BOOLEAN]
      <3>1. CASE SkipStopped(x, n)
        BY <3>1 DEF TypeOK, SkipStopped
      <3>2. CASE Emit(x, n)
        BY <3>2 DEF TypeOK, Emit
      <3>3. QED BY <2>3, <3>1, <3>2
    <2>4. ASSUME NEW n \in Sessions, todo' = [todo EXCEPT ![x] = @ \ {n}]
          PROVE  todo' \in [Sends -> SUBSET Sessions]
      BY <2>4 DEF TypeOK
    <2>5. sendPc \in [Sends -> {"idle", "sending"}]
      BY DEF TypeOK
    <2>6. QED BY <2>1, <2>2, <2>3, <2>4, <2>5 DEF SendSteps
  <1>5. QED BY <1>2, <1>3, <1>4 DEF TypeOK, publishVars, bluezVars, takerVars

(***************************************************************************)
(* The handles, action by action.                                          *)
(***************************************************************************)
LEMMA StartKeeps ==
  ASSUME HandlesInv, NEW s \in Starts, StartSteps(s)
  PROVE  HandlesInv'
  <1> USE DEF HandlesInv, Generations, AdvPlaces, AppPlaces, TakersEmpty,
              AwaitedIsRegistered, AwaitedHasApp, HandlesMatch, AdvHasApp
  <1>1. TypeOK'
    BY StartTyped
  <1>2. None \notin Starts
    BY PeripheralAssumption
  <1>3. CASE BeginStart(s)
    BY <1>1, <1>2, <1>3 DEF BeginStart, SetStart, TypeOK, bluezVars, takerVars
  <1>4. CASE Served(s)
    BY <1>1, <1>2, <1>4 DEF Served, SetStart, TypeOK, bluezVars, takerVars
  <1>5. CASE StoreApp(s)
    BY <1>1, <1>2, <1>5 DEF StoreApp, SetStart, TypeOK, bluezVars, takerVars
  <1>6. CASE Advertised(s)
    BY <1>1, <1>2, <1>6 DEF Advertised, SetStart, TypeOK, bluezVars, takerVars
  <1>7. CASE StoreAdv(s)
    BY <1>1, <1>2, <1>7 DEF StoreAdv, SetStart, TypeOK, bluezVars, takerVars
  <1>8. CASE StartFails(s)
    BY <1>1, <1>2, <1>8 DEF StartFails, SetStart, TypeOK, bluezVars, takerVars
  <1>9. QED BY <1>3, <1>4, <1>5, <1>6, <1>7, <1>8 DEF StartSteps

LEMMA TakersKeep ==
  ASSUME HandlesInv,
         \/ \E k \in Stops : StopTakes(k)
         \/ PowerLost
         \/ \E k \in Takers : TakerSteps(k)
  PROVE  HandlesInv'
  <1> USE DEF HandlesInv, Generations, AdvPlaces, AppPlaces, TakersEmpty,
              AwaitedIsRegistered, AwaitedHasApp, HandlesMatch, AdvHasApp
  <1>1. TypeOK'
    BY TakerTyped
  <1>2. None \notin Starts
    BY PeripheralAssumption
  <1>3. ASSUME NEW k \in Stops, StopTakes(k) PROVE HandlesInv'
    <2>1. k \in Takers
      BY DEF Takers
    <2>2. QED
      BY <1>1, <1>2, <1>3, <2>1 DEF StopTakes, Take, TypeOK, bluezVars
  <1>4. CASE PowerLost
    <2>1. Watcher \in Takers
      BY DEF Takers
    <2>2. QED
      BY <1>1, <1>2, <1>4, <2>1 DEF PowerLost, Take, TypeOK
  <1>5. ASSUME NEW k \in Takers, DropTaken(k) PROVE HandlesInv'
    BY <1>1, <1>2, <1>5 DEF DropTaken, TypeOK, publishVars
  <1>6. ASSUME NEW k \in Takers, ClearNotifiers(k) PROVE HandlesInv'
    BY <1>1, <1>2, <1>6 DEF ClearNotifiers, TypeOK, publishVars, bluezVars
  <1>7. QED BY <1>3, <1>4, <1>5, <1>6 DEF TakerSteps

LEMMA BluezKeeps ==
  ASSUME HandlesInv, PowerOff \/ PowerOn \/ WatchAdapter \/ WatchEnds
  PROVE  HandlesInv'
  <1> USE DEF HandlesInv, Generations, AdvPlaces, AppPlaces, TakersEmpty,
              AwaitedIsRegistered, AwaitedHasApp, HandlesMatch, AdvHasApp
  <1>1. TypeOK'
    BY BluezTyped
  <1>2. CASE PowerOff
    <2>1. CASE watching = "watching"
      BY <1>1, <1>2, <2>1 DEF PowerOff, TypeOK, publishVars, takerVars
    <2>2. CASE watching # "watching"
      <3>1. /\ unheard' = unheard \cup advs \cup apps /\ events' = events
            /\ offs' = offs + 1 /\ advs' = {} /\ apps' = {}
            /\ UNCHANGED <<publishVars, takerVars>>
        BY <1>2, <2>2 DEF PowerOff
      <3>2. Generations'
        BY <3>1 DEF TypeOK, publishVars
      <3>3. AwaitedIsRegistered' /\ AwaitedHasApp'
        BY <3>1 DEF TypeOK, publishVars
      <3>4. HandlesMatch'
        BY <3>1 DEF publishVars, takerVars
      <3>5. AdvPlaces' /\ AppPlaces' /\ TakersEmpty' /\ AdvHasApp'
        BY <3>1 DEF publishVars, takerVars
      <3>6. QED BY <1>1, <3>2, <3>3, <3>4, <3>5
    <2>3. QED BY <2>1, <2>2
  <1>3. CASE PowerOn \/ WatchAdapter \/ WatchEnds
    BY <1>1, <1>3 DEF PowerOn, WatchAdapter, WatchEnds, publishVars, takerVars
  <1>4. QED BY <1>2, <1>3

\* Sessions and sends touch neither a handle nor what is registered.
LEMMA OthersKeep ==
  ASSUME HandlesInv, TypeOK', UNCHANGED <<publishVars, bluezVars, takerVars>>
  PROVE  HandlesInv'
  BY DEF HandlesInv, Generations, AdvPlaces, AppPlaces, TakersEmpty,
         AwaitedIsRegistered, AwaitedHasApp, HandlesMatch, AdvHasApp, publishVars,
         bluezVars, takerVars

LEMMA HandlesInitially == Init => HandlesInv
  BY PeripheralAssumption
  DEF Init, HandlesInv, TypeOK, Generations, AdvPlaces, AppPlaces, TakersEmpty,
      AwaitedIsRegistered, AwaitedHasApp, HandlesMatch, AdvHasApp

LEMMA HandlesStep == HandlesInv /\ [Next]_vars => HandlesInv'
  <1> SUFFICES ASSUME HandlesInv, [Next]_vars PROVE HandlesInv'
    OBVIOUS
  <1>1. TypeOK /\ Generations
    BY DEF HandlesInv
  <1>2. CASE \E s \in Starts : StartSteps(s)
    BY <1>2, StartKeeps
  <1>3. CASE \/ \E k \in Stops : StopTakes(k)
             \/ PowerLost
             \/ \E k \in Takers : TakerSteps(k)
    BY <1>3, TakersKeep
  <1>4. CASE PowerOff \/ PowerOn \/ WatchAdapter \/ WatchEnds
    BY <1>4, BluezKeeps
  <1>5. ASSUME NEW n \in Sessions, SessionSteps(n) PROVE HandlesInv'
    <2>1. TypeOK'
      BY <1>1, <1>5, BluezTyped
    <2>2. UNCHANGED <<publishVars, bluezVars, takerVars>>
      BY <1>5 DEF SessionSteps, SessionStarts, SessionStops
    <2>3. QED BY <2>1, <2>2, OthersKeep
  <1>6. ASSUME NEW x \in Sends, SendSteps(x) PROVE HandlesInv'
    <2>1. TypeOK'
      BY <1>1, <1>6, SendTyped
    <2>2. UNCHANGED <<publishVars, bluezVars, takerVars>>
      BY <1>6 DEF SendSteps, Collect, Answered, Prune, SendDropped, SkipStopped, Emit
    <2>3. QED BY <2>1, <2>2, OthersKeep
  <1>7. CASE UNCHANGED vars
    <2>1. TypeOK'
      BY <1>1, <1>7
      DEF TypeOK, vars, publishVars, bluezVars, takerVars, sessionVars, sendVars
    <2>2. QED BY <1>7, <2>1, OthersKeep DEF vars
  <1>8. QED BY <1>2, <1>3, <1>4, <1>5, <1>6, <1>7 DEF Next

LEMMA HandlesAlways == Spec => []HandlesInv
  BY HandlesInitially, HandlesStep, PTL DEF Spec

\* Every variable of the BlueZ peripheral keeps its type; the generation counts
\* the power-offs that the watcher has handled.
THEOREM TypeCorrect == Spec => []TypeOK
  <1>1. HandlesInv => TypeOK
    BY DEF HandlesInv
  <1>2. QED BY <1>1, HandlesAlways, PTL

\* The handles blew holds are what BlueZ has registered, with any number of starts,
\* stops and power-offs, whenever the watcher subscribes and though it may end: a
\* handle is kept across a power cycle, to refuse later starts, only if the watcher
\* was not subscribed as the power went, and nothing registered is out of a stop's
\* reach.
THEOREM HandlesAlwaysMatch == Spec => []HandlesMatch
  <1>1. HandlesInv => HandlesMatch
    BY DEF HandlesInv
  <1>2. QED BY <1>1, HandlesAlways, PTL

\* However power-offs fall into starts, the handle of an advertisement is held with
\* that of a GATT application, unless a stop took this one between the two stores.
\* Whether what they name is registered is HandlesAlwaysMatch.
THEOREM NoneWithoutServices == Spec => []AdvHasApp
  <1>1. HandlesInv => AdvHasApp
    BY DEF HandlesInv
  <1>2. QED BY <1>1, HandlesAlways, PTL

(***************************************************************************)
(* The notify sessions.                                                    *)
(***************************************************************************)

\* A session held has begun, so none is added twice.
SessionsInv == SubscriptionsBalance /\ notifiers \subseteq opened

LEMMA SessionsStep ==
  ASSUME TypeOK, SessionsInv, [Next]_vars
  PROVE  SessionsInv'
  <1> USE DEF SessionsInv, SubscriptionsBalance
  <1>1. IsFiniteSet(notifiers)
    BY PeripheralAssumption, FS_Subset DEF TypeOK
  <1>2. Cardinality(notifiers) \in Nat
    BY <1>1, FS_CardinalityType
  <1>3. ASSUME NEW k \in Takers, ClearNotifiers(k) PROVE SessionsInv'
    <2>1. Cardinality({}) = 0
      BY FS_EmptySet
    <2>2. QED BY <1>2, <1>3, <2>1 DEF ClearNotifiers
  <1>4. ASSUME NEW n \in Sessions, SessionStarts(n) PROVE SessionsInv'
    <2>1. n \notin notifiers
      BY <1>4 DEF SessionStarts
    <2>2. Cardinality(notifiers \cup {n}) = Cardinality(notifiers) + 1
      BY <1>1, <2>1, FS_AddElement
    <2>3. QED BY <1>2, <1>4, <2>2 DEF SessionStarts
  <1>5. ASSUME NEW x \in Sends, Prune(x) PROVE SessionsInv'
    <2>1. CASE sawStopped[x]
      <3>1. notifiers \cap Ended = Ended
        BY DEF Ended
      <3>2. Cardinality(notifiers \ Ended) = Cardinality(notifiers) - Cardinality(Ended)
        BY <1>1, <3>1, FS_Difference
      <3>3. QED BY <1>5, <2>1, <3>2 DEF Prune
    <2>2. CASE ~sawStopped[x]
      BY <1>5, <2>2 DEF Prune
    <2>3. QED BY <2>1, <2>2
  <1>6. CASE UNCHANGED <<notifiers, opened, subscribed>>
    BY <1>6
  <1>7. ASSUME NEW s \in Starts, StartSteps(s)
        PROVE  UNCHANGED <<notifiers, opened, subscribed>>
    BY <1>7 DEF StartSteps, BeginStart, Served, StoreApp, Advertised, StoreAdv,
                StartFails, sessionVars
  <1>8. ASSUME \/ \E k \in Stops : StopTakes(k)
               \/ PowerLost
               \/ \E k \in Takers : DropTaken(k)
        PROVE  UNCHANGED <<notifiers, opened, subscribed>>
    BY <1>8 DEF StopTakes, PowerLost, DropTaken, sessionVars
  <1>9. ASSUME NEW n \in Sessions, SessionStops(n)
        PROVE  UNCHANGED <<notifiers, opened, subscribed>>
    BY <1>9 DEF SessionStops
  <1>10. ASSUME NEW x \in Sends, SendSteps(x), ~Prune(x)
         PROVE  UNCHANGED <<notifiers, opened, subscribed>>
    BY <1>10 DEF SendSteps, Collect, Answered, SendDropped, SkipStopped, Emit, sessionVars
  <1>11. CASE PowerOff \/ PowerOn \/ WatchAdapter \/ WatchEnds \/ UNCHANGED vars
    BY <1>6, <1>11 DEF PowerOff, PowerOn, WatchAdapter, WatchEnds, vars, sessionVars
  <1>12. QED
    BY <1>3, <1>4, <1>5, <1>6, <1>7, <1>8, <1>9, <1>10, <1>11
    DEF Next, TakerSteps, SessionSteps

\* A notify session is reported subscribed once and unsubscribed once, whichever
\* sends, stops and power-offs find it ended.
THEOREM EachReportedOnce == Spec => []SubscriptionsBalance
  <1>1. Init => SessionsInv
    BY FS_EmptySet DEF Init, SessionsInv, SubscriptionsBalance
  <1>2. TypeOK /\ SessionsInv /\ [Next]_vars => SessionsInv'
    BY SessionsStep
  <1>3. SessionsInv => SubscriptionsBalance
    BY DEF SessionsInv
  <1>4. QED BY <1>1, <1>2, <1>3, TypeCorrect, PTL DEF Spec

=============================================================================
