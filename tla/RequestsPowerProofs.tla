-------------------------- MODULE RequestsPowerProofs --------------------------
(***************************************************************************)
(* Proofs about the request path and about how a CoreBluetooth role comes  *)
(* up, for any number of requests, parts, waiting calls and events.        *)
(***************************************************************************)
EXTENDS AttRequests, PowerUp, TLAPS

(***************************************************************************)
(* How a role comes up.                                                    *)
(***************************************************************************)

\* What with_config() cannot miss: the watch channel holds the news or is about to be
\* told, and a call that goes to wait, or is about to, sees it as a change.
WatchTold ==
  state = "on" =>
    /\ watchOn \/ UpdateComing
    /\ startPc \in {"waiting", "checking"} => watchNew \/ UpdateComing

\* While a restoration is to come it is at the head of the queue, and nothing but the
\* deadline has moved with_config().
RestoreFirst ==
  restored = "coming" =>
    /\ callbacks # << >> /\ Head(callbacks) = "restore"
    /\ ~watchOn /\ ~watchNew
    /\ startPc = "waiting" \/ byDeadline

PowerUpInv ==
  PowerUpTypeOK /\ WatchTold /\ NoMissedPower /\ RestoreFirst

\* An event that was in a stream is there when another was put behind it.
LEMMA EventStays ==
  ASSUME NEW S, NEW s \in Seq(S), NEW e \in S
  PROVE  /\ Append(s, e) \in Seq(S)
         /\ \E i \in DOMAIN Append(s, e) : Append(s, e)[i] = e
         /\ \A i \in DOMAIN s : i \in DOMAIN Append(s, e) /\ Append(s, e)[i] = s[i]
  <1>1. Len(s) + 1 \in DOMAIN Append(s, e) /\ Append(s, e)[Len(s) + 1] = e
    OBVIOUS
  <1>2. QED BY <1>1

\* An event that is not the oldest stays when the oldest is taken.
LEMMA OthersStay ==
  ASSUME NEW S, NEW s \in Seq(S), s # << >>
  PROVE  /\ Head(s) \in S /\ Tail(s) \in Seq(S)
         /\ \A i \in DOMAIN s :
              s[i] = Head(s) \/ \E j \in DOMAIN Tail(s) : Tail(s)[j] = s[i]
  <1>1. Head(s) \in S /\ Tail(s) \in Seq(S) /\ Head(s) = s[1]
    OBVIOUS
  <1>2. ASSUME NEW i \in DOMAIN s, i # 1
        PROVE  \E j \in DOMAIN Tail(s) : Tail(s)[j] = s[i]
    <2>1. i - 1 \in DOMAIN Tail(s) /\ Tail(s)[i - 1] = s[i]
      BY <1>2
    <2>2. QED BY <2>1
  <1>3. QED BY <1>1, <1>2

\* A callback is run: the others wait on.
LEMMA CallbackRuns ==
  ASSUME PowerUpTypeOK, NEW c \in {"restore", "update"}, Runs(c)
  PROVE  /\ callbacks' \in Seq({"restore", "update"})
         /\ c = "restore" => (UpdateComing => UpdateComing')
  <1>1. callbacks \in Seq({"restore", "update"}) /\ callbacks # << >> /\ Head(callbacks) = c
        /\ callbacks' = Tail(callbacks)
    BY DEF PowerUpTypeOK, Runs
  <1>2. QED BY <1>1, OthersStay DEF UpdateComing

\* The state changes: the news is on the queue.
LEMMA UpdatePosted ==
  ASSUME PowerUpTypeOK, StateChanges
  PROVE  /\ callbacks' \in Seq({"restore", "update"}) /\ UpdateComing'
         /\ callbacks # << >> => callbacks' # << >> /\ Head(callbacks') = Head(callbacks)
  <1>1. callbacks \in Seq({"restore", "update"}) /\ callbacks' = Append(callbacks, "update")
    BY DEF PowerUpTypeOK, StateChanges
  <1>2. callbacks' \in Seq({"restore", "update"}) /\ UpdateComing'
    BY <1>1, EventStays DEF UpdateComing
  <1>3. QED BY <1>1, <1>2

\* What a broadcast leaves in the streams: the event, and all that was there unless
\* the stream lagged.
LEMMA Broadcasts ==
  ASSUME PowerUpTypeOK, NEW e \in {"on", "off", "other"}, Broadcast(e)
  PROVE  /\ stream' \in [Waiters -> Seq({"on", "off", "other"})]
         /\ lagged' \subseteq Waiters /\ lagged \subseteq lagged'
         /\ \A w \in Waiters \ lagged' :
              /\ \A i \in DOMAIN stream[w] :
                   \E j \in DOMAIN stream'[w] : stream'[w][j] = stream[w][i]
              /\ waiterPc[w] # "idle" => \E j \in DOMAIN stream'[w] : stream'[w][j] = e
  <1> DEFINE Events == {"on", "off", "other"}
  <1>1. ASSUME NEW w \in Waiters
        PROVE  stream[w] \in Seq(Events) /\ (Overflows(w) => stream[w] # << >>)
    BY <1>1, PowerUpAssumption DEF PowerUpTypeOK, Overflows
  <1>2. ASSUME NEW w \in Waiters
        PROVE  /\ stream'[w] \in Seq(Events)
               /\ w \notin lagged' =>
                    /\ \A i \in DOMAIN stream[w] :
                         \E j \in DOMAIN stream'[w] : stream'[w][j] = stream[w][i]
                    /\ waiterPc[w] # "idle" =>
                         \E j \in DOMAIN stream'[w] : stream'[w][j] = e
    <2>1. CASE waiterPc[w] = "idle"
      <3>1. stream'[w] = stream[w]
        BY <2>1, <1>2 DEF Broadcast
      <3>2. QED BY <3>1, <2>1, <1>1, <1>2
    <2>2. CASE waiterPc[w] # "idle" /\ Overflows(w)
      <3>1. stream'[w] = Append(Tail(stream[w]), e) /\ w \in lagged'
        BY <2>2, <1>2 DEF Broadcast
      <3>2. Tail(stream[w]) \in Seq(Events)
        BY <2>2, <1>1, <1>2, OthersStay
      <3>3. QED BY <3>1, <3>2, EventStays
    <2>3. CASE waiterPc[w] # "idle" /\ ~Overflows(w)
      <3>1. stream'[w] = Append(stream[w], e)
        BY <2>3, <1>2 DEF Broadcast
      <3>2. QED BY <3>1, <1>1, <1>2, EventStays
    <2>4. QED BY <2>1, <2>2, <2>3
  <1>3. stream' \in [Waiters -> Seq(Events)]
    <2>1. stream' = [w \in Waiters |-> stream'[w]]
      BY DEF Broadcast
    <2>2. QED BY <2>1, <1>2
  <1>4. QED BY <1>2, <1>3 DEF Broadcast, PowerUpTypeOK

LEMMA PowerUpInitInv == PowerUpInit => PowerUpInv
  <1> SUFFICES ASSUME PowerUpInit PROVE PowerUpInv
    OBVIOUS
  <1>1. PowerUpTypeOK
    <2>1. callbacks \in Seq({"restore", "update"})
      <3>1. << >> \in Seq({"restore", "update"}) /\ <<"restore">> \in Seq({"restore", "update"})
        OBVIOUS
      <3>2. QED BY <3>1 DEF PowerUpInit
    <2>2. stream \in [Waiters -> Seq({"on", "off", "other"})]
      <3>1. << >> \in Seq({"on", "off", "other"})
        OBVIOUS
      <3>2. QED BY <3>1 DEF PowerUpInit
    <2>3. changes \in 0..MaxChanges /\ others \in 0..MaxOthers
      BY PowerUpAssumption DEF PowerUpInit
    <2>4. QED BY <2>1, <2>2, <2>3 DEF PowerUpInit, PowerUpTypeOK
  <1>2. WatchTold /\ NoMissedPower
    BY DEF PowerUpInit, WatchTold, NoMissedPower
  <1>3. RestoreFirst
    BY DEF PowerUpInit, RestoreFirst
  <1>4. QED BY <1>1, <1>2, <1>3 DEF PowerUpInv

LEMMA PowerUpStep == PowerUpInv /\ [PowerUpNext]_powerUpVars => PowerUpInv'
  <1> SUFFICES ASSUME PowerUpInv, [PowerUpNext]_powerUpVars PROVE PowerUpInv'
    OBVIOUS
  <1> USE DEF PowerUpInv, managerVars, startVars, waiterVars
  <1>1. CASE StateChanges
    <2>1. PowerUpTypeOK'
      <3>1. changes' \in 0..MaxChanges
        BY <1>1, PowerUpAssumption DEF StateChanges, PowerUpTypeOK
      <3>2. QED BY <1>1, <3>1, UpdatePosted DEF StateChanges, PowerUpTypeOK
    <2>2. WatchTold' /\ NoMissedPower'
      BY <1>1, UpdatePosted DEF StateChanges, WatchTold, NoMissedPower
    <2>3. RestoreFirst'
      BY <1>1, UpdatePosted DEF StateChanges, RestoreFirst
    <2>4. QED BY <2>1, <2>2, <2>3
  <1>2. CASE CentralRestores \/ PeripheralRestores
    <2>1. PICK payload \in {"none", "held"} : Restores(payload)
      BY <1>2 DEF CentralRestores, PeripheralRestores
    <2>2. PowerUpTypeOK'
      BY <2>1, CallbackRuns DEF Restores, PowerUpTypeOK
    <2>3. UpdateComing => UpdateComing'
      BY <2>1, CallbackRuns DEF Restores
    <2>4. WatchTold' /\ NoMissedPower'
      BY <2>1, <2>3 DEF Restores, WatchTold, NoMissedPower
    <2>5. QED BY <2>1, <2>2, <2>4 DEF Restores, RestoreFirst
  <1>3. CASE DidUpdatePower
    <2>1. PowerUpTypeOK'
      BY <1>3, CallbackRuns DEF DidUpdatePower, PowerUpTypeOK
    <2>2. WatchTold' /\ NoMissedPower'
      BY <1>3 DEF DidUpdatePower, WatchTold, NoMissedPower
    <2>3. restored # "coming"
      BY <1>3 DEF DidUpdatePower, Runs, RestoreFirst
    <2>4. QED BY <1>3, <2>1, <2>2, <2>3 DEF DidUpdatePower, RestoreFirst
  <1>4. CASE EmitsState
    <2> DEFINE e == emitting
    <2>1. e \in {"on", "off", "other"} /\ Broadcast(e) /\ waiterPc' = waiterPc
      BY <1>4 DEF EmitsState, PowerUpTypeOK, Broadcast
    <2>2. /\ stream' \in [Waiters -> Seq({"on", "off", "other"})]
          /\ lagged' \subseteq Waiters /\ lagged \subseteq lagged'
      BY <2>1, Broadcasts
    <2>3. PowerUpTypeOK'
      BY <1>4, <2>1, <2>2 DEF EmitsState, PowerUpTypeOK
    <2>4. UpdateComing' = UpdateComing
      BY <1>4 DEF EmitsState, UpdateComing
    <2>5. ASSUME NEW w \in Waiters \ lagged', state = "on", waiterPc[w] = "parked"
          PROVE  (\E j \in DOMAIN stream'[w] : stream'[w][j] = "on") \/ UpdateComing
      <3>1. CASE \E i \in DOMAIN stream[w] : stream[w][i] = "on"
        BY <3>1, <2>1, <2>5, Broadcasts
      <3>2. CASE emitting = "on"
        BY <3>2, <2>1, <2>5, Broadcasts
      <3>3. QED BY <3>1, <3>2, <2>2, <2>5 DEF NoMissedPower
    <2>6. WatchTold' /\ NoMissedPower'
      BY <1>4, <2>1, <2>4, <2>5 DEF EmitsState, WatchTold, NoMissedPower
    <2>7. QED BY <1>4, <2>3, <2>6 DEF EmitsState, RestoreFirst
  <1>5. CASE EmitsOther
    <2>1. Broadcast("other") /\ waiterPc' = waiterPc
      BY <1>5 DEF EmitsOther, Broadcast
    <2>2. /\ stream' \in [Waiters -> Seq({"on", "off", "other"})]
          /\ lagged' \subseteq Waiters /\ lagged \subseteq lagged'
          /\ \A w \in Waiters \ lagged' : \A i \in DOMAIN stream[w] :
               \E j \in DOMAIN stream'[w] : stream'[w][j] = stream[w][i]
      BY <2>1, Broadcasts
    <2>3. PowerUpTypeOK'
      <3>1. others' \in 0..MaxOthers
        BY <1>5, PowerUpAssumption DEF EmitsOther, PowerUpTypeOK
      <3>2. QED BY <1>5, <2>1, <2>2, <3>1 DEF EmitsOther, PowerUpTypeOK
    <2>4. UpdateComing' = UpdateComing
      BY <1>5 DEF EmitsOther, UpdateComing
    <2>5. ASSUME NEW w \in Waiters \ lagged', state = "on", waiterPc[w] = "parked",
                 ~UpdateComing
          PROVE  \E j \in DOMAIN stream'[w] : stream'[w][j] = "on"
      BY <1>5, <2>2, <2>5 DEF EmitsOther, NoMissedPower
    <2>6. WatchTold' /\ NoMissedPower'
      BY <1>5, <2>1, <2>4, <2>5 DEF EmitsOther, WatchTold, NoMissedPower
    <2>7. QED BY <1>5, <2>3, <2>6 DEF EmitsOther, RestoreFirst
  <1>6. CASE \/ StartWakes \/ CentralLooks \/ CentralChecks \/ PeripheralLooks
             \/ StartTimesOut \/ TakeRestored
    <2> USE DEF StartWakes, CentralLooks, CentralChecks, PeripheralLooks, StartTimesOut,
              TakeRestored, SetStart
    <2>1. PowerUpTypeOK'
      BY <1>6 DEF PowerUpTypeOK
    <2>2. UpdateComing' = UpdateComing
      BY <1>6 DEF UpdateComing
    <2>3. WatchTold' /\ NoMissedPower'
      BY <1>6, <2>2 DEF WatchTold, NoMissedPower, PowerUpTypeOK
    <2>4. RestoreFirst'
      BY <1>6 DEF RestoreFirst
    <2>5. QED BY <2>1, <2>3, <2>4
  <1>7. ASSUME NEW w \in Waiters, Subscribes(w) \/ ReadsPower(w) \/ WaitTimesOut(w)
        PROVE  PowerUpInv'
    <2> USE DEF Subscribes, ReadsPower, WaitTimesOut, SetWaiter
    <2>1. PowerUpTypeOK'
      <3>1. PICK pc \in {"subscribed", "ready", "parked", "timedOut"} :
              waiterPc' = [waiterPc EXCEPT ![w] = pc]
        BY <1>7
      <3>2. waiterPc' \in [Waiters -> {"idle", "subscribed", "parked", "ready", "timedOut"}]
        BY <3>1 DEF PowerUpTypeOK
      <3>3. /\ UNCHANGED <<role, state, callbacks, emitting, changes, others>>
            /\ UNCHANGED <<watchOn, watchNew, startPc, byDeadline, restored, stream, lagged>>
        BY <1>7
      <3>4. QED BY <3>2, <3>3 DEF PowerUpTypeOK
    <2>2. UpdateComing' = UpdateComing
      BY <1>7 DEF UpdateComing
    <2>3. WatchTold' /\ NoMissedPower'
      <3>1. WatchTold'
        BY <1>7, <2>2 DEF WatchTold
      <3>2. ASSUME NEW v \in Waiters, waiterPc'[v] = "parked", state = "on"
            PROVE  waiterPc[v] = "parked"
        BY <1>7, <3>2 DEF PowerUpTypeOK
      <3>3. NoMissedPower'
        BY <1>7, <2>2, <3>2 DEF NoMissedPower
      <3>4. QED BY <3>1, <3>3
    <2>4. RestoreFirst'
      BY <1>7 DEF RestoreFirst
    <2>5. QED BY <2>1, <2>3, <2>4
  <1>8. ASSUME NEW w \in Waiters, ReceivesEvent(w)
        PROVE  PowerUpInv'
    <2>1. /\ stream[w] \in Seq({"on", "off", "other"}) /\ stream[w] # << >>
          /\ stream'[w] = Tail(stream[w])
          /\ \A v \in Waiters \ {w} : stream'[v] = stream[v] /\ waiterPc'[v] = waiterPc[v]
      BY <1>8 DEF ReceivesEvent, SetWaiter, PowerUpTypeOK
    <2>2. PowerUpTypeOK'
      <3>1. Tail(stream[w]) \in Seq({"on", "off", "other"})
        BY <2>1, OthersStay
      <3>2. QED BY <1>8, <3>1 DEF ReceivesEvent, SetWaiter, PowerUpTypeOK
    <2>3. UpdateComing' = UpdateComing
      BY <1>8 DEF ReceivesEvent, UpdateComing
    <2>4. ASSUME waiterPc'[w] = "parked", NEW i \in DOMAIN stream[w], stream[w][i] = "on"
          PROVE  \E j \in DOMAIN stream'[w] : stream'[w][j] = "on"
      <3>1. Head(stream[w]) # "on"
        BY <1>8, <2>4 DEF ReceivesEvent, SetWaiter, PowerUpTypeOK
      <3>2. QED BY <2>1, <2>4, <3>1, OthersStay
    <2>5. WatchTold' /\ NoMissedPower'
      <3>1. waiterPc[w] = "parked"
        BY <1>8 DEF ReceivesEvent
      <3>2. QED BY <1>8, <2>1, <2>3, <2>4, <3>1 DEF ReceivesEvent, WatchTold, NoMissedPower
    <2>6. QED BY <1>8, <2>2, <2>5 DEF ReceivesEvent, RestoreFirst
  <1>9. CASE UNCHANGED powerUpVars
    BY <1>9 DEF powerUpVars, PowerUpTypeOK, WatchTold, NoMissedPower, RestoreFirst,
                UpdateComing
  <1>10. QED
    BY <1>1, <1>2, <1>3, <1>4, <1>5, <1>6, <1>7, <1>8, <1>9 DEF PowerUpNext

THEOREM PowerUpInductive == PowerUpSpec => []PowerUpInv
  <1>1. QED BY PowerUpInitInv, PowerUpStep, PTL DEF PowerUpSpec

\* Every variable has its type in every reachable state.
THEOREM PowerUpTypeCorrect == PowerUpSpec => []PowerUpTypeOK
  <1>1. PowerUpInv => PowerUpTypeOK
    BY DEF PowerUpInv
  <1>2. QED BY <1>1, PowerUpInductive, PTL

\* Whoever waits for the adapter has the news that it is on, or has it to come, unless
\* its event stream lagged: with_config() and wait_ready() lose no wake-up.
THEOREM PowerIsNotMissed == PowerUpSpec => []NoMissedPower
  <1>1. PowerUpInv => NoMissedPower
    BY DEF PowerUpInv
  <1>2. QED BY <1>1, PowerUpInductive, PTL

\* What the system restored is there when with_config() returns Ok, unless it returned
\* at its deadline.
THEOREM RestorationIsInTime == PowerUpSpec => []RestoredInTime
  <1>1. PowerUpInv => RestoredInTime
    BY DEF PowerUpInv, RestoreFirst, RestoredInTime
  <1>2. QED BY <1>1, PowerUpInductive, PTL

(***************************************************************************)
(* Requests.                                                               *)
(***************************************************************************)

\* How far the callback of a request is with its parts.
EmittedSoFar ==
  \A a \in Asks :
    /\ emitted[a] <= size[a]
    /\ askPc[a] = "idle" => emitted[a] = 0
    /\ askPc[a] = "awaiting" => emitted[a] = size[a]
    /\ \A i \in 1..MaxParts : part[<<a, i>>] = "none" <=> i > emitted[a]

\* How far its task is with their responders.
Before(a) == {i \in 1..size[a] : i < awaited[a]}

AwaitedOf(a) ==
  /\ awaited[a] <= size[a] + 1
  /\ askPc[a] \in {"idle", "emitting"} => awaited[a] = 1
  /\ \A i \in Before(a) : Answered(<<a, i>>)
  /\ success[a] => \A i \in Before(a) : part[<<a, i>>] = "accepted"
  /\ ~success[a] => \E i \in Before(a) : part[<<a, i>>] = "refused"

AwaitedSoFar == \A a \in Asks : AwaitedOf(a)

\* What it told its central.
Told ==
  \A a \in Asks :
    /\ response[a] = "none" <=> askPc[a] # "responded"
    /\ a \in malformed => askPc[a] = "responded"
    /\ askPc[a] = "responded" /\ a \notin malformed =>
         /\ awaited[a] = size[a] + 1
         /\ response[a] = IF success[a] THEN "success" ELSE "error"

\* The channel holds each part that is queued, once, and nothing else.
ChannelOnce ==
  /\ \A k \in DOMAIN channel : part[channel[k]] = "queued"
  /\ \A j, k \in DOMAIN channel : channel[j] = channel[k] => j = k
  /\ \A p \in Parts : part[p] = "queued" => \E k \in DOMAIN channel : channel[k] = p
  /\ reader = "dropped" => channel = << >>

AttInv == AttTypeOK /\ EmittedSoFar /\ AwaitedSoFar /\ Told /\ ChannelOnce


LEMMA AttInitInv == AttInit => AttInv
  <1> SUFFICES ASSUME AttInit PROVE AttInv
    OBVIOUS
  <1> USE AttAssumption DEF AttInit
  <1>1. AttTypeOK
    <2>1. channel \in Seq(Parts)
      OBVIOUS
    <2>2. part \in [Parts -> {"none", "queued", "held", "accepted", "refused"}]
      OBVIOUS
    <2>3. QED BY <2>1, <2>2 DEF AttTypeOK
  <1>2. \A a \in Asks, i \in 1..MaxParts : part[<<a, i>>] = "none"
    BY DEF Parts
  <1>3. EmittedSoFar /\ Told
    BY <1>2 DEF EmittedSoFar, Told
  <1>4. AwaitedSoFar
    <2>1. ASSUME NEW a \in Asks PROVE AwaitedOf(a)
      <3>1. awaited[a] = 1 /\ size[a] = 1 /\ success[a] /\ Before(a) = {}
        BY DEF Before
      <3>2. QED BY <3>1 DEF AwaitedOf
    <2>2. QED BY <2>1 DEF AwaitedSoFar
  <1>5. ChannelOnce
    BY DEF ChannelOnce
  <1>6. QED BY <1>1, <1>3, <1>4, <1>5 DEF AttInv

\* Each part has a state of its own.
LEMMA PartsApart ==
  ASSUME AttTypeOK, NEW p \in Parts, NEW v, part' = [part EXCEPT ![p] = v]
  PROVE  /\ part'[p] = v
         /\ \A q \in Parts : q # p => part'[q] = part[q]
  BY DEF AttTypeOK

\* A task whose place and parts are left alone is where it was.
LEMMA TaskRests ==
  ASSUME NEW a \in Asks, AwaitedOf(a), size'[a] = size[a], awaited'[a] = awaited[a],
         success'[a] = success[a], part' = part,
         askPc'[a] \in {"idle", "emitting"} => awaited[a] = 1
  PROVE  AwaitedOf(a)'
  <1>1. Before(a)' = Before(a)
    BY DEF Before
  <1>2. QED BY <1>1 DEF AwaitedOf, Answered

\* The callback of a request, up to the response to a malformed one.
LEMMA CallbackStep ==
  ASSUME AttInv, NEW a \in Asks, Arrives(a) \/ Malformed(a) \/ Spawns(a)
  PROVE  AttInv'
  <1> USE AttAssumption DEF AttInv, partVars, Arrives, Malformed, Spawns
  <1>1. AttTypeOK'
    BY ZenonT(20) DEF AttTypeOK
  <1>2. EmittedSoFar'
    BY DEF EmittedSoFar, AttTypeOK
  <1>3. AwaitedSoFar'
    <2>1. ASSUME NEW b \in Asks, b # a PROVE AwaitedOf(b)'
      <3>1. /\ AwaitedOf(b) /\ size'[b] = size[b] /\ awaited'[b] = awaited[b]
            /\ success'[b] = success[b] /\ part' = part
            /\ askPc'[b] \in {"idle", "emitting"} => awaited[b] = 1
        BY <2>1 DEF AwaitedSoFar, AwaitedOf, AttTypeOK
      <3>2. QED BY <3>1, TaskRests
    <2>2. AwaitedOf(a)'
      <3>1. CASE Arrives(a)
        <4>1. AwaitedOf(a) /\ awaited[a] = 1 /\ Before(a) = {}
          BY <3>1 DEF AwaitedSoFar, AwaitedOf, Before
        <4>2. success[a] /\ awaited'[a] = 1 /\ success'[a] /\ size'[a] \in 1..MaxParts
          BY <3>1, <4>1 DEF AwaitedOf, AttTypeOK
        <4>3. Before(a)' = {}
          BY <4>2 DEF Before
        <4>4. QED BY <4>2, <4>3 DEF AwaitedOf
      <3>2. CASE Malformed(a) \/ Spawns(a)
        <4>1. /\ AwaitedOf(a) /\ size'[a] = size[a] /\ awaited'[a] = awaited[a]
              /\ success'[a] = success[a] /\ part' = part
              /\ askPc'[a] \in {"idle", "emitting"} => awaited[a] = 1
          BY <3>2 DEF AwaitedSoFar, AwaitedOf, AttTypeOK
        <4>2. QED BY <4>1, TaskRests
      <3>3. QED BY <3>1, <3>2
    <2>3. QED BY <2>1, <2>2 DEF AwaitedSoFar
  <1>4. Told'
    BY DEF Told, AttTypeOK
  <1>5. ChannelOnce'
    BY DEF ChannelOnce
  <1>6. QED BY <1>1, <1>2, <1>3, <1>4, <1>5

\* The task of a request.
LEMMA TaskStep ==
  ASSUME AttInv, NEW a \in Asks, Awaits(a) \/ Responds(a)
  PROVE  AttInv'
  <1> USE AttAssumption DEF AttInv, partVars, Awaits, Responds
  <1>1. /\ awaited[a] \in Nat /\ size[a] \in Nat /\ 1 <= awaited[a] /\ size[a] <= MaxParts
        /\ awaited[a] <= size[a] + 1
    BY DEF AttTypeOK, AwaitedSoFar, AwaitedOf
  <1>2. AttTypeOK'
    <2>1. awaited' \in [Asks -> 1..(MaxParts + 1)]
      <3>1. CASE Awaits(a)
        <4>1. awaited[a] + 1 \in 1..(MaxParts + 1)
          BY <3>1, <1>1
        <4>2. QED BY <3>1, <4>1 DEF AttTypeOK
      <3>2. QED BY <3>1 DEF AttTypeOK
    <2>2. QED BY <2>1 DEF AttTypeOK
  <1>3. EmittedSoFar'
    BY DEF EmittedSoFar, AttTypeOK
  <1>4. AwaitedSoFar'
    <2>1. ASSUME NEW b \in Asks, b # a PROVE AwaitedOf(b)'
      <3>1. /\ AwaitedOf(b) /\ size'[b] = size[b] /\ awaited'[b] = awaited[b]
            /\ success'[b] = success[b] /\ part' = part
            /\ askPc'[b] \in {"idle", "emitting"} => awaited[b] = 1
        BY <2>1 DEF AwaitedSoFar, AwaitedOf, AttTypeOK
      <3>2. QED BY <3>1, TaskRests
    <2>2. AwaitedOf(a)'
      <3>1. CASE Awaits(a)
        <4>1. /\ awaited'[a] = awaited[a] + 1 /\ awaited[a] \in 1..size[a]
              /\ success'[a] = (success[a] /\ part[<<a, awaited[a]>>] = "accepted")
              /\ part' = part /\ size' = size /\ askPc' = askPc /\ askPc[a] = "awaiting"
              /\ part[<<a, awaited[a]>>] \in {"accepted", "refused"}
          BY <3>1, <1>1 DEF AttTypeOK, Answered
        <4>2. Before(a)' = Before(a) \cup {awaited[a]}
          BY <4>1, <1>1 DEF Before
        <4>3. awaited'[a] <= size'[a] + 1
          BY <4>1, <1>1
        <4>4. QED BY <4>1, <4>2, <4>3 DEF AwaitedSoFar, AwaitedOf, Answered
      <3>2. CASE Responds(a)
        <4>1. /\ AwaitedOf(a) /\ size'[a] = size[a] /\ awaited'[a] = awaited[a]
              /\ success'[a] = success[a] /\ part' = part
              /\ askPc'[a] \in {"idle", "emitting"} => awaited[a] = 1
          BY <3>2 DEF AwaitedSoFar, AwaitedOf, AttTypeOK
        <4>2. QED BY <4>1, TaskRests
      <3>3. QED BY <3>1, <3>2
    <2>3. QED BY <2>1, <2>2 DEF AwaitedSoFar
  <1>5. Told'
    <2>1. CASE Awaits(a)
      BY <2>1 DEF Told, AttTypeOK
    <2>2. CASE Responds(a)
      <3>1. awaited[a] = size[a] + 1
        BY <2>2, <1>1
      <3>2. QED BY <2>2, <3>1 DEF Told, AttTypeOK
    <2>3. QED BY <2>1, <2>2
  <1>6. ChannelOnce'
    BY DEF ChannelOnce
  <1>7. QED BY <1>2, <1>3, <1>4, <1>5, <1>6

\* What a change of parts keeps: a part that is answered stays so, and one that was
\* emitted stays emitted.
LEMMA PartsMove ==
  ASSUME AttInv, UNCHANGED relayVars, UNCHANGED emitted,
         \A p \in Parts : part[p] = "none" <=> part'[p] = "none",
         \A p \in Parts : Answered(p) => part'[p] = part[p]
  PROVE  EmittedSoFar' /\ AwaitedSoFar' /\ Told'
  <1> USE AttAssumption DEF AttInv, relayVars
  <1>1. \A a \in Asks, i \in 1..MaxParts : <<a, i>> \in Parts
    BY DEF Parts
  <1>2. EmittedSoFar'
    BY <1>1 DEF EmittedSoFar
  <1>3. ASSUME NEW a \in Asks PROVE AwaitedOf(a)'
    <2>1. AwaitedOf(a) /\ Before(a)' = Before(a)
      BY DEF AwaitedSoFar, Before
    <2>2. \A i \in Before(a) : <<a, i>> \in Parts
      BY <1>1 DEF Before, AttTypeOK
    <2>3. \A i \in Before(a) : part'[<<a, i>>] = part[<<a, i>>] /\ Answered(<<a, i>>)
      BY <2>1, <2>2 DEF AwaitedOf
    <2>4. QED BY <2>1, <2>3 DEF AwaitedOf, Answered
  <1>4. Told'
    BY DEF Told
  <1>5. QED BY <1>2, <1>3, <1>4 DEF AwaitedSoFar

\* emit_request().
LEMMA EmitStep ==
  ASSUME AttInv, NEW a \in Asks, Emit(a)
  PROVE  AttInv'
  <1> DEFINE p == <<a, emitted[a] + 1>>
             v == IF reader = "dropped" THEN "refused" ELSE "queued"
  <1> USE AttAssumption DEF AttInv
  <1>1. /\ emitted[a] \in Nat /\ size[a] \in 1..MaxParts /\ emitted[a] < size[a]
        /\ emitted' = [emitted EXCEPT ![a] = @ + 1] /\ UNCHANGED <<relayVars, reader>>
        /\ part' = [part EXCEPT ![p] = v]
        /\ channel' = IF reader = "dropped" THEN channel ELSE Append(channel, p)
        /\ askPc[a] = "emitting"
    BY DEF Emit, AttTypeOK
  <1>2. p \in Parts /\ emitted[a] + 1 \in 1..MaxParts
    BY <1>1 DEF Parts
  <1>3. part[p] = "none"
    BY <1>1, <1>2 DEF EmittedSoFar
  <1>4. part'[p] = v /\ \A q \in Parts : q # p => part'[q] = part[q]
    BY <1>1, <1>2, PartsApart
  <1>5. AttTypeOK'
    <2>1. emitted' \in [Asks -> 0..MaxParts]
      BY <1>1, <1>2 DEF AttTypeOK
    <2>2. channel' \in Seq(Parts)
      BY <1>1, <1>2 DEF AttTypeOK
    <2>3. part' \in [Parts -> {"none", "queued", "held", "accepted", "refused"}]
      BY <1>1, <1>2 DEF AttTypeOK
    <2>4. QED BY <1>1, <2>1, <2>2, <2>3 DEF AttTypeOK, relayVars
  <1>6. EmittedSoFar'
    <2> SUFFICES ASSUME NEW b \in Asks
                 PROVE  /\ emitted'[b] <= size'[b]
                        /\ askPc'[b] = "idle" => emitted'[b] = 0
                        /\ askPc'[b] = "awaiting" => emitted'[b] = size'[b]
                        /\ \A i \in 1..MaxParts : part'[<<b, i>>] = "none" <=> i > emitted'[b]
      BY DEF EmittedSoFar
    <2>1. CASE b # a
      <3>1. \A i \in 1..MaxParts : <<b, i>> \in Parts /\ <<b, i>> # p
        BY <2>1 DEF Parts
      <3>2. emitted'[b] = emitted[b] /\ size' = size /\ askPc' = askPc
        BY <2>1, <1>1 DEF AttTypeOK, relayVars
      <3>3. QED BY <3>1, <3>2, <1>4 DEF EmittedSoFar
    <2>2. CASE b = a
      <3>1. \A i \in 1..MaxParts : <<a, i>> \in Parts /\ (<<a, i>> = p <=> i = emitted[a] + 1)
        BY DEF Parts
      <3>2. emitted'[a] = emitted[a] + 1 /\ size' = size /\ askPc' = askPc
        BY <1>1 DEF AttTypeOK, relayVars
      <3>3. \A i \in 1..MaxParts : part'[<<a, i>>] = "none" <=> i > emitted[a] + 1
        <4>1. ASSUME NEW i \in 1..MaxParts
              PROVE  part'[<<a, i>>] = "none" <=> i > emitted[a] + 1
          <5>1. part[<<a, i>>] = "none" <=> i > emitted[a]
            BY DEF EmittedSoFar
          <5>2. CASE i = emitted[a] + 1
            <6>1. <<a, i>> = p /\ v # "none"
              BY <5>2
            <6>2. QED BY <6>1, <5>2, <1>1, <1>4
          <5>3. CASE i # emitted[a] + 1
            <6>1. part'[<<a, i>>] = part[<<a, i>>]
              BY <5>3, <3>1, <1>4
            <6>2. QED BY <6>1, <5>1, <5>3, <1>1
          <5>4. QED BY <5>2, <5>3
        <4>2. QED BY <4>1
      <3>4. QED BY <2>2, <3>2, <3>3, <1>1
    <2>3. QED BY <2>1, <2>2
  <1>7. AwaitedSoFar'
    <2>1. ASSUME NEW b \in Asks PROVE AwaitedOf(b)'
      <3>1. AwaitedOf(b) /\ Before(b)' = Before(b)
        BY <1>1 DEF AwaitedSoFar, Before, relayVars
      <3>2. \A i \in Before(b) : <<b, i>> \in Parts /\ Answered(<<b, i>>)
        BY <3>1 DEF AwaitedOf, Before, Parts, AttTypeOK
      <3>3. \A i \in Before(b) : part'[<<b, i>>] = part[<<b, i>>]
        BY <3>2, <1>3, <1>4 DEF Answered
      <3>4. QED BY <3>1, <3>2, <3>3, <1>1 DEF AwaitedOf, Answered, relayVars
    <2>2. QED BY <2>1 DEF AwaitedSoFar
  <1>8. Told'
    BY <1>1 DEF Told, relayVars
  <1>9. ChannelOnce'
    <2>1. CASE reader = "dropped"
      <3>1. channel' = channel /\ channel = << >> /\ reader' = reader /\ part'[p] = "refused"
        BY <2>1, <1>1, <1>4 DEF ChannelOnce
      <3>2. QED BY <3>1, <1>4 DEF ChannelOnce
    <2>2. CASE reader # "dropped"
      <3>1. channel' = Append(channel, p) /\ reader' = reader /\ part'[p] = "queued"
        BY <2>2, <1>1, <1>4
      <3>2. /\ DOMAIN channel' = DOMAIN channel \cup {Len(channel) + 1}
            /\ Len(channel) + 1 \notin DOMAIN channel
            /\ channel'[Len(channel) + 1] = p
            /\ \A k \in DOMAIN channel : channel'[k] = channel[k] /\ channel[k] \in Parts
        BY <3>1, <1>2 DEF AttTypeOK
      <3>3. \A k \in DOMAIN channel : channel[k] # p
        BY <1>3 DEF ChannelOnce
      <3>4. \A k \in DOMAIN channel' : part'[channel'[k]] = "queued"
        BY <3>1, <3>2, <3>3, <1>4 DEF ChannelOnce
      <3>5. \A j, k \in DOMAIN channel' : channel'[j] = channel'[k] => j = k
        BY <3>2, <3>3 DEF ChannelOnce
      <3>6. ASSUME NEW q \in Parts, part'[q] = "queued"
            PROVE  \E k \in DOMAIN channel' : channel'[k] = q
        <4>1. CASE q = p
          BY <4>1, <3>2
        <4>2. CASE q # p
          <5>1. PICK k \in DOMAIN channel : channel[k] = q
            BY <4>2, <3>6, <1>4 DEF ChannelOnce
          <5>2. QED BY <5>1, <3>2
        <4>3. QED BY <4>1, <4>2
      <3>7. QED BY <3>1, <3>4, <3>5, <3>6, <2>2 DEF ChannelOnce
    <2>3. QED BY <2>1, <2>2
  <1>10. QED BY <1>5, <1>6, <1>7, <1>8, <1>9

\* The application, which takes no part of what the callbacks and the tasks keep.
LEMMA ApplicationStep ==
  ASSUME AttInv,
         TakesRequests \/ Receives \/ DropsRequests \/ \E p \in Parts : Answers(p)
  PROVE  AttInv'
  <1> USE DEF AttInv
  <1> DEFINE States == {"none", "queued", "held", "accepted", "refused"}
  <1>1. CASE TakesRequests
    <2>1. UNCHANGED <<relayVars, emitted, part, channel>> /\ reader = "untaken"
          /\ reader' = "taken"
      BY <1>1 DEF TakesRequests
    <2>2. AttTypeOK'
      BY <2>1 DEF AttTypeOK, relayVars
    <2>3. EmittedSoFar' /\ AwaitedSoFar' /\ Told'
      BY <2>1, PartsMove
    <2>4. QED BY <2>1, <2>2, <2>3 DEF ChannelOnce
  <1>2. CASE Receives
    <2> DEFINE p == Head(channel)
    <2>1. /\ channel \in Seq(Parts) /\ channel # << >> /\ p \in Parts /\ p = channel[1]
          /\ 1 \in DOMAIN channel
          /\ part' = [part EXCEPT ![p] = "held"] /\ channel' = Tail(channel)
          /\ UNCHANGED <<relayVars, emitted, reader>> /\ reader = "taken"
      BY <1>2 DEF Receives, AttTypeOK
    <2>2. part[p] = "queued" /\ part'[p] = "held" /\ \A q \in Parts : q # p => part'[q] = part[q]
      BY ZenonT(20), <2>1, PartsApart DEF ChannelOnce
    <2>3. AttTypeOK'
      <3>1. channel' \in Seq(Parts) /\ part' \in [Parts -> States]
        BY <2>1 DEF AttTypeOK
      <3>2. QED BY <2>1, <3>1 DEF AttTypeOK, relayVars
    <2>4. EmittedSoFar' /\ AwaitedSoFar' /\ Told'
      BY <2>1, <2>2, PartsMove DEF Answered
    <2>5. ChannelOnce'
      <3>1. \A k \in DOMAIN channel' :
              k + 1 \in DOMAIN channel /\ channel'[k] = channel[k + 1] /\ k + 1 # 1
              /\ channel[k + 1] \in Parts
        BY <2>1
      <3>2. \A k \in DOMAIN channel : k # 1 =>
              k - 1 \in DOMAIN channel' /\ channel'[k - 1] = channel[k]
        BY <2>1
      <3>3. \A k \in DOMAIN channel' : part'[channel'[k]] = "queued"
        <4>1. ASSUME NEW k \in DOMAIN channel' PROVE part'[channel'[k]] = "queued"
          <5>1. channel[k + 1] # p
            BY <2>1, <3>1 DEF ChannelOnce
          <5>2. QED BY <5>1, <3>1, <2>2 DEF ChannelOnce
        <4>2. QED BY <4>1
      <3>4. \A j, k \in DOMAIN channel' : channel'[j] = channel'[k] => j = k
        <4>1. ASSUME NEW j \in DOMAIN channel', NEW k \in DOMAIN channel',
                     channel'[j] = channel'[k]
              PROVE  j = k
          <5>1. j + 1 = k + 1
            BY <4>1, <3>1 DEF ChannelOnce
          <5>2. j \in Nat /\ k \in Nat
            BY <2>1
          <5>3. QED BY <5>1, <5>2
        <4>2. QED BY <4>1
      <3>5. ASSUME NEW q \in Parts, part'[q] = "queued"
            PROVE  \E k \in DOMAIN channel' : channel'[k] = q
        <4>1. q # p /\ part[q] = "queued"
          BY <3>5, <2>2
        <4>2. PICK k \in DOMAIN channel : channel[k] = q
          BY <4>1 DEF ChannelOnce
        <4>3. QED BY <4>1, <4>2, <3>2, <2>1
      <3>6. QED BY <3>3, <3>4, <3>5, <2>1 DEF ChannelOnce
    <2>6. QED BY <2>3, <2>4, <2>5
  <1>3. CASE DropsRequests
    <2>1. /\ part' = [p \in Parts |-> IF part[p] = "queued" THEN "refused" ELSE part[p]]
          /\ channel' = << >> /\ UNCHANGED <<relayVars, emitted>> /\ reader' = "dropped"
      BY <1>3 DEF DropsRequests
    <2>2. AttTypeOK'
      <3>1. channel' \in Seq(Parts) /\ part' \in [Parts -> States]
        BY <2>1 DEF AttTypeOK
      <3>2. QED BY <2>1, <3>1 DEF AttTypeOK, relayVars
    <2>3. EmittedSoFar' /\ AwaitedSoFar' /\ Told'
      BY <2>1, PartsMove DEF Answered
    <2>4. ChannelOnce'
      BY <2>1 DEF ChannelOnce
    <2>5. QED BY <2>2, <2>3, <2>4
  <1>4. ASSUME NEW p \in Parts, Answers(p)
        PROVE  AttInv'
    <2>1. PICK v \in {"accepted", "refused"} : part' = [part EXCEPT ![p] = v]
      BY <1>4 DEF Answers
    <2>2. part[p] = "held" /\ UNCHANGED <<relayVars, emitted, channel, reader>>
      BY <1>4 DEF Answers
    <2>3. part'[p] = v /\ \A q \in Parts : q # p => part'[q] = part[q]
      BY <2>1, PartsApart
    <2>4. AttTypeOK'
      <3>1. part' \in [Parts -> States]
        BY <2>1 DEF AttTypeOK
      <3>2. QED BY <2>2, <3>1 DEF AttTypeOK, relayVars
    <2>5. EmittedSoFar' /\ AwaitedSoFar' /\ Told'
      BY <2>2, <2>3, PartsMove DEF Answered
    <2>6. ChannelOnce'
      <3>1. \A k \in DOMAIN channel : channel[k] \in Parts /\ channel[k] # p
        BY <2>2 DEF ChannelOnce, AttTypeOK
      <3>2. QED BY <3>1, <2>2, <2>3 DEF ChannelOnce
    <2>7. QED BY <2>4, <2>5, <2>6
  <1>5. QED BY <1>1, <1>2, <1>3, <1>4

LEMMA AttStep == AttInv /\ [AttNext]_attVars => AttInv'
  <1> SUFFICES ASSUME AttInv, [AttNext]_attVars PROVE AttInv'
    OBVIOUS
  <1>1. CASE AttNext
    BY <1>1, CallbackStep, EmitStep, TaskStep, ApplicationStep DEF AttNext
  <1>2. CASE UNCHANGED attVars
    <2>1. UNCHANGED relayVars /\ UNCHANGED <<emitted, part, channel, reader>>
      BY <1>2 DEF attVars, partVars
    <2>2. EmittedSoFar' /\ AwaitedSoFar' /\ Told'
      BY <2>1, PartsMove
    <2>3. QED BY <2>1, <2>2 DEF relayVars, AttInv, AttTypeOK, ChannelOnce
  <1>3. QED BY <1>1, <1>2

THEOREM AttInductive == AttSpec => []AttInv
  <1>1. QED BY AttInitInv, AttStep, PTL DEF AttSpec

\* Every variable has its type in every reachable state.
THEOREM AttTypeCorrect == AttSpec => []AttTypeOK
  <1>1. AttInv => AttTypeOK
    BY DEF AttInv
  <1>2. QED BY <1>1, AttInductive, PTL

\* A central is told of success only when the application accepted every part of its
\* request, and of an error only when all were answered and one refused.
THEOREM ResponsesAreEarned == AttSpec => []ResponseIsEarned
  <1>1. ASSUME AttInv PROVE ResponseIsEarned
    <2>1. ASSUME NEW a \in Asks \ malformed, response[a] # "none"
          PROVE  /\ \A i \in 1..size[a] : Answered(<<a, i>>)
                 /\ response[a] = IF success[a] THEN "success" ELSE "error"
                 /\ success[a] => \A i \in 1..size[a] : part[<<a, i>>] = "accepted"
                 /\ ~success[a] => \E i \in 1..size[a] : part[<<a, i>>] = "refused"
      <3>1. AwaitedOf(a) /\ awaited[a] = size[a] + 1 /\ size[a] \in Nat
            /\ response[a] = IF success[a] THEN "success" ELSE "error"
        BY <1>1, <2>1 DEF AttInv, Told, AwaitedSoFar, AttTypeOK
      <3>2. Before(a) = 1..size[a]
        BY <3>1 DEF Before
      <3>3. QED BY <3>1, <3>2 DEF AwaitedOf
    <2>2. ASSUME NEW a \in Asks \ malformed
          PROVE  success[a] \in BOOLEAN
      BY <1>1 DEF AttInv, AttTypeOK
    <2>3. QED BY <2>1, <2>2 DEF ResponseIsEarned
  <1>2. QED BY <1>1, AttInductive, PTL

\* A request without a response has, for each part that waits, somebody who can answer
\* it: no responder is lost.
THEOREM ResponsesAreOwed == AttSpec => []ResponseIsOwed
  <1>1. ASSUME AttInv PROVE ResponseIsOwed
    <2>1. ASSUME NEW a \in Asks, NEW i \in 1..emitted[a], ~Answered(<<a, i>>)
          PROVE  \/ part[<<a, i>>] = "held"
                 \/ reader # "dropped" /\ \E k \in DOMAIN channel : channel[k] = <<a, i>>
      <3>1. i \in 1..MaxParts /\ <<a, i>> \in Parts /\ ~(i > emitted[a])
        BY <1>1, <2>1, AttAssumption DEF AttInv, AttTypeOK, Parts
      <3>2. part[<<a, i>>] \in {"queued", "held"}
        BY <1>1, <2>1, <3>1 DEF AttInv, AttTypeOK, EmittedSoFar, Answered
      <3>3. QED BY <1>1, <3>1, <3>2 DEF AttInv, ChannelOnce
    <2>2. QED BY <2>1 DEF ResponseIsOwed
  <1>2. QED BY <1>1, AttInductive, PTL
=============================================================================
