-------------------------------- MODULE PowerUp --------------------------------
(***************************************************************************)
(* How a CoreBluetooth role comes up: with_config() of the central and of  *)
(* the peripheral (platform/apple/), which waits for the adapter; what the *)
(* system restored, which take_restored() hands out; and wait_ready() of   *)
(* the role built on it (central/mod.rs, peripheral/mod.rs), over an event *)
(* stream that drops its oldest events when it is read too slowly          *)
(* (util/event_stream.rs).                                                 *)
(*                                                                         *)
(* CoreBluetooth changes its state and posts a callback on the manager's   *)
(* serial queue; the calls read the state beside that queue.               *)
(***************************************************************************)
EXTENDS Integers, Sequences

CONSTANTS
  Waiters,    \* calls of wait_ready()
  Capacity,   \* events a stream keeps
  MaxChanges, \* bound: changes of the adapter
  MaxOthers   \* bound: events of other kinds

ASSUME PowerUpAssumption ==
  /\ Capacity \in Nat \ {0}
  /\ {MaxChanges, MaxOthers} \subseteq Nat

VARIABLES
  role,       \* what is made: "central" or "peripheral"
  state,      \* manager.state(): "unknown", "on", "off" or "denied"
  callbacks,  \* on the queue: "restore" and "update", in order
  emitting,   \* didUpdateState: has still to emit "on" or "off", or "nothing"
  watchOn,    \* the watch channel powered_tx: its value,
  watchNew,   \* and whether with_config() has yet to see it change
  startPc,    \* with_config(): "waiting", "looking", "checking", and how it ended
  byDeadline, \* it ended at its deadline
  restored,   \* the payload: "none", "coming", "held" or "taken"
  waiterPc,   \* wait_ready(): "idle", "subscribed", "parked", "ready", "timedOut"
  stream,     \* the event stream of each call
  lagged,     \* the calls whose stream dropped an event (history)
  changes, others \* so far

managerVars == <<role, state, callbacks, emitting, changes, others>>
startVars   == <<watchOn, watchNew, startPc, byDeadline, restored>>
waiterVars  == <<waiterPc, stream, lagged>>
powerUpVars == <<managerVars, startVars, waiterVars>>

PowerUpInit ==
  /\ role \in {"central", "peripheral"}
  /\ state = "unknown"
  /\ \/ restored = "none" /\ callbacks = <<>>
     \/ restored = "coming" /\ callbacks = <<"restore">>
  /\ emitting = "nothing"
  /\ watchOn = FALSE /\ watchNew = FALSE
  /\ startPc = "waiting" /\ byDeadline = FALSE
  /\ waiterPc = [w \in Waiters |-> "idle"]
  /\ stream = [w \in Waiters |-> <<>>]
  /\ lagged = {}
  /\ changes = 0 /\ others = 0

\* Something is on the queue to say what the state is.
UpdateComing == \E i \in DOMAIN callbacks : callbacks[i] = "update"

----------------------------------------------------------------------------
(* CoreBluetooth and the callbacks.                                         *)

StateChanges ==
  /\ changes < MaxChanges
  /\ changes' = changes + 1
  /\ \E s \in {"on", "off", "denied"} \ {state} : state' = s
  /\ callbacks' = Append(callbacks, "update")
  /\ UNCHANGED <<role, emitting, others, startVars, waiterVars>>

Runs(callback) ==
  /\ emitting = "nothing"
  /\ callbacks # <<>> /\ Head(callbacks) = callback
  /\ callbacks' = Tail(callbacks)

Restores(payload) ==
  /\ Runs("restore")
  /\ restored' = payload
  /\ UNCHANGED <<role, state, emitting, changes, others, watchOn, watchNew, startPc,
                 byDeadline, waiterVars>>

\* willRestoreState, before the first update: a central may find no peripherals in it.
CentralRestores ==
  role = "central" /\ \E payload \in {"none", "held"} : Restores(payload)

PeripheralRestores ==
  role = "peripheral" /\ Restores("held")

\* Mutant of DidUpdatePower: the streams are told only of what the watch channel has
\* not been told.
DidUpdateIfNew ==
  /\ Runs("update")
  /\ emitting' = IF watchOn = (state = "on") THEN "nothing"
                 ELSE IF state = "on" THEN "on" ELSE "off"
  /\ watchOn' = (state = "on")
  /\ watchNew' = TRUE
  /\ UNCHANGED <<role, state, changes, others, startPc, byDeadline, restored, waiterVars>>

\* didUpdateState: the watch channel is told, which counts as a change even of the same
\* value, ...  (What a peripheral without power forgets is in ApplePeripheral.)
DidUpdatePower ==
  /\ Runs("update")
  /\ emitting' = IF state = "on" THEN "on" ELSE "off"
  /\ watchOn' = (state = "on")
  /\ watchNew' = TRUE
  /\ UNCHANGED <<role, state, changes, others, startPc, byDeadline, restored, waiterVars>>

\* A stream that is full drops its oldest event, and says nothing of it.
Overflows(w) == waiterPc[w] # "idle" /\ Len(stream[w]) = Capacity

Broadcast(event) ==
  /\ stream' = [w \in Waiters |->
                  IF waiterPc[w] = "idle" THEN stream[w]
                  ELSE Append(IF Overflows(w) THEN Tail(stream[w]) ELSE stream[w], event)]
  /\ lagged' = lagged \cup {w \in Waiters : Overflows(w)}
  /\ UNCHANGED waiterPc

\* ... and then the event streams.
EmitsState ==
  /\ emitting # "nothing"
  /\ emitting' = "nothing"
  /\ Broadcast(emitting)
  /\ UNCHANGED <<role, state, callbacks, changes, others, startVars>>

\* A device discovered, a characteristic subscribed.
EmitsOther ==
  /\ emitting = "nothing"
  /\ others < MaxOthers
  /\ others' = others + 1
  /\ Broadcast("other")
  /\ UNCHANGED <<role, state, callbacks, emitting, changes, startVars>>

----------------------------------------------------------------------------
(* with_config().                                                           *)

SetStart(pc) == startPc' = pc /\ UNCHANGED <<watchOn, restored>>

\* Mutant of StartWakes: it looks before it has waited.
StartLooksFirst ==
  /\ startPc = "waiting"
  /\ watchNew' = FALSE
  /\ SetStart("looking")
  /\ UNCHANGED <<byDeadline, managerVars, waiterVars>>

\* powered_rx.changed().
StartWakes ==
  /\ startPc = "waiting" /\ watchNew
  /\ watchNew' = FALSE
  /\ SetStart("looking")
  /\ UNCHANGED <<byDeadline, managerVars, waiterVars>>

\* The central goes by what the channel holds, ...
CentralLooks ==
  /\ startPc = "looking" /\ role = "central"
  /\ SetStart(IF watchOn THEN "ok" ELSE "checking")
  /\ UNCHANGED <<watchNew, byDeadline, managerVars, waiterVars>>

\* ... and asks the manager only whether it may wait on.
CentralChecks ==
  /\ startPc = "checking"
  /\ SetStart(IF state = "denied" THEN "refused" ELSE "waiting")
  /\ UNCHANGED <<watchNew, byDeadline, managerVars, waiterVars>>

\* The peripheral asks the manager.
PeripheralLooks ==
  /\ startPc = "looking" /\ role = "peripheral"
  /\ SetStart(CASE state = "on" -> "ok"
                [] state = "denied" -> "refused"
                [] OTHER -> "waiting")
  /\ UNCHANGED <<watchNew, byDeadline, managerVars, waiterVars>>

StartTimesOut ==
  /\ startPc = "waiting"
  /\ byDeadline' = TRUE
  /\ SetStart(IF state = "on" THEN "ok" ELSE "unpowered")
  /\ UNCHANGED <<watchNew, managerVars, waiterVars>>

TakeRestored ==
  /\ startPc = "ok" /\ restored = "held"
  /\ restored' = "taken"
  /\ UNCHANGED <<watchOn, watchNew, startPc, byDeadline, managerVars, waiterVars>>

----------------------------------------------------------------------------
(* wait_ready().                                                            *)

SetWaiter(w, pc) == waiterPc' = [waiterPc EXCEPT ![w] = pc]

Subscribes(w) ==
  /\ startPc = "ok"
  /\ waiterPc[w] = "idle"
  /\ SetWaiter(w, "subscribed")
  /\ UNCHANGED <<stream, lagged, managerVars, startVars>>

\* is_powered(), which CoreBluetooth never fails.
ReadsPower(w) ==
  /\ waiterPc[w] = "subscribed"
  /\ SetWaiter(w, IF state = "on" THEN "ready" ELSE "parked")
  /\ UNCHANGED <<stream, lagged, managerVars, startVars>>

ReceivesEvent(w) ==
  /\ waiterPc[w] = "parked" /\ stream[w] # <<>>
  /\ SetWaiter(w, IF Head(stream[w]) = "on" THEN "ready" ELSE "parked")
  /\ stream' = [stream EXCEPT ![w] = Tail(@)]
  /\ UNCHANGED <<lagged, managerVars, startVars>>

\* Also with events it has not read.
WaitTimesOut(w) ==
  /\ waiterPc[w] = "parked"
  /\ SetWaiter(w, "timedOut")
  /\ UNCHANGED <<stream, lagged, managerVars, startVars>>

PowerUpNext ==
  \/ StateChanges \/ CentralRestores \/ PeripheralRestores
  \/ DidUpdatePower \/ EmitsState \/ EmitsOther
  \/ StartWakes \/ CentralLooks \/ CentralChecks \/ PeripheralLooks \/ StartTimesOut
  \/ TakeRestored
  \/ \E w \in Waiters : \/ Subscribes(w) \/ ReadsPower(w) \/ ReceivesEvent(w)
                        \/ WaitTimesOut(w)

PowerUpSpec == PowerUpInit /\ [][PowerUpNext]_powerUpVars

----------------------------------------------------------------------------
(* Properties.                                                              *)

\* Every variable has its type.
PowerUpTypeOK ==
  /\ role \in {"central", "peripheral"}
  /\ state \in {"unknown", "on", "off", "denied"}
  /\ callbacks \in Seq({"restore", "update"})
  /\ emitting \in {"nothing", "on", "off"}
  /\ watchOn \in BOOLEAN /\ watchNew \in BOOLEAN
  /\ startPc \in {"waiting", "looking", "checking", "ok", "refused", "unpowered"}
  /\ byDeadline \in BOOLEAN
  /\ restored \in {"none", "coming", "held", "taken"}
  /\ waiterPc \in [Waiters -> {"idle", "subscribed", "parked", "ready", "timedOut"}]
  /\ stream \in [Waiters -> Seq({"on", "off", "other"})]
  /\ lagged \subseteq Waiters
  /\ changes \in 0..MaxChanges /\ others \in 0..MaxOthers

\* While the adapter is on nobody waits for it unawares: with_config() and each
\* wait_ready() has the news before it, or it is on the queue.  Only a wait whose
\* stream dropped events may have lost it.
NoMissedPower ==
  state = "on" =>
    /\ startPc = "waiting" => watchNew \/ UpdateComing
    /\ \A w \in Waiters \ lagged :
         waiterPc[w] = "parked" =>
           \/ \E i \in DOMAIN stream[w] : stream[w][i] = "on"
           \/ emitting = "on" \/ UpdateComing

\* "Immediately after it returns, call take_restored": by the time with_config()
\* returns Ok what is to be restored is there, unless it returned at its deadline,
\* which does not wait for the queue.
RestoredInTime == startPc = "ok" /\ ~byDeadline => restored # "coming"
=============================================================================
