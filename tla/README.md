# blew in TLA+

A verification project for [blew](../src/README.md), a Rust library for Bluetooth Low
Energy with backends for Android (Rust and Kotlin), Linux (BlueZ) and Apple platforms.
TLC model-checks every module on small instances; TLAPS proves the safety properties for
every value of the constants. Paths below are relative to `src/crates/blew/`, and
`android/` stands for `android/src/main/java/org/jakebot/blew/`.

| file | what it is |
|---|---|
| `ConnectionContract.tla` | what an application is promised about one device address |
| `AndroidConnection.tla` | the Android connection life cycle, Rust and Kotlin together; implements the contract |
| `AndroidConnectionProofs.tla` | its theorems, proofs checked by TLAPS |
| `AndroidGattOps.tla` | GATT operations on one Android connection |
| `AndroidNotify.tla` | notifications from an Android peripheral to one device |
| `AndroidAdvertising.tla` | advertising from an Android peripheral, and the adapter rename it waits for |
| `AndroidGattServer.tla` | services, requests and subscriptions of an Android peripheral, and the adapter going off |
| `AndroidL2cap.tla` | L2CAP channels on Android |
| `LinuxCentral.tla` | connections, scans and subscriptions of a BlueZ central |
| `LinuxPeripheral.tla` | advertising and notify sessions of a BlueZ peripheral |
| `LinuxCentralProofs.tla`, `LinuxPeripheralProofs.tla` | theorems about each |
| `AndroidGattProofs.tla` | theorems about `AndroidGattOps`, `AndroidGattServer` and `MockLink` |
| `AndroidPeripheralProofs.tla` | theorems about `AndroidAdvertising`, `AndroidNotify` and `AndroidL2cap` |
| `AppleProofs.tla` | theorems about `ApplePeripheral` and `AppleCentral` |
| `AppleL2capProofs.tla` | theorems about `AppleL2cap` |
| `AppleCentral.tla` | connections, requests and writes without response of a CoreBluetooth central |
| `ApplePeripheral.tla` | requests in turns and notifications of a CoreBluetooth peripheral |
| `AppleL2cap.tla` | one L2CAP channel on Apple: application, bridge tasks, reactor, stream |
| `AttRequests.tla` | requests of centrals on Apple and BlueZ, from callback to response |
| `PowerUp.tla` | how a CoreBluetooth role comes up: power, restoration, `wait_ready` |
| `RequestsPowerProofs.tla` | theorems about these two |
| `MockLink.tla` | the in-memory backend applications test against |
| `MC*.tla`, `*.cfg` | the instances TLC checks |
| `PROJECT.json` | runs, mutants, source map, findings, hazards, theorems |

Check one run with `tlc -config AndroidConnection.cfg MCAndroidConnection.tla`, the proofs of a
component with `tlapm AndroidConnectionProofs.tla`; the eight `*Proofs.tla` take one to ten
minutes each.

## 1. Inventory

blew offers two roles, `Central` and `Peripheral`. Each is a thin generic facade over a
backend trait; a backend turns a callback-driven platform stack into futures and event
streams. Nothing in the facades keeps protocol state, so nearly all that can go wrong is
in the backends: which callback answers which future, and what happens to the rest
when a future is dropped, times out or is overtaken.

### Android central: connections (modelled)

- *State.* Rust: `ConnectAttempts` (`src/util/connect_state.rs`), one entry per address
  with a generation, the oneshot of `connect()`, and the waiters of `disconnect()`.
  Kotlin: `GattConnections` (`android/GattConnections.kt`), per address an `Attempt`
  (client, connected, disconnecting, released) and a watermark of the newest generation.
- *Operations.* `connect`, `disconnect`, their drop guards, the two-second fallback of
  `disconnect`, `openGatt`, `forceClose`, `release`, `onConnectionStateChange`, the MTU
  negotiation, `connection_changed`.
- *Interaction.* Rust calls Kotlin over JNI without holding its mutex; Kotlin reports
  inside its monitor and takes the Rust mutex there. Radio callbacks are posted by a
  binder thread.
- *Hard.* Every gap between two critical sections; cancelled futures; late callbacks of a
  replaced client; a JNI call overtaken by the cancellation of what it carries.
- *Correct when* an application's "connected" is backed by the open client of that very
  attempt, nothing opened is lost track of, events come in order, and closing ends.

### Android central: GATT operations (modelled)

- *State.* Rust: `OpSlots` (`src/util/op_slots.rs`), one waiter per operation key, and
  `pending_discover`. Kotlin: a `GattOperationQueue` per connection (a channel, a current
  task, a worker coroutine with a timeout), and `pendingNonces`, who is owed a callback.
- *Operations.* Read, write, subscribe, unsubscribe, discover; `claim`/`try_claim`,
  `complete`, `release`, `clear_attempt`; `enqueue`, `Task.run`, `claimKey`, `completeOp`.
- *Hard.* Kotlin reports by key, not by call, so a late or doubled report answers whoever
  holds the key; the timeout races the callback; the slot must outlive its caller; a
  waiter must not miss the release it waits for.
- *Correct when* one operation per key is in flight, each call gets its own outcome, no
  slot outlives what it stands for, and every call ends.

### Android peripheral: notifications (modelled)

- *State.* Rust: a gate of one permit per device and the send in flight through it
  (`src/util/notify_gate.rs`). Kotlin: `connectedDevices`, and who subscribed
  (`android/Subscription.kt`, in `AndroidGattServer`; here the hand-off may be declined any time).
- *Operations.* `send`, `begin`, `withdraw`, `abandon`, `complete`, `disconnect`, dropping the
  registration; `onNotificationSent`, `onConnectionStateChange`, `onAdapterOff`.
- *Hard.* The callback names a device only; a timeout or a drop at the moment a permit is
  granted; the adapter going off beside the stack's own disconnect callback; a disconnect
  between registering a send and handing it over.
- *Correct when* a callback completes the send it belongs to, the stack is given one value at
  a time, and no gate stays shut for a callback that will not come.

### Android peripheral: advertising (modelled)

- *State.* Rust: one slot, idle, starting or active, with a request id
  (`src/util/advertise_state.rs`). Kotlin: the callback of the live request
  (`android/BlePeripheralManager.kt:537-712`), the request that waits for the adapter's new
  name and the name in flight (`android/AdapterRename.kt`).
- *Operations.* `start_advertising`, its drop guard, `stop_advertising`, `set_adapter_name`; the
  stack's verdicts, name broadcasts and the settle timer; power-offs.
- *Hard.* A stop at any point of a start; a start dropped after it was confirmed; verdicts and
  failures of an earlier request; announcements that name a name, not a request.
- *Correct when* what the stack advertises can always be stopped and a start returns `Ok` only
  of what is on air.

### Android peripheral: GATT server (modelled)

- *State.* `GattServerHost` (`android/GattServerHost.kt`): the server handle, its generation, the
  one pending registration, the table of characteristics. `connectedDevices`,
  `SubscriptionTable`. In Rust nothing but the responders of requests on their way.
- *Operations.* `addService` with its timeout, `onServiceAdded`, `reset`; CCCD writes, reads and
  writes of a central; `onConnectionStateChange`; `onAdapterOff`.
- *Interaction.* Four kinds of threads: the caller of `addService`, which it blocks; the binder
  thread of the stack; the main thread's broadcast receiver; Tokio tasks that answer.
- *Hard.* A timeout and the late callback; the server closing under an addition; the adapter
  going off while the binder thread is half way through a disconnect or a CCCD write.
- *Correct when* what is served is on the stack, no request is left unanswered, and the
  application hears of every subscription's end before it hears of the power.

### Android L2CAP (modelled)

- *State.* `android/L2capSocketManager.kt`: the table of open sockets.
  `src/platform/android/l2cap_state.rs`: one pending open per *device*, one pending server, one
  accept stream, a sender and a close reason by socket id. Two tasks and a linger timer a channel.
- *Hard.* Whoever takes a socket out of the table closes and reports it; three threads may want
  to; the reason must be in place before the reads end, the last writes on the socket before
  the close.
- *Correct when* an end is reported as what it was, a close delivers, and no socket is left open.

### Linux peripheral (modelled)

- *State.* `Published` (`src/util/published.rs`): the handles whose drop unregisters the
  advertisement and the GATT application, and a power generation. `notifiers`: the notify
  sessions of each characteristic, each behind a lock of its own.
- *Operations.* `start_advertising`, `stop_advertising`, `notify_characteristic`, the adapter
  watcher, the notify callback (`src/platform/linux/peripheral.rs`).
- *Interaction.* BlueZ is awaited between publishing and storing; it drops every
  registration on a power-off and says so later; it never says that a session has ended.
- *Hard.* A power-off or a stop between any two steps of a start; several tasks finding the
  same ended session; sessions locked for as long as an indication is unanswered.
- *Correct when* the handles held are what BlueZ has registered, an advertisement has its
  services, and each session is reported ended once.

### Linux central (modelled)

- *State* (`src/platform/linux/central.rs`). `pending_connects`, `connected`, a watcher task per
  device, a scan task, a reader task per subscribed characteristic.
- *Operations.* `connect_inner`, `disconnect`, `start_scan` with `evict_stale_cache_entries`,
  `stop_scan`, the discovery loop, the watcher, `emit_disconnect`, subscribe and unsubscribe.
- *Hard.* Three observers of one link, each with awaits between seeing and saying; tasks that
  are spawned in one step and stored, for others to abort, in another.
- *Correct when* each connection is reported ended once, no old task acts on a new connection,
  and a loss is seen by somebody.

### Linux L2CAP

`src/platform/linux/l2cap.rs`: thirty lines that hand over bluer streams; not modelled.

### Apple central (modelled)

- *State* (`src/platform/apple/central.rs`). Maps from a device or characteristic to the one future
  waiting, filled by calls and emptied by callbacks on the manager's serial queue; a count of
  disconnects; write turns on that queue.
- *Hard.* Callbacks carry no generation and do not say which request they answer; calls look up,
  register and ask in three steps beside the queue; a write without response retries.
- *Correct when* a request CoreBluetooth took is answered or failed, and a write goes out once,
  on the connection it was made for, as soon as there is room.

### Apple peripheral (modelled)

- *State* (`src/platform/apple/peripheral.rs`, `src/util/callback_slots.rs`). A slot per kind of
  request, the characteristics, the subscribers, the queue of refused notifications.
- *Hard.* Callbacks name a key, not a request; power goes between a turn and its answer;
  notifications are sent from the callers' threads beside the queue that reports room.
- *Correct when* callers get their own answer and nobody waits for what cannot come.

### Requests of centrals on Apple and BlueZ (modelled)

- *State.* None but responders: the oneshots of `src/peripheral/types.rs` between the request
  channel, the application, and the task that waits for them
  (`src/platform/apple/peripheral.rs`, `src/platform/linux/peripheral.rs`).
- *Hard.* A long write is many parts and one response; parts refused, dropped, or never received.
- *Correct when* the response says what the application decided, after all of it, and always can.

### Coming up on Apple (modelled)

- *State.* `powered_tx`, a watch channel, `restored`, and the event stream of every subscriber
  (`src/util/event_stream.rs`), a ring that drops the oldest.
- *Operations.* `with_config`, `willRestoreState`, `didUpdateState`, `take_restored`, `wait_ready`
  (`src/central/mod.rs`, `src/peripheral/mod.rs`).
- *Hard.* The adapter changes beside the callback that says so, and both beside those who look.
- *Correct when* nobody waits for power that is there, and what is restored is there in time.

### Apple L2CAP reactor (modelled)

- *State* (`src/platform/apple/l2cap.rs`, `src/l2cap/mod.rs`). A thread moving bytes between
  streams and bounded queues, the ready set it goes by, a duplex and two tasks a channel.
- *Hard.* Readiness is a mark somebody has to set; closing lingers; reasons and ends race.
- *Correct when* both directions flow, a clean end means everything came, and a close delivers.

### Mock (modelled)

`src/testing.rs`: a linked central and peripheral that applications test against. One lock for
the link, another for the power, lazy futures. Correct when a test sees states a backend could
show: no subscription without a connection.

### Small shared parts and what is left out

| part | why it has no module of its own |
|---|---|
| `util/request_map.rs`, `util/callback_slots.rs` | maps under one lock; modelled inside their users |
| `util/event_stream.rs` | a broadcast wrapper; with its losses it is part of `PowerUp` |
| `util/adv_data.rs` | a pure size computation, unit-tested at its boundaries |
| facades, `types.rs`, `gatt/`, `error.rs` | delegation and data types; `wait_ready` is in `PowerUp`, the responder in the modules that serve requests |
| `tauri-plugin-blew`, JNI glue, permissions | conversions and class loading; what a hook changes is part of the action that reaches it |
| Android scanning | a callback that fills a map |

## 2. Plan

| # | module | checked in the run | proved |
|---|---|---|---|
| 1 | `AndroidConnection`, implements `ConnectionContract` | `connection`; `connection_leak` | **done**: its safety properties and the refinement |
| 2 | `AndroidGattOps`, one generation of 1; its end is 1's `ReportDown` | `gatt`; `gatt_ops_twice` | **done**: slots are owed, none outlives its attempt, own reports |
| 3 | `AndroidNotify` | `android_peripheral` | **done**: a shut gate is owed a callback, one value at a time |
| 4 | `AndroidAdvertising` | `android_peripheral`; `advertising_refused` | **done**: one handle, nothing stranded, `Ok` means on air |
| 5 | `LinuxPeripheral` | `linux` | **done**: handles match BlueZ, no advertisement without services, sessions reported once |
| 6 | `ApplePeripheral` | `apple` | **done**: nothing stranded, own answers |
| 7 | `AppleL2cap` | `apple_l2cap`; `apple_l2cap_end` | **done**: clean ends are complete, a linger delivers |
| 8 | `AppleCentral` | `apple` | **done**: a write is sent once, no wake-up missed, what is accepted is owed |
| 9 | `LinuxCentral` | `linux`; `linux_deaf` | **done**: one report a connection, no stray task |
| 10 | `AndroidGattServer` | `gatt`; `gatt_server_off` | **done**: the table is served, requests are owed an answer |
| 11 | `AndroidL2cap` | `android_peripheral` | **done**: ends are true, sockets are owned, a close delivers |
| 12 | `MockLink` | `gatt` | **done**: subscriptions are of the connected |
| 13 | `AttRequests` | `apple` | **done**: responses are earned, and owed |
| 14 | `PowerUp` | `apple` | **done**: no power is missed, restoration is in time |

All modules are written, and every safety property of a run is a theorem. Left: abstract
specifications for more components than the Android connection. Components that share no state are
checked in one run (`MCAndroidGatt`, `MCAndroidPeripheral`, `MCLinux`, `MCApple`): a behaviour of
both is an interleaving of a behaviour of each, no property mentions two of them, so each is
explored while the others rest in an initial state.

Conventions: variables keep the source's names, an action is one critical section or one
step between two awaits, all bounds are CONSTANTS or named constraints, and no RECURSIVE
operator appears anywhere.

## 3. AndroidConnection

One device address: all state of both sides is a map by address and no step reads two
addresses. A generation (`Gens == 1..MaxGen`) names one `connect()` call; `NoGen = 0` is
the value `begin()` skips. A `disconnect()` call is a member of `Closers` and may run again
after it returned.

| variable | code |
|---|---|
| `nextGeneration`, `attempt`, `reply`, `woken` | `ConnectAttempts.next_generation`, `.pending[addr]`, the oneshots of `connect()` and `disconnect()` |
| `told`, `lastTold` | `CentralEvent::DeviceConnected` / `DeviceDisconnected` broadcast |
| `connectPc`, `closerPc`, `closerGen` | where each call is between its critical sections; `"retiring"` and `"forcing"` are the two steps of the drop guards |
| `watermark`, `current`, `kotlin` | Kotlin's `generations[addr]`, `attempts[addr]` and the fields of each `Attempt` |
| `opening`, `mtu` | the two halves of `openGatt` around the factory, and the MTU coroutine |
| `client`, `closes`, `link`, `inbox` | the native client, how often `close()` ran on it, what the radio saw, callbacks posted and not yet run (external) |

Actions follow the calls: `Begin`; for a `connect()` `ConnectCallFails`, `KotlinRefuses`,
`KotlinConnects`, `KotlinReconnects`, `ConnectSucceeds`, `ConnectFails`, `ConnectDropped`,
`ConnectGuardRetires`, `ConnectGuardForces`; for `openGatt` `OpenGattSkips`,
`OpenGattStarts`, `FactoryCreates`, `OpenGattPublishes`, `OpenGattFails`; for a
`disconnect()` `MarkDisconnecting` to `CloserGuardForces`; for the platform `LinkUp`,
`LinkDown`, and the callbacks. `ReportDown` and `ReportUp` are the two outcomes of
`connection_changed`, `ForceClose` is Kotlin's `forceClose` with the report it makes.

**Properties.** `UpIsHeld` relates the two sides: what Rust believes against the client Kotlin
holds. `OkMeansHeld` and `LastEventIsTrue` add what callers learn and subscribers hear; they and
`ToldInOrder` and `DisconnectReturnsRetired`, what an application can rely on, are proved and no
longer checked by a run. `ClientsAccountedFor` is Kotlin's own book-keeping, one close for each client and an
owner for each open one. `NoOrphanAttempt` is what the watermark is for: after Rust has let
an attempt go, either a newer generation is on its way or a call is still going to close it.
`KeepsContract` is refinement of `ConnectionContract`, the table standing for `holder`,
`waiting` and `closing`: it says in one formula that a client never goes away under a
connection reported up, and that an address has one attempt at a time.

**Bounds.** `MaxGen = 2`: a replacing `connect()` needs two attempts, and no guard tells a
third from a second. `Closers` has one member, which may run again; what two
`disconnect()` calls at once can do is covered by the theorems, which hold for any `Closers`. Callbacks are bounded by what
a client's link can do (up, then down). Deadlock checking is off because the attempts
run out and the program then rightly stops.

**Fairness** (`FairSpec`). Weak fairness on what the runtime owes: a woken future is polled,
a timer fires (the two-second fallback), a JNI call and the factory return, a coroutine
that was launched runs. None is assumed of the radio, of callbacks, of the application, nor
of a deadline on `connect()`, which has none by default. `DisconnectingEnds` therefore shows
that the fallback alone is enough to free an address, and `RetiredClientCloses` that a client
whose attempt is gone is closed without any callback's help.

## 4. AndroidGattOps

One generation of one connection. `Calls` are the application's calls, each with a key drawn
in `Init` from `Demands`. A key stands for device, generation, kind and characteristic:
operations under different keys meet only in the queue. `Services` is the key of service
discovery, which has no slot: a second call evicts the first.

| variable | code |
|---|---|
| `slot`, `result`, `heard` | `OpSlots.slots[key]` / `pending_discover`, the oneshots, the `Notified` of the claim loop |
| `live` | the attempt is still in `ConnectAttempts`: `try_claim` and the report hooks check it under the lock |
| `phase` | the Kotlin attempt: opening, connected, disconnecting, retired |
| `task`, `deferred`, `queue`, `current`, `working` | the operation's coroutine, its `CompletableDeferred`, the channel, the worker |
| `nonces`, `owed` | `pendingNonces`; what the platform started and has not called back for (external) |
| `reports` | how often Kotlin reported an operation (history) |

The worker's steps are separate on purpose: `TimeoutFires`, `RecordTimeout` and `TaskEnds`
are three unlocked steps of `Task.run`, and a callback fits between any two.

**Properties.** `SlotIsOwed`: a held slot is always about to be freed, by its caller or by a
report Kotlin still owes. `RetiredIsClean`: no slot is registered after the retirement swept
them. `OwnReports`: no report reaches another call, as long as Kotlin keeps to one report for
each operation, the assumption `op_slots.rs` states; `gatt_ops_twice` shows a window in which it
does not. `CallsEnd`: every call that is not dropped returns, though callbacks never come.

**Bounds.** Two calls under every assignment of a characteristic's key and of `Services`: one
holds a slot while the other waits or has been given up on, and a late callback or report of the
first meets the second. Calls are made once, so the model stops when they have ended: deadlock
checking is off.

**Fairness.** Polled futures, JNI calls, launched coroutines, the worker and its timer.
Callbacks, the link and the application owe nothing.

## 5. AndroidNotify

One subscribed device. `Sends` are the application's sends, each made once; a gate is a
number, since an entry that is forgotten and made again has a new semaphore.

| variable | code |
|---|---|
| `sendPc`, `gateOf` | where each `send()` is, and the clone of the gate it or its permit holds |
| `device`, `flight`, `waiter`, `result` | `devices[addr]`, its `in_flight` with the oneshot, and what the oneshot got |
| `permit`, `line` | the semaphore: who has its permit, who waits, in order |
| `connected`, `binder`, `receiver` | Kotlin's `connectedDevices`, and the two threads that report a disconnect |
| `link`, `owed`, `inbox` | the stack: what it took, and callbacks posted and not yet run (external) |
| `strays` | sends a disconnect cleared though their callback could still come (history) |

`HandOffDeclined` covers every reason Kotlin or the stack has to refuse a send. Both
disconnect reports are two steps, taking the device out of the map and telling Rust.

**Properties.** `GateIsOwed`: a send that was handed over keeps the gate only as long as something
is to come that frees it, whichever thread saw the disconnect first. `NeverSecond` is what the gate
is for: the stack is not given a second value while it has one. It holds while `strays` is empty:
a disconnect reported between registering a send and its hand-off clears it, and if the device
has come back by then the stack takes the value and later calls back for a send that Rust has
forgotten. The next send may receive that callback.

**Bounds.** Three sends: one in flight, one that takes over, one in line. Two links, so that a
late report meets a device that came back. Both run out and the system may stop: deadlock
checking is off. There is no fairness: that the gate frees is stated as `GateIsOwed`.

## 6. AndroidAdvertising

`Starts` are request ids, given in the order the slot was claimed. A start that finds the
slot taken returns `AlreadyAdvertising` at once and is no step.

| variable | code |
|---|---|
| `slot`, `startPc`, `won`, `stopPc`, `stopId` | `AdvertiseState.current`, where each start is, whose oneshot holds `Ok`, and the request each stop displaced |
| `callback` | `advertiseCallback` with its `advertiseRequestId`, which only differ when there is no callback |
| `pending`, `inFlight`, `renamePc` | `AdapterRename.pending`, `.inFlight`, and the calls of `set_adapter_name` |
| `adapterName`, `renaming`, `announced`, `air`, `confirmed`, `powered` | the stack (external); `air` is "lost" when a power-off ended an advertisement |
| `failing`, `reporting` | the two steps of `onStartFailure` and `renameUnconfirmed`, inside and outside the monitor |

Timers of earlier renames do nothing (`mine != generation`), and the newest one is due
exactly while a name is in flight, so timers have no variable. A start can fail at any time
while it waits (`StartFails`), which covers its deadline, an error and the future being dropped.

**Properties.** `OneHandle`: what the stack advertises, or will once a name lands, is what
Kotlin's one callback can stop. `NoneStranded`: while there is a callback somebody in Rust
answers for it. Together they say that no advertisement runs on with nothing able to reach
it, and none starts behind a stop. `OkMeansOnAir` ties the returned `Ok` to the radio. That a name
is in place once it is advertised is not stated, for it is not so: after "a", "b", "a" in quick
succession the first announcement of "a" is taken for the last, while "b" is in place;
`AdapterRename` matches by name alone.

**Bounds.** Two starts and a rename are three requests for a name, enough for the repetition
above; an old and a new request are all the slot can confuse. One stop and one power-off.
`FewAtOnce` lets the starts meet at most two of the stop, the rename and the power-off. All run
out, so deadlock checking is off. There is no fairness.

## 7. LinuxPeripheral

A start names the handles it publishes, so `adv = s` reads: the advertisement held is the one
start `s` put up. Each handle is in one of three places: awaited by its start, in `Published`,
or taken and about to be dropped.

| variable | code |
|---|---|
| `adv`, `app`, `generation` | `Published.adv`, `.app`, `.power_generation` |
| `startPc`, `startGen` | where each `start_advertising` is, its local `power_generation` |
| `takerPc`, `takenAdv`, `takenApp` | a stop or the adapter watcher, and `taken` between the lock and the drop |
| `notifiers`, `sendPc`, `todo`, `holding`, `sawStopped` | the notify sessions of one characteristic; each send's `arcs` left, its guard and `any_stopped` |
| `watching` | the task `watch_adapter`: awaiting `adapter.events()`, subscribed, or over |
| `advs`, `apps`, `powered`, `events`, `opened`, `stopped` | BlueZ (external): what is registered, the adapter, power-offs on their way to the watcher, the sessions and which have ended |
| `subscribed`, `cut` | history: `subscribed: true` events less `false` ones; starts whose application a stop took after it was stored and before their advertisement was |
| `unheard` | history: starts that lost what they registered to a power-off while the watcher was not subscribed |

**Properties.** `HandlesMatch` has two halves. A held handle names something registered, unless
the watcher is yet to see a power-off: this is #46, where a handle kept across a power cycle
refused every later start. The watcher is spawned before it subscribes and returns for good when
that fails or the stream ends; a power-off it does not hear of brings #46 back, until a stop.
The code has this gap, and `HandlesMatch` excepts the starts it hits, the ones in `unheard`.
And whatever is registered is held, or about to be stored or
dropped, without exception: nothing stays on air out of a stop's reach, with two starts at once
and with futures dropped at any await. `AdvHasApp`, proved and no longer checked by a run, is the claim of `published.rs`: no power-off leaves an
advertisement up with no services behind it. It excepts the starts in `cut`: `unpublish()`
does not retire the generation, so a stop between `store_app` and `store_adv` does leave one,
and the start returns `Ok`. No document speaks of that case, so it is a hazard and no finding.
`SubscriptionsBalance`: each session is reported subscribed once and ended once, whoever finds it.

**Bounds.** Two starts are a handle and its replacement; one stop and one power-off meet them
at any step, together with the power-on after it; the watcher subscribes or ends at any step. Two sessions and two sends: one session that
ended and one locked by the other send, which is what `Prune` must tell apart. Starts and
stops run out, so deadlock checking is off. There is no fairness.

## 8. AndroidGattServer

One central and one characteristic it can subscribe to. A service is named by the
`add_service()` call that adds it, a server by its generation.

| variable | code |
|---|---|
| `handle`, `generation`, `pendingAdd`, `adder` | `GattServerHost.handle`, `.generation`, `.pending`, and who holds `addLock` |
| `addPc`, `addedTo`, `addStatus` | where each `addService` is and what it returned, its server, its `PendingAdd` |
| `table` | services whose characteristics are served |
| `connectedTo`, `subs` | `connectedDevices` has the central, `SubscriptionTable` its subscription |
| `binderAt`, `receiverAt` | what the stack's binder thread and the adapter receiver are in the middle of |
| `ask`, `awaits` | where a request is (callback, application, task that answers); whose response the central waits for |
| `toldSub`, `toldPower` | the last `SubscriptionChanged` and `AdapterStateChanged` sent |
| `framework`, `registering`, `onStack`, `radio`, `peerLinked`, `callbacks` | the platform (external): its one pending service, registrations in progress and done, the adapter, the link, callbacks posted and not yet run |

An addition is `AddTakesSlot`, `AddReachesStack`, then `OnServiceAdded` on another thread and
`AddPublishes`, or `AddTimesOut`, after which the slot stays taken until the late callback or
a reset frees it. `onAdapterOff` is five steps (`ReceiverResets` to `ReceiverReportsOff`),
each a critical section or one access of a concurrent map, and the binder thread's
disconnect and CCCD write are cut likewise.

**Properties.** `TableIsServed`: what is looked up for a request is registered on the server that
is open; late callbacks, abandoned additions and closed servers publish nothing.
`RequestsAreOwed`: whichever way a request goes, refused, answered, or dropped with its responder,
somebody still owes the central a response. `OffMeansUnsubscribed` is the order the documentation
promises and fails (`gatt_server_off`).

**Bounds.** Two additions (one times out, the other finds the slot taken), one request, one
power-off, two links or CCCD writes. **Assumed** of the stack: callbacks of the old link have
reached the binder thread when `STATE_OFF` is handled, though the last may still run; the
next link and the adapter coming on wait for the receiver. The response to a CCCD write is
left out; writes with a response go as reads do.

## 9. AndroidL2cap

All opens go to one device, since the answer of an open names only the address. A socket is
named by the open it is made for, or by its acceptance.

| variable | code |
|---|---|
| `openPc`, `answer`, `dial`, `pendingOpen` | `open_l2cap_channel`, its oneshot, Kotlin's coroutine, `pending_open[device]` |
| `listenPc`, `psm`, `pendingServer`, `acceptTo`, `servers` | `l2cap_listener` and its stream, its oneshot, `pending_server`, `accept_tx`, the accepting threads |
| `chan[k]` | a socket: in Kotlin's table, its read loop, the steps of `close()`, `CloseReasonSlot`, the entry in `data_tx`, both tasks, the linger timer, the application's end; the other end (external) |

**Properties.** `EndIsTrue`: a local close is never reported as a failure and a read of a clean end
is not contradicted later, though read loop, tasks, timer and application race to close.
`SocketsAreOwned`: a socket in the table has somebody who will close it, also when the
`open` it was for has been dropped or evicted. `CloseDelivers`: what was written before a
close or drop gets to the socket, unless the other end is lost or the linger time is over.

**Bounds.** Two opens and one acceptance with one chunk to write, but one channel in use at a time
(`FewAtOnce`): channels share nothing once open. The queues' contents are left out; a hand-over
waits for room as long as it likes. Two opens to one device can swap channels; the model
does so, and nothing in the repository promises otherwise.

## 10. LinuxCentral

One device and one characteristic. A watcher is named by the `connect()` that spawns it, a
discovery loop by its scan, a reader by its `subscribe`.

| variable | code |
|---|---|
| `pending`, `connected` | `pending_connects`, `connected` |
| `connectPc`, `scanPc`, `subPc` | where each call is between its awaits |
| `watcher`, `scanTask`, `reader` | the entry of `connection_tasks`, `scan_task`, the entry of `notify_tasks` |
| `observer` | where each watcher, discovery loop and `disconnect()` is: watching, asking for the cause, in `emit_disconnect`, closing |
| `reading` | reader tasks that live |
| `link`, `news` | BlueZ (external): the link, and who has yet to read of its end |
| `established`, `reported` | how often `connected` took the device, and was reported to lose it (history) |

**Properties.** `ReportedOnce`: one report for each connection, whichever of three observers sees
it end. `NoStrayTask`: a task that may still act is the one in its map, or is about to be
stored there, so nothing left of an old connection acts on a new one. `LossIsObserved` fails
(`linux_deaf`): the watcher subscribes after the connection is counted.

**Bounds.** Two connects, a scan, a disconnect and two subscriptions, at most `MaxCalls = 4` of
them in one behaviour: three observers of one connection, or two connections and their
watchers with another call. Calls of one kind are interchangeable (`Alike`). A `connect()`
dropped half way leaves `pending` set and a reader that ended leaves its entry; both are in
the model as the code has them, and are listed as hazards. The MTU cache, advertisement
contents, reads, writes and discovery of services keep no state that another step reads.

## 11. AppleCentral

One device, one characteristic. `queueStep` is the serial queue: callbacks and turns run there
one at a time, callers beside it.

| variable | code |
|---|---|
| `held`, `disconnects` | the device in `peripherals`, its `DisconnectCounts` |
| `delegate` | whether a `connect()` has called `setDelegate` on its `CBPeripheral` |
| `waiter`, `remaining` | the map entry of each kind of request, `DiscoveryState.pending` |
| `callPc`, `kind` | how far each call is: looked up, registered, asked, waiting |
| `writeTurns`, `notified`, `expired`, `conn` | posted turns with their claim, the writers' `Notified` and deadline, the count they captured |
| `link`, `links`, `trying`, `cmds`, `asked`, `charsDue`, `room` | CoreBluetooth (external) |
| `issuedOn`, `sent` | the connections a write was issued and sent on (history) |
| `missed` | calls whose callback came with no delegate to take it (history) |

`didDisconnectPeripheral` is four steps, as the code takes its locks: forget, count, fail the
waiters, wake the writers. `fail_pending` empties its six maps in one step, and causes, names
and events are left out. A behaviour may begin with a connected device that `willRestoreState`
handed back, without a delegate: what is asked of it then goes out and its answer is told to nobody
(`GoesUnheard`), while the callbacks of the manager itself, connects and disconnects, come all
the same.

**Properties.** `SentOnce`: a write goes out at most once and only on the connection it was
issued on, whatever turns its retries left behind. `NoMissedReady`: a sleeping writer is either
woken or has nothing to be woken for. `AcceptedIsOwed`: a request CoreBluetooth took gets an
answer or the sweep. Both except the calls in `missed`: nothing wakes or answers an application
that uses a restored peripheral without a `connect()`, which is what `lib.rs:100-102` tells it to
do. `AcceptedIsOwed` is about a disconnect between a call's steps and about waiters that replace each
other. It says nothing of a waiter registered after the sweep of a disconnect:
that one is asked of nobody and waits for its own timeout, if it has one; nor of the late callback
of a `connect()` that timed out, or of a discovery that counts another's answers: a hazard.

**Bounds.** Two connects, two operations (a discovery over two services, a read) or two writes,
over two links with one `disconnect()`. At most two connects and writes are begun in one
behaviour, and operations and writes are taken apart (`FewCalls`), for these meet only at the
link and the sweep, which both have.

## 12. ApplePeripheral

| variable | code |
|---|---|
| `turns`, `turn`, `running` | turns posted to the manager's queue, and the step it runs |
| `slot`, `key`, `answeredBy` | `CallbackSlots`: the registration of a key; what each call waits for, and whose answer it got |
| `chars`, `listener` | `chars`, `l2cap_channel_tx` |
| `lock`, `pending` | `pending_notifies` and who holds its lock |
| `sub`, `told` | `subscribers`; reports of it |
| `power`, `owes`, `db`, `advertising`, `full`, `owesReady`, `cbSub` | CoreBluetooth (external) |

A request is a turn of two steps, `Register` and `Issue`; `power_down` is two, `PowerDownSlots` and
`PowerDownNotifies`; a refused notification is queued under the lock it was refused under.

**Properties.** `OwnAnswer`: callbacks name at most a service, and callers who gave up leave their
registration, yet nobody gets another's answer. `NothingStranded`: no slot waits for what a
power-down made impossible, and no queued notification for room nobody will report.

**Bounds.** Two requests, two notifications, two services; power goes and comes without bound. Incoming
channels and which services a restoration brings back are not modelled.

## 13. AppleL2cap

One channel, bytes counted in chunks. The variables follow the data: `wrote`, `toTask`
(duplex), `outq`, `pending`, `received`; and `sent`, `readable`, `inq`, `toApp`, `got`. `reactor` is
where the thread is in its pass, `ready` the mark it goes by, `closing`, `expired` and
`closeSent` the linger, `reason` the `CloseReasonSlot`, `inbound` and `outbound` the two tasks.

**Properties.** `CleanEndIsComplete`: a clean end means the peer ended and everything it sent was
read. `LingerDelivers`: a channel that is let go after a close or a drop has delivered all
that was written, unless time or the stream ran out. It speaks of every closed or dropped channel,
whether or not the reactor has drained the `Close`, with one exception: a drop in the middle of a
pass ends the inbound task (`InWrite` fails) while `Close` waits in the command queue; `pump_input`
then finds input and a closed queue (`l2cap.rs:415-417`), and the channel is removed with what was
written still queued. `torn` remembers that; without the exception TLC finds it in 14 steps.
`l2cap/types.rs:174-179` and `l2cap/mod.rs:224-233` promise delivery there too. `InputFlows` and
`OutputFlows`: readiness is a mark set at edges and by the tasks, and still nothing waits for
ever. `EndIsObserved`, which is about a stream that ends cleanly and an application that stays,
fails (`apple_l2cap_end`).

**Fairness** (`FairSpec`). The reactor loops, Tokio runs both tasks, the peer grants credits while
the stream is open, the application reads what there is; nobody has to write or close.
`CFRunLoopWakeUp` is left out, since the reactor wakes by itself within its idle second.
**Bounds.** A queue and a buffer of one chunk, one less than what the peer sends, so that both
fill: this is where readiness is lost if it can be.

## 14. MockLink

`mockConnected`, `served`, `subscription`, `acceptTx` are `LinkState`; `mockPowered` is the
peripheral's flag, under a lock of its own, so that `PowersOff` and `PowerTakesDown` are two
steps with anything in between; `readAt`, `inRequests`, `subscribeAt`, `dialAt`, `accepted`,
`forwarding` are calls, streams and forwarders. A future's part before its first poll is a
step of its own. `SubscribedIsConnected`: no test sees a subscription without a connection.
**Bounds.** `MaxToggles = 3` power-offs, connects and additions: connected, off, connected again.
Names, MTU, scanning, restoration, events and injected errors are left out.

## 15. AttRequests

| variable | code |
|---|---|
| `askPc`, `size`, `emitted` | the callback: `didReceiveReadRequest`, `didReceiveWriteRequests`, or BlueZ's read and write functions |
| `awaited`, `success`, `response` | the task's loop over `waiters`, and `respondToRequest_withResult` |
| `part` | a responder: in the channel, with the application, used or dropped |
| `channel`, `reader` | the request channel and the stream of `take_requests()` |
| `malformed` | requests refused in the callback (history) |

A responder that is dropped says no (`ResponderInner`), so dropping is `Answers` or
`DropsRequests`. Where BlueZ's callback and task are one future, the request has one part.

**Properties.** `ResponseIsEarned`: success only if all was accepted, and no verdict, not
even a refusal, before every part has one. `ResponseIsOwed`: a part without an answer can still
get one, though nobody times a request.
**Bounds.** Two requests of at most two parts: one part refused and one outstanding, with another
request's in the channel between them. No fairness: an application that keeps a responder for
ever keeps the central waiting, and the code does nothing about it.

## 16. PowerUp

One role, central or peripheral, drawn in the initial state, which also decides whether the
system restores something.

| variable | code |
|---|---|
| `state`, `callbacks` | `manager.state()` and the serial queue (external) |
| `emitting`, `watchOn`, `watchNew` | `didUpdateState` between its sends, and the watch channel with its mark |
| `startPc`, `byDeadline`, `restored` | `with_config`, how it returned, and the payload |
| `waiterPc`, `stream`, `lagged` | calls of `wait_ready`, their broadcast receivers, and which have dropped events (history) |

The central trusts the watch channel where the peripheral asks the manager, and the two actions
(`CentralLooks`, `PeripheralLooks`) differ as the code does.

**Properties.** `NoMissedPower`: subscribe first and look second, on the two sides of a
callback that tells the watch first and the streams second: whoever waits while the power is on
has the news coming. A lagging stream loses it, as its documentation allows. `RestoredInTime`:
`willRestoreState` runs before any update and only an update, or the deadline, moves
`with_config`.
**Bounds.** Three changes of the adapter: on, off and on again. A stream of one event and one event
of another kind, so that it lags; two waits. The deadline may pass at any moment.

## 17. Runs

| run | what it shows |
|---|---|
| `connection` | the connection life cycle keeps its invariants, implements the contract, and ends, under `FairSpec`; 422 thousand states |
| `gatt` | operations get their own outcome and return, under their `Fairness`; the server serves what the stack has and answers; the mock link; 610 thousand states |
| `android_peripheral` | advertising, notifications and L2CAP channels; 2.2 million states |
| `linux` | both BlueZ roles; 2.6 million states up to symmetry |
| `apple` | both CoreBluetooth roles, their requests, and how they come up; 1.1 million states up to symmetry |
| `apple_l2cap` | both directions flow and ends are true, under `FairSpec`; 364 thousand states |
| `connection_leak` | *violated*: a `connect()` that replaces a connection and is cancelled leaves the old link up with nothing in the table |
| `gatt_ops_twice` | *violated*: an operation whose callback comes while its timeout is being recorded is reported twice |
| `advertising_refused` | *violated*: after a power-off the slot stays active with nothing on air |
| `gatt_server_off` | *violated*: `powered: false` overtakes the end of a subscription |
| `apple_l2cap_end` | *violated*: an application that only reads does not see the peer close |
| `linux_deaf` | *violated*: a link that falls before the watcher listens stays connected for ever |

Runs that combine components check each to the full while the others rest, as section 2 says.
Their fairness is that of one component: `gatt` assumes only what section 4 does. Deadlock
checking is off in all of them because calls, links and power-offs run out and the program
then rightly stops. That a wait ends where the program must not stop is stated by the liveness
properties, or by the `...IsOwed` invariants.

Every property of a passing run has a mutant in `PROJECT.json`: a named variant of a
modelled definition ("Mutant of ..." in the modules) under which TLC finds it violated.

## 18. Findings

- *A replaced connection can be leaked* (`android/GattConnections.kt:186`). Rust replaces its
  entry when `connect()` begins, Kotlin closes the old client when its `connect()` arrives. If
  the new attempt is cancelled in between, `forceClose` raises the watermark and finds no
  attempt of that generation: the old client stays open, Rust has no entry, and
  `disconnect()` returns `Ok` at once.
- *An operation can be reported twice* (`android/GattOperationQueue.kt:112`). The timeout is
  recorded before `current` is cleared and without the monitor; a callback in between still
  counts as current. `src/util/op_slots.rs:9-10` assumes one report for each operation.
- *A power-off leaves the advertising slot taken* (`android/BlePeripheralManager.kt:243`). The
  documentation (`src/peripheral/types.rs:43` and `:57-59`) says to start again after a power
  cycle, and that `AlreadyAdvertising` then means the platform resumed; on Android every start is
  refused until an explicit `stop_advertising()`, and nothing is on air.
- *The adapter's state overtakes subscriptions* (`android/BlePeripheralManager.kt:375`).
  `onConnectionStateChange` takes the device out of `connectedDevices` before it reports the
  end of its subscriptions; if the adapter goes off in between, `onAdapterOff` finds no device
  and reports `powered: false` first. `src/peripheral/types.rs:31-35` says that every
  subscription has been reported ended by then.
- *A clean end is not seen by a reader* (`src/platform/apple/l2cap.rs:729`). When the peer closes
  cleanly (`AtEnd`, `:444-447`) the reactor records `Closed` and lets go of the channel, but
  the outbound task still holds its half of the split duplex and waits for the application
  to write or close, so the application's read does not end. `CHANGELOG.md:759` says a clean
  close "is now observed", against the hang of `:762`.
- *A lost link nobody sees* (`src/platform/linux/central.rs:273`). The device is put in `connected`
  before its watcher subscribes to events, and the current state is not read after. A link
  lost in between stays in `connected`; the comment at `:33-35` has the watcher see it.

Three more gaps have no run of their own; the models have them, and a passing property excepts
exactly the states they lead to, by a history variable:

| gap | exception |
|---|---|
| A power-off before `watch_adapter` has subscribed, or after it gave up, leaves the handles held (`src/platform/linux/peripheral.rs:131-134`) | `unheard` in `HandlesMatch` |
| Restoration hands back a peripheral without a delegate (`src/platform/apple/central.rs:596-640`; the only `setDelegate` is at `:992`), so what an application asks of it before a `connect()` is never answered | `missed` in `NoMissedReady` and `AcceptedIsOwed` |
| A drop in the middle of a reactor pass tears the channel down before its `Close` is drained, with what was written (`src/platform/apple/l2cap.rs:415-417`, `:597-601`) | `torn` in `LingerDelivers` |

## 19. What is proved

`AndroidConnectionProofs` proves, for every `MaxGen > 0` and every set `Closers`, all the
safety properties the `connection` run checks, `KeepsContract` included, and four more that
no run repeats: `ToldInOrder`, `LastEventIsTrue`, `OkMeansHeld` and `DisconnectReturnsRetired`. `Closers` need not
even be finite; the only assumption is `MaxGenAssumption`.

The argument. None of the properties is inductive alone. `Inductive` is

- `TypeOK`;
- `ClientLife(g)` for each attempt: where its client is, as a function of what Kotlin
  remembers (released iff closed, closed once, published or in the factory while open, no
  callbacks without a client). It is needed because `release` decides by the `Attempt`'s
  fields, never by looking at the client;
- `TablePart`: generations are ordered, newest begun ≥ watermark ≥ held (`GensOrdered`), events agree
  with the table (`RustPart`), a connected entry is held (`UpIsHeld`), and a woken
  `disconnect()` or one whose guard has run is past its attempt (`CloserKnows`).

`InitInductive` and `StepInductive` show it is an invariant; the steps are split by who acts
(`Begin`, a connect call, `openGatt`, a disconnect call, a callback) and by part. `NeverOrphaned`
needs more: `Foreclosed` says that the JNI `connect()` of a retired attempt that has yet to
arrive is either below the watermark or will be followed by a force-close. `ContractKept`
maps each step to a step of the contract or to a stutter, using `Inductive` for the client of
the reported attempt. 

`LinuxPeripheralProofs` proves `TypeOK`, `HandlesMatch`, `AdvHasApp` and
`SubscriptionsBalance` (the first and third are in no run) for any starts, stops and sends, any finite set of sessions and any bound on power-offs
(`PeripheralAssumption`). `HandlesInv` strengthens `HandlesMatch` and `AdvHasApp` with where a
handle can be (`AdvPlaces`, `AppPlaces`, `TakersEmpty`: stored by a start that is past storing,
and either held or taken by one taker), and with what a start may rely on once its generation is
still the present one (`Generations`, `AwaitedIsRegistered`, `AwaitedHasApp`). The last is the
argument of `published.rs` made precise: because `power_lost` takes the handles and retires
the generation in one section, a start in the present generation that has stored its application
still has one. `SessionsInv` adds to `SubscriptionsBalance` that a held session has begun, so a
session is not added twice; the sums are facts about cardinality.

`LinuxCentralProofs` proves `ReportedOnce` and `NoStrayTask` for any finite sets of connects,
scans, hangups and subscribes. `CentralInv` adds that watchers, loops and readers not yet spawned
hold nothing (`Unspawned`, `ReadersOpened`), and that connections counted as established are at
most the connects that got as far as `Track` (`EachCountsOnce`): the balance of `ReportedOnce` is
an equation between counters and the number of observers inside `emit_disconnect`, so each step
is a fact about cardinality.

`AppleL2capProofs` proves `CleanEndIsComplete` and `LingerDelivers` for any buffer sizes and any
number of chunks. `AppleInv` rests on two conservation laws, `InFlow` and `OutFlow`: what the
peer sent is read, lost with the reader, or in one of the places between (stream, queue,
task, pipe), and the other way round. Around them, `InboundOver` and `OutboundOver` say what is
empty once a bridge task has ended, `EndedOrFailed` that the
reactor ends a channel of a present application only for a failure or a stream read to its end,
and `GoesWhenDone` and `GoneForACause` why the reactor drops a channel: because it is done, time or the
stream ran out, or `pump_input` met an input queue whose task is over. `TornByDrop` says that the last, while the stream is open,
is the work of a drop and of nothing else, which turns the cause into `LingerDelivers`.

`AndroidPeripheralProofs` has three parts.

- *Advertising.* `AdvertisingInv`: nothing has happened for a start that has yet to reach Kotlin
  (`AdFresh`), the stack has not been asked for one that waits for its name, nor again for one
  that failed (`AdAskedOnce`), a failed start has no callback left (`AdCleared`), a start that
  won holds the slot or somebody is about to stop it (`AdWonIsOwned`, `AdStopsFresh`), and a
  confirmed start nobody stopped is on air or was lost with the power (`AdConfirmed`). `OneHandle`
  is part of it; `NoneStranded` and `OkMeansOnAir` follow.
- *Notify.* `NotifyInv`: the only gate anybody holds is the device's, and the permit is with
  the one registered or let through (`OneGate`), the flight is a send that has begun, a lost
  link is on its way to Rust or known (`LossFollows`), and, while no hand-over has strayed past a
  disconnect, only the flight is with the stack and called back for once (`OneHandedOver`).
  `NeverSecond` is an action property and follows step by step; that the gates made never
  outnumber the sends begun is what bounds them.
- *L2CAP.* `L2capInv` says of each socket apart (`SocketOK`) whether anybody holds it, who will
  close it and with what reason, and what is left to write; a call or a listener waits for a
  socket of its own at most (`DialsOK`, `AnswersOK`). Each action changes one socket, so the
  step is one lemma per action about a record.

`AndroidGattProofs` has three parts.

- *Operations.* `OpsInv`: a taken slot is under the key of its caller (`SlotKeys`), Rust learns of an
  end before Kotlin retires it (`RustFirst`), where a task is against what it has done (`Tasks`),
  and a nonce is owed by the task at work (`NoncesOwed`). `OwnReports` needs `OwnSlots`: as long
  as nothing was reported twice, a call that waits unreported still has its slot.
- *Server.* `ServerInv` has two halves. For requests: what is posted to the binder thread comes
  after the link it needs and once (`AskedAfterUp`, `AskedOnce`, `LinkHeard`), so an answer under
  way goes out (`AnswerGoesOut`). For services: a handle is of the last server opened, an
  addition holds the lock while it waits, and a success still to be published is of the
  service on the stack (`HandleLives`, `AddHolds`, `AnswersPending`, `PublishesOwn`).
- *Mock.* `SubscribedIsConnected` is inductive with its types.

`AppleProofs` proves of the peripheral that a registration under a key is issued, about to be, or
about to be drained (`SlotsKeyed`, `PowerGone`), and that a notification refused is owed the
stack's readiness or a drain (`LockHeld`, `NotificationsOwed`); `OwnAnswer` and `NothingStranded`
follow. Of the central it proves `SentOnce`, `NoMissedReady` and `AcceptedIsOwed`: `CentralInv`
says which turns are claimed (`TurnsClaimed`), that the count of connections a writer captured is
current only while that connection stands or is being taken down (`CountedConnection`), and that a
writer without room is asleep only while room or an end is still to come (`ReadyToCome`).

`RequestsPowerProofs` proves of the request path that parts are emitted in order and only those
(`EmittedSoFar`), that `success` is the conjunction of what was awaited (`AwaitedSoFar`), that a
response was told from it or from a malformed part (`Told`), and that the channel holds exactly
the queued parts, each once (`ChannelOnce`), which is what `ResponseIsOwed` rests on when the
stream takes the head or is dropped. Of the way up it proves `WatchTold`, that `with_config` goes
to wait only with the watch channel told or about to be, also between its look and its second
look at the manager, and `RestoreFirst`, that until the restoration has run nothing but the
deadline has moved.

The proofs assume of the constants what the modules' `ASSUME`s say: bounds are naturals, model
values differ from the marker strings they are kept beside, `LinuxCentral`'s and `LinuxPeripheral`'s
sets of processes are finite. Nothing else is bounded.

**Only model-checked:** the liveness properties (`DisconnectingEnds`, `RetiredClientCloses`,
`CallsEnd`, `InputFlows`, `OutputFlows`): fairness and ENABLED are out of the prover's reach. The
type invariants, on the other hand, are proved for every component and, but for `connection` and
`apple_l2cap`, no longer part of a run. What the violation runs show is a counterexample, and nothing to prove.

## 20. Assumptions and what is abstracted

- Generations are `i32` compared by wrapping subtraction (`GattConnections.kt:121`); the model
  does not wrap. It would take 2^31 attempts in one process.
- The JNI `forceClose` of a guard reaches Kotlin. If the JVM cannot be attached, the code logs
  and gives up; no property survives losing the only call that closes.
- Values, statuses and error kinds are reduced to success or failure; logging is left out.
- The adapter being switched off, and callbacks for unknown clients, are covered only as
  far as Kotlin sees them as a disconnected callback.
- The state of a dropped future is what its guards do; a future that is forgotten
  (`mem::forget`) and never dropped is not modelled.
- A device connects again only after the adapter receiver has run, and the receiver runs after
  connections reported before the adapter went off: a power cycle outlasts both.
- A JNI `stopAdvertising` reaches Kotlin. An advertiser asked while the adapter is off does not
  answer; that it may throw out of a broadcast is not modelled. The adapter's name is changed
  by this process only.
- *CoreBluetooth* runs callbacks one at a time on the queue it was given, answers a request it
  took once unless the link or the power goes, may drop what was asked before either, and
  reports room after it refused an update. It may answer late; it never answers what it was
  not asked.
- The delegate stays with its device: CoreBluetooth hands out one `CBPeripheral` for a device in a
  process, and nothing resets it.
- A stream that reports room takes at least one byte: `write` returning 0 there (`l2cap.rs:389`), which
  the code takes for a full stream, is not modelled apart.
- *BlueZ* drops registrations with the power and ends notify sessions with the link, silently;
  event streams replay no current state; `connect` on a connected device succeeds.
- *Tokio* polls a woken future, aborts a task only at an await, and wakes an enabled `Notified`.
- *The Android stack* runs the callbacks of a server one at a time, in order, on one binder
  thread, and the adapter receiver on the main thread.

**Not modelled:** Android scanning and permissions; the Tauri plugin; JNI conversions;
`adv_data`; `linux/l2cap.rs`, which hands over streams; examples and tests; which devices
and services a restoration brings back (`PowerUp` has when, and Apple's central may start with a
connected device); incoming L2CAP channels on Apple before they are bridged; caches of the MTU and
contents of advertisements on Linux. They keep no state that others race for, or only convert data.
