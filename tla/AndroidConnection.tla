------------------------- MODULE AndroidConnection -------------------------
(***************************************************************************)
(* The life of the GATT connections to ONE device address on Android: the  *)
(* Rust table of attempts (util/connect_state.rs), the two calls that      *)
(* drive it (connect() and disconnect() of platform/android/central.rs)    *)
(* and the Kotlin side that owns the native clients (GattConnections.kt).  *)
(* Everything both sides keep is keyed by address, so one address is       *)
(* enough; a generation names one connect() call.                          *)
(*                                                                         *)
(* Two locks order the steps: the Rust mutex around the attempt table and  *)
(* the Kotlin monitor.  An action is one critical section.  A Kotlin       *)
(* section that reports to Rust takes the mutex inside the monitor; Rust   *)
(* never calls Kotlin under the mutex, so such a nested section is one     *)
(* step here.  Between two sections anything may happen.                   *)
(***************************************************************************)
EXTENDS Naturals, Sequences

CONSTANTS MaxGen,   \* bound: how many times connect() may begin an attempt
          Closers   \* the disconnect() calls that may run at the same time

ASSUME MaxGenAssumption == MaxGen \in Nat \ {0}

Gens == 1..MaxGen

\* begin() never hands out generation 0, so it stands for "no attempt".
NoGen == 0

VARIABLES
  nextGeneration,   \* ConnectAttempts.next_generation
  attempt,          \* ConnectAttempts.pending[addr]; gen = NoGen when absent
  connectPc,        \* where the connect() call of a generation is
  reply,            \* what its oneshot holds
  closerPc,         \* where a disconnect() call is
  closerGen,        \* the generation it is closing
  woken,            \* the disconnect() calls whose oneshot has fired
  told,             \* the events broadcast so far about each generation
  lastTold,         \* the last event broadcast: <<kind, generation>>
  watermark,        \* generations[addr]: newest generation Kotlin has heard of
  current,          \* attempts[addr]: the generation Kotlin holds, or NoGen
  kotlin,           \* the fields of Kotlin's Attempt, per generation
  opening,          \* progress of openGatt for a generation
  mtu,              \* the coroutine that negotiates the MTU, then reports
  client,           \* the native client: "none", "open", "closed"
  closes,           \* how often gatt.close() ran on it
  link,             \* what the radio has seen of that client
  inbox             \* connection callbacks posted but not yet run

rustVars   == <<nextGeneration, attempt, reply, woken, told, lastTold>>
callVars   == <<connectPc, closerPc, closerGen>>
kotlinVars == <<watermark, current, kotlin, opening, mtu, client, closes>>
radioVars  == <<link, inbox>>
vars == <<rustVars, callVars, kotlinVars, radioVars>>

NoAttempt == [gen |-> NoGen, waiter |-> FALSE,
              disconnecting |-> FALSE, disconnects |-> {}]

\* A Kotlin Attempt as its constructor leaves it.
FreshAttempt == [gatt |-> FALSE, connected |-> FALSE,
                 disconnecting |-> FALSE, released |-> FALSE]

Init ==
  /\ nextGeneration = 0
  /\ attempt = NoAttempt
  /\ connectPc = [g \in Gens |-> "unborn"]
  /\ reply = [g \in Gens |-> "none"]
  /\ closerPc = [d \in Closers |-> "idle"]
  /\ closerGen = [d \in Closers |-> NoGen]
  /\ woken = {}
  /\ told = [g \in Gens |-> <<>>]
  /\ lastTold = <<"none", NoGen>>
  /\ watermark = NoGen
  /\ current = NoGen
  /\ kotlin = [g \in Gens |-> FreshAttempt]
  /\ opening = [g \in Gens |-> "none"]
  /\ mtu = [g \in Gens |-> "none"]
  /\ client = [g \in Gens |-> "none"]
  /\ closes = [g \in Gens |-> 0]
  /\ link = [g \in Gens |-> "idle"]
  /\ inbox = [g \in Gens |-> <<>>]

----------------------------------------------------------------------------
(* What a report does to the Rust table, under its mutex.                   *)

\* The event that goes out with a transition, to every subscriber.
Tell(kind, g) ==
  /\ told' = [told EXCEPT ![g] = Append(@, kind)]
  /\ lastTold' = <<kind, g>>

\* connection_changed(addr, g, false, _): retire the attempt if it is still g.
ReportDown(g) ==
  IF attempt.gen = g
  THEN /\ attempt' = NoAttempt
       /\ reply' = IF attempt.waiter THEN [reply EXCEPT ![g] = "err"] ELSE reply
       /\ woken' = woken \cup attempt.disconnects
       /\ Tell("down", g)
       /\ UNCHANGED nextGeneration
  ELSE UNCHANGED rustVars

\* connection_changed(addr, g, true, _): resolve its connect(), once.
ReportUp(g) ==
  IF attempt.gen = g /\ ~attempt.disconnecting /\ attempt.waiter
  THEN /\ attempt' = [attempt EXCEPT !.waiter = FALSE]
       /\ reply' = [reply EXCEPT ![g] = "ok"]
       /\ Tell("up", g)
       /\ UNCHANGED <<nextGeneration, woken>>
  ELSE UNCHANGED rustVars

----------------------------------------------------------------------------
(* Kotlin helpers.                                                          *)

\* release(attempt, _): close the client the attempt holds, once.
Closes(k) == k.gatt /\ ~k.released
Release(k) == [k EXCEPT !.released = k.released \/ k.gatt]

ReleaseClient(g, k) ==
  /\ client' = [client EXCEPT ![g] = IF Closes(k) THEN "closed" ELSE @]
  /\ closes' = [closes EXCEPT ![g] = IF Closes(k) THEN @ + 1 ELSE @]

\* Mutant of ForceClose: the caller is left to report what it closed.
ForceCloseUnreported(g) ==
  /\ watermark' = IF g > watermark THEN g ELSE watermark
  /\ IF current = g
     THEN /\ current' = NoGen
          /\ kotlin' = [kotlin EXCEPT ![g] = Release(@)]
          /\ ReleaseClient(g, kotlin[g])
     ELSE UNCHANGED <<current, kotlin, client, closes>>
  /\ UNCHANGED <<opening, mtu, rustVars>>

\* forceClose(addr, g): record the cancellation, and tear down g if held.
ForceClose(g) ==
  /\ watermark' = IF g > watermark THEN g ELSE watermark
  /\ IF current = g
     THEN /\ current' = NoGen
          /\ kotlin' = [kotlin EXCEPT ![g] = Release(@)]
          /\ ReleaseClient(g, kotlin[g])
          /\ ReportDown(g)
     ELSE UNCHANGED <<current, kotlin, client, closes, rustVars>>
  /\ UNCHANGED <<opening, mtu>>

----------------------------------------------------------------------------
(* connect()                                                                *)

\* Mutant of Begin: an attempt being closed may be replaced.
BeginOverClosing ==
  /\ nextGeneration < MaxGen
  /\ ~attempt.waiter
  /\ LET g == nextGeneration + 1 IN
       /\ nextGeneration' = g
       /\ attempt' = [NoAttempt EXCEPT !.gen = g, !.waiter = TRUE]
       /\ connectPc' = [connectPc EXCEPT ![g] = "begun"]
  /\ UNCHANGED <<reply, woken, told, lastTold, closerPc, closerGen,
                 kotlinVars, radioVars>>

\* Refused while the address has an unresolved or a closing attempt; a
\* connected one is replaced without an event.
Begin ==
  /\ nextGeneration < MaxGen
  /\ ~attempt.waiter
  /\ ~attempt.disconnecting
  /\ LET g == nextGeneration + 1 IN
       /\ nextGeneration' = g
       /\ attempt' = [NoAttempt EXCEPT !.gen = g, !.waiter = TRUE]
       /\ connectPc' = [connectPc EXCEPT ![g] = "begun"]
  /\ UNCHANGED <<reply, woken, told, lastTold, closerPc, closerGen,
                 kotlinVars, radioVars>>

\* The JNI call itself fails: connect() returns through its guard.
ConnectCallFails(g) ==
  /\ connectPc[g] = "begun"
  /\ connectPc' = [connectPc EXCEPT ![g] = "retiring"]
  /\ UNCHANGED <<rustVars, closerPc, closerGen, kotlinVars, radioVars>>

\* Kotlin connect(): a generation it has already heard of came too late.
KotlinRefuses(g) ==
  /\ connectPc[g] = "begun"
  /\ g <= watermark
  /\ connectPc' = [connectPc EXCEPT ![g] = "waiting"]
  /\ UNCHANGED <<rustVars, closerPc, closerGen, kotlinVars, radioVars>>

\* Mutant of KotlinConnects: a connect() is never too late.
KotlinConnectsLate(g) ==
  /\ connectPc[g] = "begun"
  /\ current = NoGen
  /\ watermark' = g
  /\ current' = g
  /\ kotlin' = [kotlin EXCEPT ![g] = FreshAttempt]
  /\ opening' = [opening EXCEPT ![g] = "due"]
  /\ connectPc' = [connectPc EXCEPT ![g] = "opening"]
  /\ UNCHANGED <<rustVars, closerPc, closerGen, mtu, client, closes, radioVars>>

\* Kotlin connect(): no attempt held, so openGatt runs on this thread.
KotlinConnects(g) ==
  /\ connectPc[g] = "begun"
  /\ g > watermark
  /\ current = NoGen
  /\ watermark' = g
  /\ current' = g
  /\ kotlin' = [kotlin EXCEPT ![g] = FreshAttempt]
  /\ opening' = [opening EXCEPT ![g] = "due"]
  /\ connectPc' = [connectPc EXCEPT ![g] = "opening"]
  /\ UNCHANGED <<rustVars, closerPc, closerGen, mtu, client, closes, radioVars>>

\* Mutant of KotlinReconnects: the client replaced is left open.
KotlinReplaces(g) ==
  /\ connectPc[g] = "begun"
  /\ g > watermark
  /\ current # NoGen
  /\ watermark' = g
  /\ current' = g
  /\ kotlin' = [kotlin EXCEPT ![g] = FreshAttempt]
  /\ opening' = [opening EXCEPT ![g] = "due"]
  /\ connectPc' = [connectPc EXCEPT ![g] = "waiting"]
  /\ UNCHANGED <<rustVars, closerPc, closerGen, mtu, client, closes, radioVars>>

\* Kotlin connect(): the attempt held is retired and its client closed, and
\* openGatt follows on a coroutine, 300 ms later.
KotlinReconnects(g) ==
  /\ connectPc[g] = "begun"
  /\ g > watermark
  /\ current # NoGen
  /\ watermark' = g
  /\ current' = g
  /\ kotlin' = [kotlin EXCEPT ![current] = Release(@), ![g] = FreshAttempt]
  /\ ReleaseClient(current, kotlin[current])
  /\ opening' = [opening EXCEPT ![g] = "due"]
  /\ connectPc' = [connectPc EXCEPT ![g] = "waiting"]
  /\ UNCHANGED <<rustVars, closerPc, closerGen, mtu, radioVars>>

\* openGatt on the connect() call's own thread returns control to it.
OpenGattReturns(g) ==
  connectPc' = IF connectPc[g] = "opening"
               THEN [connectPc EXCEPT ![g] = "waiting"] ELSE connectPc

\* First section of openGatt: nothing to open for a retired attempt.
OpenGattSkips(g) ==
  /\ opening[g] = "due"
  /\ current # g
  /\ opening' = [opening EXCEPT ![g] = "finished"]
  /\ OpenGattReturns(g)
  /\ UNCHANGED <<rustVars, closerPc, closerGen, watermark, current, kotlin,
                 mtu, client, closes, radioVars>>

OpenGattStarts(g) ==
  /\ opening[g] = "due"
  /\ current = g
  /\ opening' = [opening EXCEPT ![g] = "inFactory"]
  /\ UNCHANGED <<rustVars, callVars, watermark, current, kotlin, mtu, client,
                 closes, radioVars>>

\* connectGatt registers the client; its callbacks may run before it returns.
FactoryCreates(g) ==
  /\ opening[g] = "inFactory"
  /\ client[g] = "none"
  /\ client' = [client EXCEPT ![g] = "open"]
  /\ link' = [link EXCEPT ![g] = "connecting"]
  /\ UNCHANGED <<rustVars, callVars, watermark, current, kotlin, opening, mtu,
                 closes, inbox>>

\* Mutant of OpenGattPublishes: the client is published whoever holds the
\* address by then.
OpenGattPublishesBlindly(g) ==
  /\ opening[g] = "inFactory"
  /\ client[g] # "none"
  /\ opening' = [opening EXCEPT ![g] = "finished"]
  /\ kotlin' = [kotlin EXCEPT ![g].gatt = TRUE]
  /\ OpenGattReturns(g)
  /\ UNCHANGED <<rustVars, closerPc, closerGen, watermark, current, mtu, client,
                 closes, radioVars>>

\* Second section of openGatt, with a client: publish it, and close it at once
\* if the attempt was retired meanwhile.
OpenGattPublishes(g) ==
  /\ opening[g] = "inFactory"
  /\ client[g] # "none"
  /\ opening' = [opening EXCEPT ![g] = "finished"]
  /\ LET held == [kotlin[g] EXCEPT !.gatt = TRUE] IN
       IF current = g
       THEN /\ kotlin' = [kotlin EXCEPT ![g] = held]
            /\ UNCHANGED <<client, closes>>
       ELSE /\ kotlin' = [kotlin EXCEPT ![g] = Release(held)]
            /\ ReleaseClient(g, held)
  /\ OpenGattReturns(g)
  /\ UNCHANGED <<rustVars, closerPc, closerGen, watermark, current, mtu, radioVars>>

\* Second section of openGatt, without one: connectGatt failed.
OpenGattFails(g) ==
  /\ opening[g] = "inFactory"
  /\ client[g] = "none"
  /\ opening' = [opening EXCEPT ![g] = "finished"]
  /\ IF current = g
     THEN /\ current' = NoGen
          /\ ReportDown(g)
     ELSE UNCHANGED <<current, rustVars>>
  /\ OpenGattReturns(g)
  /\ UNCHANGED <<closerPc, closerGen, watermark, kotlin, mtu, client, closes, radioVars>>

\* The future is polled with its result there: Ok disarms the guard.
ConnectSucceeds(g) ==
  /\ connectPc[g] = "waiting"
  /\ reply[g] = "ok"
  /\ connectPc' = [connectPc EXCEPT ![g] = "connected"]
  /\ UNCHANGED <<rustVars, closerPc, closerGen, kotlinVars, radioVars>>

\* An Err result, or the deadline with no result: the guard will run.
ConnectFails(g) ==
  /\ connectPc[g] = "waiting"
  /\ reply[g] # "ok"
  /\ connectPc' = [connectPc EXCEPT ![g] = "retiring"]
  /\ UNCHANGED <<rustVars, closerPc, closerGen, kotlinVars, radioVars>>

\* The future is dropped while it waits, whatever its oneshot holds.
ConnectDropped(g) ==
  /\ connectPc[g] = "waiting"
  /\ connectPc' = [connectPc EXCEPT ![g] = "retiring"]
  /\ UNCHANGED <<rustVars, closerPc, closerGen, kotlinVars, radioVars>>

\* The guard: connection_changed(false), then force_close_gatt.
ConnectGuardRetires(g) ==
  /\ connectPc[g] = "retiring"
  /\ connectPc' = [connectPc EXCEPT ![g] = "forcing"]
  /\ ReportDown(g)
  /\ UNCHANGED <<closerPc, closerGen, kotlinVars, radioVars>>

ConnectGuardForces(g) ==
  /\ connectPc[g] = "forcing"
  /\ connectPc' = [connectPc EXCEPT ![g] = "failed"]
  /\ ForceClose(g)
  /\ UNCHANGED <<closerPc, closerGen, radioVars>>

----------------------------------------------------------------------------
(* disconnect()                                                             *)

SetCloser(d, pc) == closerPc' = [closerPc EXCEPT ![d] = pc]

\* Mutant of MarkDisconnecting: an address without an attempt is closed too.
MarkAnything(d) ==
  /\ closerPc[d] = "idle"
  /\ attempt' = [attempt EXCEPT !.disconnecting = TRUE,
                                !.disconnects = @ \cup {d}]
  /\ closerGen' = [closerGen EXCEPT ![d] = attempt.gen]
  /\ woken' = woken \ {d}
  /\ SetCloser(d, "marked")
  /\ UNCHANGED <<nextGeneration, reply, told, lastTold, connectPc, kotlinVars,
                 radioVars>>

\* Mark the attempt and queue a waiter on it; without an attempt the call
\* returns Ok at once and changes nothing.
MarkDisconnecting(d) ==
  /\ closerPc[d] = "idle"
  /\ attempt.gen # NoGen
  /\ attempt' = [attempt EXCEPT !.disconnecting = TRUE,
                                !.disconnects = @ \cup {d}]
  /\ closerGen' = [closerGen EXCEPT ![d] = attempt.gen]
  /\ woken' = woken \ {d}
  /\ SetCloser(d, "marked")
  /\ UNCHANGED <<nextGeneration, reply, told, lastTold, connectPc, kotlinVars,
                 radioVars>>

DisconnectCallFails(d) ==
  /\ closerPc[d] = "marked"
  /\ SetCloser(d, "retiring")
  /\ UNCHANGED <<rustVars, connectPc, closerGen, kotlinVars, radioVars>>

\* Kotlin disconnect(): ask the client it holds to disconnect.
KotlinDisconnects(d) ==
  /\ closerPc[d] = "marked"
  /\ current = closerGen[d]
  /\ kotlin' = [kotlin EXCEPT ![current].disconnecting = TRUE]
  /\ SetCloser(d, "waiting")
  /\ UNCHANGED <<rustVars, connectPc, closerGen, watermark, current, opening,
                 mtu, client, closes, radioVars>>

\* Kotlin disconnect() of an attempt it does not hold.
KotlinDisconnectsUnknown(d) ==
  /\ closerPc[d] = "marked"
  /\ current # closerGen[d]
  /\ ForceClose(closerGen[d])
  /\ SetCloser(d, "waiting")
  /\ UNCHANGED <<connectPc, closerGen, radioVars>>

\* The waiter fired: the attempt has been retired.
DisconnectWoken(d) ==
  /\ closerPc[d] = "waiting"
  /\ d \in woken
  /\ SetCloser(d, "idle")
  /\ UNCHANGED <<rustVars, connectPc, closerGen, kotlinVars, radioVars>>

\* Two seconds without it: force the client closed, then retire the attempt.
DisconnectTimesOut(d) ==
  /\ closerPc[d] = "waiting"
  /\ d \notin woken
  /\ SetCloser(d, "timedOut")
  /\ UNCHANGED <<rustVars, connectPc, closerGen, kotlinVars, radioVars>>

TimeoutForces(d) ==
  /\ closerPc[d] = "timedOut"
  /\ ForceClose(closerGen[d])
  /\ SetCloser(d, "settling")
  /\ UNCHANGED <<connectPc, closerGen, radioVars>>

TimeoutSettles(d) ==
  /\ closerPc[d] = "settling"
  /\ ReportDown(closerGen[d])
  /\ SetCloser(d, "idle")
  /\ UNCHANGED <<connectPc, closerGen, kotlinVars, radioVars>>

\* Mutant of DisconnectDropped: a dropped disconnect() leaves no guard behind.
DisconnectForgotten(d) ==
  /\ closerPc[d] = "waiting"
  /\ SetCloser(d, "idle")
  /\ UNCHANGED <<rustVars, connectPc, closerGen, kotlinVars, radioVars>>

\* The future is dropped while it waits: its guard does the same two steps in
\* the other order.
DisconnectDropped(d) ==
  /\ closerPc[d] = "waiting"
  /\ SetCloser(d, "retiring")
  /\ UNCHANGED <<rustVars, connectPc, closerGen, kotlinVars, radioVars>>

CloserGuardRetires(d) ==
  /\ closerPc[d] = "retiring"
  /\ ReportDown(closerGen[d])
  /\ SetCloser(d, "forcing")
  /\ UNCHANGED <<connectPc, closerGen, kotlinVars, radioVars>>

CloserGuardForces(d) ==
  /\ closerPc[d] = "forcing"
  /\ ForceClose(closerGen[d])
  /\ SetCloser(d, "idle")
  /\ UNCHANGED <<connectPc, closerGen, radioVars>>

----------------------------------------------------------------------------
(* The radio, and the callbacks it posts.                                   *)

LinkUp(g) ==
  /\ client[g] = "open"
  /\ link[g] = "connecting"
  /\ link' = [link EXCEPT ![g] = "up"]
  /\ inbox' = [inbox EXCEPT ![g] = Append(@, "up")]
  /\ UNCHANGED <<rustVars, callVars, kotlinVars>>

LinkDown(g) ==
  /\ client[g] = "open"
  /\ link[g] \in {"connecting", "up"}
  /\ link' = [link EXCEPT ![g] = "down"]
  /\ inbox' = [inbox EXCEPT ![g] = Append(@, "down")]
  /\ UNCHANGED <<rustVars, callVars, kotlinVars>>

\* onConnectionStateChange of a retired attempt: it may close its own client
\* and nothing else.
StaleStateCallback(g) ==
  /\ inbox[g] # <<>>
  /\ current # g
  /\ inbox' = [inbox EXCEPT ![g] = Tail(@)]
  /\ LET held == [kotlin[g] EXCEPT !.gatt = TRUE] IN
       /\ kotlin' = [kotlin EXCEPT ![g] = Release(held)]
       /\ ReleaseClient(g, held)
  /\ UNCHANGED <<rustVars, callVars, watermark, current, opening, mtu, link>>

\* onConnectionStateChange(STATE_DISCONNECTED) of the attempt held.
DisconnectedCallback(g) ==
  /\ inbox[g] # <<>>
  /\ Head(inbox[g]) = "down"
  /\ current = g
  /\ inbox' = [inbox EXCEPT ![g] = Tail(@)]
  /\ current' = NoGen
  /\ LET held == [kotlin[g] EXCEPT !.gatt = TRUE] IN
       /\ kotlin' = [kotlin EXCEPT ![g] = Release(held)]
       /\ ReleaseClient(g, held)
  /\ ReportDown(g)
  /\ UNCHANGED <<callVars, watermark, opening, mtu, link>>

\* onConnectionStateChange(STATE_CONNECTED) of the attempt held: negotiate the
\* MTU first, unless it is already being closed.
ConnectedCallback(g) ==
  /\ inbox[g] # <<>>
  /\ Head(inbox[g]) = "up"
  /\ current = g
  /\ inbox' = [inbox EXCEPT ![g] = Tail(@)]
  /\ LET held == [kotlin[g] EXCEPT !.gatt = TRUE] IN
       IF held.disconnecting
       THEN /\ kotlin' = [kotlin EXCEPT ![g] = held]
            /\ UNCHANGED mtu
       ELSE /\ kotlin' = [kotlin EXCEPT ![g] = [held EXCEPT !.connected = TRUE]]
            /\ mtu' = [mtu EXCEPT ![g] = "asking"]
  /\ UNCHANGED <<rustVars, callVars, watermark, current, opening, client,
                 closes, link>>

\* The MTU request ended, by its callback, its 5 s timeout, a refusal or the
\* queue closing: report the connection if it is still wanted.
MtuSettled(g) ==
  /\ mtu[g] = "asking"
  /\ mtu' = [mtu EXCEPT ![g] = "settled"]
  /\ IF current = g /\ ~kotlin[g].disconnecting
     THEN ReportUp(g)
     ELSE UNCHANGED rustVars
  /\ UNCHANGED <<callVars, watermark, current, kotlin, opening, client, closes,
                 radioVars>>

----------------------------------------------------------------------------
ConnectSteps(g) ==
  \/ ConnectCallFails(g) \/ KotlinRefuses(g) \/ KotlinConnects(g)
  \/ KotlinReconnects(g) \/ ConnectSucceeds(g) \/ ConnectFails(g)
  \/ ConnectDropped(g) \/ ConnectGuardRetires(g) \/ ConnectGuardForces(g)

OpenSteps(g) ==
  \/ OpenGattSkips(g) \/ OpenGattStarts(g) \/ FactoryCreates(g)
  \/ OpenGattPublishes(g) \/ OpenGattFails(g)

CloserSteps(d) ==
  \/ MarkDisconnecting(d) \/ DisconnectCallFails(d) \/ KotlinDisconnects(d)
  \/ KotlinDisconnectsUnknown(d) \/ DisconnectWoken(d) \/ DisconnectTimesOut(d)
  \/ TimeoutForces(d) \/ TimeoutSettles(d) \/ DisconnectDropped(d)
  \/ CloserGuardRetires(d) \/ CloserGuardForces(d)

CallbackSteps(g) ==
  \/ LinkUp(g) \/ LinkDown(g) \/ StaleStateCallback(g)
  \/ DisconnectedCallback(g) \/ ConnectedCallback(g) \/ MtuSettled(g)

Next ==
  \/ Begin
  \/ \E g \in Gens : ConnectSteps(g) \/ OpenSteps(g) \/ CallbackSteps(g)
  \/ \E d \in Closers : CloserSteps(d)

Spec == Init /\ [][Next]_vars

\* The table is what an application sees of the address; the clients are the
\* native ones.
Contract == INSTANCE ConnectionContract
  WITH begun <- nextGeneration, holder <- attempt.gen,
       waiting <- attempt.waiter, closing <- attempt.disconnecting

----------------------------------------------------------------------------
(* Properties.                                                              *)

TableEntries == [gen : 0..MaxGen, waiter : BOOLEAN,
                 disconnecting : BOOLEAN, disconnects : SUBSET Closers]

KotlinAttempts == [gatt : BOOLEAN, connected : BOOLEAN,
                   disconnecting : BOOLEAN, released : BOOLEAN]

\* The Rust table and what it has answered and broadcast.
RustTypeOK ==
  /\ nextGeneration \in 0..MaxGen
  /\ attempt \in TableEntries
  /\ reply \in [Gens -> {"none", "ok", "err"}]
  /\ woken \in SUBSET Closers
  /\ told \in [Gens -> Seq({"up", "down"})]
  /\ lastTold \in {"none", "up", "down"} \X (0..MaxGen)

CallTypeOK ==
  /\ connectPc \in [Gens -> {"unborn", "begun", "opening", "waiting", "retiring",
                            "forcing", "connected", "failed"}]
  /\ closerPc \in [Closers -> {"idle", "marked", "waiting", "timedOut",
                              "settling", "retiring", "forcing"}]
  /\ closerGen \in [Closers -> 0..MaxGen]
  /\ \A d \in Closers : closerPc[d] # "idle" => closerGen[d] \in Gens

KotlinTypeOK ==
  /\ watermark \in 0..MaxGen
  /\ current \in 0..MaxGen
  /\ kotlin \in [Gens -> KotlinAttempts]
  /\ opening \in [Gens -> {"none", "due", "inFactory", "finished"}]
  /\ mtu \in [Gens -> {"none", "asking", "settled"}]
  /\ client \in [Gens -> {"none", "open", "closed"}]
  /\ closes \in [Gens -> Nat]

RadioTypeOK ==
  /\ link \in [Gens -> {"idle", "connecting", "up", "down"}]
  /\ inbox \in [Gens -> Seq({"up", "down"})]

TypeOK == RustTypeOK /\ CallTypeOK /\ KotlinTypeOK /\ RadioTypeOK

\* The application was told attempt g is connected, and it is still Rust's.
Up(g) == attempt.gen = g /\ ~attempt.waiter

\* Kotlin holds attempt g, with its client published, connected and not closed.
Held(g) ==
  /\ current = g
  /\ kotlin[g].gatt /\ kotlin[g].connected /\ ~kotlin[g].released
  /\ client[g] = "open"

\* While Rust holds a connected attempt, Kotlin holds that same attempt: no
\* path on the Kotlin side lets a connection go without reporting it
\* (GattConnections.kt reports every retirement inside the monitor, but for the
\* one that replaces an attempt).
UpIsHeld == \A g \in Gens : Up(g) => Held(g)

\* A call that is still going to force attempt g closed, or to replace it.
WillBeClosed(g) ==
  \/ connectPc[g] = "forcing"
  \/ \E d \in Closers : closerGen[d] = g /\ closerPc[d] = "forcing"
  \/ \E newer \in Gens : newer > g /\ connectPc[newer] \in {"begun", "retiring", "forcing"}

\* A Kotlin attempt that Rust has let go of, and that no newer generation has
\* reached Kotlin to supersede, has a call on its way to close it: a connect()
\* that arrives after its attempt was cancelled opens nothing (the watermark).
NoOrphanAttempt ==
  \A g \in Gens :
    (current = g /\ watermark = g /\ attempt.gen # g) => WillBeClosed(g)

\* Every native client is closed at most once, and one that is not closed
\* belongs to the attempt Kotlin holds, or to a factory call that has yet to
\* return and will close it (release() and the two sections of openGatt).
ClientsAccountedFor ==
  \A g \in Gens :
    /\ closes[g] <= 1
    /\ client[g] = "closed" <=> closes[g] = 1
    /\ client[g] = "open" => current = g \/ opening[g] = "inFactory"

\* What subscribers heard about one attempt: connected at most once, then
\* disconnected at most once, never the other way round.
ToldInOrder ==
  \A g \in Gens : told[g] \in {<<>>, <<"up">>, <<"down">>, <<"up", "down">>}

\* Events carry no generation, so the last one is what an application takes
\* the device's state to be.  It says "connected" exactly while Rust holds a
\* connected attempt, except that replacing one says nothing.
LastEventIsTrue ==
  /\ \A g \in Gens : Up(g) => lastTold = <<"up", g>>
  /\ \A g \in Gens : lastTold = <<"up", g>> =>
       attempt.gen = g \/ (attempt.gen > g /\ attempt.waiter)

\* connect() learns Ok only from the attempt Kotlin holds at that moment, with
\* its link up and no disconnect() under way: a late callback or MTU exchange
\* of an older attempt satisfies nobody.
OkMeansHeld ==
  [][\A g \in Gens : (reply[g] # "ok" /\ reply'[g] = "ok") =>
       /\ current = g /\ kotlin[g].connected
       /\ attempt.gen = g /\ ~attempt.disconnecting]_vars

\* When disconnect() returns, the attempt it was closing has left the table,
\* whichever of the callback, the timeout or another call retired it.
DisconnectReturnsRetired ==
  [][\A d \in Closers : (closerPc[d] # "idle" /\ closerPc'[d] = "idle") =>
       attempt'.gen # closerGen[d]]_vars

\* The attempts, events and clients of both sides together keep the promise
\* of ConnectionContract.
KeepsContract == Contract!Spec

\* What the force-close fallback and the timeouts are for: an attempt being
\* closed leaves the table, so the address can be connected again.
DisconnectingEnds ==
  \A g \in Gens : (attempt.gen = g /\ attempt.disconnecting) ~> (attempt.gen # g)

\* A client whose attempt is gone does not stay open: Android has about seven.
RetiredClientCloses ==
  \A g \in Gens : (client[g] = "open" /\ current # g) ~> (client[g] = "closed")

\* No connect() or disconnect() call is running.
Quiet ==
  /\ \A g \in Gens : connectPc[g] \in {"unborn", "connected", "failed"}
  /\ \A d \in Closers : closerPc[d] = "idle"

\* What disconnect() is for (central/mod.rs: "Disconnect from a connected
\* peripheral"): with no attempt in the table and no call running, Kotlin holds
\* no attempt, so no link to the device is left open.
QuietMeansDisconnected ==
  (Quiet /\ attempt.gen = NoGen) => current = NoGen

----------------------------------------------------------------------------
(* Fairness: tokio polls a woken future and fires its timers, JNI calls and *)
(* the factory return, and posted coroutines run.  Nothing is assumed of    *)
(* the radio, of callbacks, of the application, or of a deadline on         *)
(* connect(), which may have none.                                          *)

ConnectRuns(g) ==
  \/ KotlinRefuses(g) \/ KotlinConnects(g) \/ KotlinReconnects(g)
  \/ ConnectSucceeds(g)
  \/ reply[g] = "err" /\ ConnectFails(g)
  \/ ConnectGuardRetires(g) \/ ConnectGuardForces(g)

CloserRuns(d) ==
  \/ KotlinDisconnects(d) \/ KotlinDisconnectsUnknown(d)
  \/ DisconnectWoken(d) \/ DisconnectTimesOut(d)
  \/ TimeoutForces(d) \/ TimeoutSettles(d)
  \/ CloserGuardRetires(d) \/ CloserGuardForces(d)

FairSpec ==
  /\ Spec
  /\ \A g \in Gens : WF_vars(ConnectRuns(g)) /\ WF_vars(OpenSteps(g))
  /\ \A d \in Closers : WF_vars(CloserRuns(d))

=============================================================================
