-------------------------- MODULE LinuxPeripheral --------------------------
(***************************************************************************)
(* The BlueZ peripheral: starting and stopping to advertise, with the      *)
(* handles whose drop unregisters what they name (util/published.rs), the  *)
(* adapter's power cycles, and the notify sessions of one characteristic   *)
(* with the sends that use and prune them (platform/linux/peripheral.rs).  *)
(*                                                                         *)
(* A start publishes a GATT application, then an advertisement, awaiting   *)
(* BlueZ each time; both handles are named by their start.  A step is a    *)
(* section of one of the two locks, or what happens between two awaits.    *)
(* The events a section is followed by are counted with it: that another   *)
(* task's event may overtake them is not modelled.                         *)
(*                                                                         *)
(* The watcher of the adapter is a task that new() spawns.  It subscribes  *)
(* some time later, or fails to, and a power-off that falls while it is    *)
(* not subscribed is never heard of: the handles that named what it took   *)
(* are kept.                                                               *)
(***************************************************************************)
EXTENDS Integers, FiniteSets

CONSTANTS
  Starts,       \* calls of start_advertising, each made once
  Stops,        \* callers of stop_advertising
  Sessions,     \* notify sessions that centrals open
  Sends,        \* callers of notify_characteristic
  MaxPowerOffs, \* bound: how often the adapter goes off
  None,         \* no handle, no session
  Watcher       \* the task that watches the adapter

Takers == Stops \cup {Watcher}

ASSUME PeripheralAssumption ==
  /\ IsFiniteSet(Sessions)
  /\ None \notin Starts \cup Sessions
  /\ Watcher \notin Stops
  /\ MaxPowerOffs \in Nat

VARIABLES
  adv, app,         \* Published: the handles held, by the start they are of
  generation,       \* Published.power_generation
  startPc, startGen,\* where a start is, and the generation it began in
  takerPc,          \* where a stop, or the watcher, is
  takenAdv, takenApp,\* the handles it took and has yet to drop
  advs, apps,       \* what is registered with BlueZ
  powered, offs,    \* the adapter, and how often it went off
  watching,         \* the watcher: "subscribing", "watching", or "over"
  events,           \* power-offs on its stream that it has not seen yet
  unheard,          \* history: starts that lost what they registered to a power-off
                    \* the watcher was not subscribed for
  cut,              \* history: starts that lost their application to a stop
  notifiers,        \* the notify sessions held
  opened,           \* sessions there have been
  stopped,          \* sessions that have ended, as is_stopped() says
  sendPc, todo,     \* where a send is, and the sessions it has yet to serve
  holding,          \* the session whose lock it holds
  sawStopped,       \* it met a session that has ended
  subscribed        \* subscribed: true events so far, less subscribed: false

publishVars == <<adv, app, generation, startPc, startGen, cut>>
bluezVars   == <<advs, apps, powered, offs, events, watching, unheard>>
takerVars   == <<takerPc, takenAdv, takenApp>>
sessionVars == <<notifiers, opened, stopped, subscribed>>
sendVars    == <<sendPc, todo, holding, sawStopped>>
vars == <<publishVars, bluezVars, takerVars, sessionVars, sendVars>>

Init ==
  /\ adv = None /\ app = None
  /\ generation = 0
  /\ startPc = [s \in Starts |-> "idle"]
  /\ startGen = [s \in Starts |-> 0]
  /\ takerPc = [k \in Takers |-> "idle"]
  /\ takenAdv = [k \in Takers |-> None]
  /\ takenApp = [k \in Takers |-> None]
  /\ advs = {} /\ apps = {}
  /\ powered = TRUE
  /\ offs = 0 /\ events = 0
  /\ watching = "subscribing" /\ unheard = {}
  /\ cut = {}
  /\ notifiers = {}
  /\ opened = {}
  /\ stopped = {}
  /\ sendPc = [x \in Sends |-> "idle"]
  /\ todo = [x \in Sends |-> {}]
  /\ holding = [x \in Sends |-> None]
  /\ sawStopped = [x \in Sends |-> FALSE]
  /\ subscribed = 0

SetStart(s, pc) == startPc' = [startPc EXCEPT ![s] = pc]

----------------------------------------------------------------------------
(* start_advertising().                                                     *)

\* begin_start(); while an advertisement is held, AlreadyAdvertising.
BeginStart(s) ==
  /\ startPc[s] = "idle"
  /\ adv = None
  /\ SetStart(s, "serving")
  /\ startGen' = [startGen EXCEPT ![s] = generation]
  /\ UNCHANGED <<adv, app, generation, cut, bluezVars, takerVars, sessionVars,
                 sendVars>>

\* BlueZ registers the application; the start has yet to be polled.
Served(s) ==
  /\ startPc[s] = "serving"
  /\ powered
  /\ SetStart(s, "served")
  /\ apps' = apps \cup {s}
  /\ UNCHANGED <<adv, app, generation, startGen, cut, advs, powered, offs, events,
                 watching, unheard, takerVars, sessionVars, sendVars>>

\* store_app(): the handle replaced, or refused, is dropped.
StoreApp(s) ==
  /\ startPc[s] = "served"
  /\ IF startGen[s] = generation
     THEN app' = s /\ apps' = apps \ {app} /\ SetStart(s, "advertising")
     ELSE apps' = apps \ {s} /\ SetStart(s, "failed") /\ UNCHANGED app
  /\ UNCHANGED <<adv, generation, startGen, cut, advs, powered, offs, events,
                 watching, unheard, takerVars, sessionVars, sendVars>>

\* BlueZ takes the extended advertisement, or the legacy one.
Advertised(s) ==
  /\ startPc[s] = "advertising"
  /\ powered
  /\ SetStart(s, "advertised")
  /\ advs' = advs \cup {s}
  /\ UNCHANGED <<adv, app, generation, startGen, cut, apps, powered, offs, events,
                 watching, unheard, takerVars, sessionVars, sendVars>>

\* store_adv(), likewise.
StoreAdv(s) ==
  /\ startPc[s] = "advertised"
  /\ IF startGen[s] = generation
     THEN adv' = s /\ advs' = advs \ {adv} /\ SetStart(s, "done")
     ELSE advs' = advs \ {s} /\ SetStart(s, "failed") /\ UNCHANGED adv
  /\ UNCHANGED <<app, generation, startGen, cut, apps, powered, offs, events,
                 watching, unheard, takerVars, sessionVars, sendVars>>

\* BlueZ refuses, or the caller drops the future: a handle not stored yet is
\* dropped, one that was stored stays.
StartFails(s) ==
  /\ startPc[s] \in {"serving", "served", "advertising", "advertised"}
  /\ SetStart(s, "failed")
  /\ apps' = IF startPc[s] = "served" THEN apps \ {s} ELSE apps
  /\ advs' = advs \ {s}
  /\ UNCHANGED <<adv, app, generation, startGen, cut, powered, offs, events,
                 watching, unheard, takerVars, sessionVars, sendVars>>

----------------------------------------------------------------------------
(* unpublish() and power_lost(), in three steps: take, drop, end sessions.  *)

Take(k) ==
  /\ takerPc[k] = "idle"
  /\ takerPc' = [takerPc EXCEPT ![k] = "dropping"]
  /\ takenAdv' = [takenAdv EXCEPT ![k] = adv]
  /\ takenApp' = [takenApp EXCEPT ![k] = app]
  /\ adv' = None
  /\ app' = None

\* unpublish(), of a stop.
StopTakes(k) ==
  /\ Take(k)
  /\ cut' = cut \cup {s \in Starts : startPc[s] \in {"advertising", "advertised"}}
  /\ UNCHANGED <<generation, startPc, startGen, bluezVars, sessionVars, sendVars>>

\* Mutant of PowerLost: the generation goes on, the handles are kept.
PowerLostKeeps ==
  /\ events > 0
  /\ takerPc[Watcher] = "idle"
  /\ events' = events - 1
  /\ generation' = generation + 1
  /\ takerPc' = [takerPc EXCEPT ![Watcher] = "dropping"]
  /\ UNCHANGED <<adv, app, startPc, startGen, cut, advs, apps, powered, offs,
                 watching, unheard, takenAdv, takenApp, sessionVars, sendVars>>

\* power_lost(): one section retires the generation and takes the handles.
PowerLost ==
  /\ events > 0
  /\ events' = events - 1
  /\ generation' = generation + 1
  /\ Take(Watcher)
  /\ UNCHANGED <<startPc, startGen, cut, advs, apps, powered, offs, watching,
                 unheard, sessionVars, sendVars>>

\* watch_adapter(): adapter.events() answers.
WatchAdapter ==
  /\ watching = "subscribing"
  /\ watching' = "watching"
  /\ UNCHANGED <<publishVars, advs, apps, powered, offs, events, unheard, takerVars,
                 sessionVars, sendVars>>

\* It fails, or BlueZ ends the stream, of which what is queued is still seen: the
\* task returns and nothing starts it again.
WatchEnds ==
  /\ watching # "over"
  /\ watching' = "over"
  /\ UNCHANGED <<publishVars, advs, apps, powered, offs, events, unheard, takerVars,
                 sessionVars, sendVars>>

DropTaken(k) ==
  /\ takerPc[k] = "dropping"
  /\ takerPc' = [takerPc EXCEPT ![k] = "clearing"]
  /\ advs' = advs \ {takenAdv[k]}
  /\ apps' = apps \ {takenApp[k]}
  /\ takenAdv' = [takenAdv EXCEPT ![k] = None]
  /\ takenApp' = [takenApp EXCEPT ![k] = None]
  /\ UNCHANGED <<publishVars, powered, offs, events, watching, unheard,
                 sessionVars, sendVars>>

\* drop_notifiers(), reporting each session.  A stop returns, the watcher waits for
\* the next event.
ClearNotifiers(k) ==
  /\ takerPc[k] = "clearing"
  /\ takerPc' = [takerPc EXCEPT ![k] = IF k = Watcher THEN "idle" ELSE "done"]
  /\ subscribed' = subscribed - Cardinality(notifiers)
  /\ notifiers' = {}
  /\ UNCHANGED <<publishVars, bluezVars, takenAdv, takenApp, opened, stopped,
                 sendVars>>

----------------------------------------------------------------------------
(* BlueZ.                                                                   *)

\* Everything registered is gone.  A watcher that is subscribed will hear of it.
PowerOff ==
  /\ powered
  /\ offs < MaxPowerOffs
  /\ powered' = FALSE
  /\ offs' = offs + 1
  /\ IF watching = "watching"
     THEN events' = events + 1 /\ UNCHANGED unheard
     ELSE unheard' = unheard \cup advs \cup apps /\ UNCHANGED events
  /\ advs' = {}
  /\ apps' = {}
  /\ stopped' = opened
  /\ UNCHANGED <<publishVars, watching, takerVars, notifiers, opened, subscribed,
                 sendVars>>

PowerOn ==
  /\ ~powered
  /\ powered' = TRUE
  /\ UNCHANGED <<publishVars, advs, apps, offs, events, watching, unheard,
                 takerVars, sessionVars, sendVars>>

\* A central subscribes: the notify callback keeps the session and reports it.
SessionStarts(n) ==
  /\ n \notin opened
  /\ apps # {}
  /\ opened' = opened \cup {n}
  /\ notifiers' = notifiers \cup {n}
  /\ subscribed' = subscribed + 1
  /\ UNCHANGED <<publishVars, bluezVars, takerVars, stopped, sendVars>>

\* The central unsubscribes or is gone, or the application is; BlueZ is silent.
SessionStops(n) ==
  /\ n \in opened \ stopped
  /\ stopped' = stopped \cup {n}
  /\ UNCHANGED <<publishVars, bluezVars, takerVars, notifiers, opened,
                 subscribed, sendVars>>

----------------------------------------------------------------------------
(* notify_characteristic().                                                 *)

SetSend(x, pc) == sendPc' = [sendPc EXCEPT ![x] = pc]

Collect(x) ==
  /\ sendPc[x] = "idle"
  /\ SetSend(x, "sending")
  /\ todo' = [todo EXCEPT ![x] = notifiers]
  /\ UNCHANGED <<publishVars, bluezVars, takerVars, sessionVars, holding,
                 sawStopped>>

Locked(n) == \E y \in Sends : holding[y] = n

\* The lock of the next notifier: skipped if it has stopped, ...
SkipStopped(x, n) ==
  /\ sendPc[x] = "sending" /\ holding[x] = None
  /\ n \in todo[x] /\ ~Locked(n)
  /\ n \in stopped
  /\ todo' = [todo EXCEPT ![x] = @ \ {n}]
  /\ sawStopped' = [sawStopped EXCEPT ![x] = TRUE]
  /\ UNCHANGED <<publishVars, bluezVars, takerVars, sessionVars, sendPc, holding>>

\* ... kept while the value is with BlueZ otherwise, ...
Emit(x, n) ==
  /\ sendPc[x] = "sending" /\ holding[x] = None
  /\ n \in todo[x] /\ ~Locked(n)
  /\ n \notin stopped
  /\ holding' = [holding EXCEPT ![x] = n]
  /\ todo' = [todo EXCEPT ![x] = @ \ {n}]
  /\ UNCHANGED <<publishVars, bluezVars, takerVars, sessionVars, sendPc, sawStopped>>

\* ... until BlueZ answers, the paced wait is given up, or the emit fails.  Only a
\* session that has stopped may be noted.
Answered(x) ==
  /\ holding[x] # None
  /\ holding' = [holding EXCEPT ![x] = None]
  /\ \/ UNCHANGED sawStopped
     \/ holding[x] \in stopped /\ sawStopped' = [sawStopped EXCEPT ![x] = TRUE]
  /\ UNCHANGED <<publishVars, bluezVars, takerVars, sessionVars, sendPc, todo>>

Ended == {n \in notifiers : n \in stopped /\ ~Locked(n)}

\* Mutant of Prune: the sessions that had stopped are counted, not those removed.
PruneCountsAll(x) ==
  /\ sendPc[x] = "sending" /\ holding[x] = None /\ todo[x] = {}
  /\ SetSend(x, "idle")
  /\ sawStopped' = [sawStopped EXCEPT ![x] = FALSE]
  /\ IF sawStopped[x]
     THEN /\ notifiers' = notifiers \ Ended
          /\ subscribed' = subscribed - Cardinality(notifiers \cap stopped)
     ELSE UNCHANGED <<notifiers, subscribed>>
  /\ UNCHANGED <<publishVars, bluezVars, takerVars, opened, stopped, todo, holding>>

\* Under the lock, a notifier that another send holds is live.
Prune(x) ==
  /\ sendPc[x] = "sending" /\ holding[x] = None /\ todo[x] = {}
  /\ SetSend(x, "idle")
  /\ sawStopped' = [sawStopped EXCEPT ![x] = FALSE]
  /\ IF sawStopped[x]
     THEN /\ notifiers' = notifiers \ Ended
          /\ subscribed' = subscribed - Cardinality(Ended)
     ELSE UNCHANGED <<notifiers, subscribed>>
  /\ UNCHANGED <<publishVars, bluezVars, takerVars, opened, stopped, todo, holding>>

\* The caller drops the future at an await: what it holds is let go.
SendDropped(x) ==
  /\ sendPc[x] = "sending"
  /\ SetSend(x, "idle")
  /\ todo' = [todo EXCEPT ![x] = {}]
  /\ holding' = [holding EXCEPT ![x] = None]
  /\ sawStopped' = [sawStopped EXCEPT ![x] = FALSE]
  /\ UNCHANGED <<publishVars, bluezVars, takerVars, sessionVars>>

----------------------------------------------------------------------------
StartSteps(s) ==
  \/ BeginStart(s) \/ Served(s) \/ StoreApp(s) \/ Advertised(s) \/ StoreAdv(s)
  \/ StartFails(s)

TakerSteps(k) == DropTaken(k) \/ ClearNotifiers(k)

SessionSteps(n) == SessionStarts(n) \/ SessionStops(n)

SendSteps(x) ==
  \/ Collect(x) \/ Answered(x) \/ Prune(x) \/ SendDropped(x)
  \/ \E n \in Sessions : SkipStopped(x, n) \/ Emit(x, n)

Next ==
  \/ \E s \in Starts : StartSteps(s)
  \/ \E k \in Stops : StopTakes(k)
  \/ \E k \in Takers : TakerSteps(k)
  \/ \E n \in Sessions : SessionSteps(n)
  \/ \E x \in Sends : SendSteps(x)
  \/ WatchAdapter \/ WatchEnds \/ PowerLost
  \/ PowerOff \/ PowerOn

Spec == Init /\ [][Next]_vars

----------------------------------------------------------------------------
(* Properties.                                                              *)

TypeOK ==
  /\ adv \in Starts \cup {None} /\ app \in Starts \cup {None}
  /\ generation \in 0..MaxPowerOffs
  /\ startPc \in [Starts -> {"idle", "serving", "served", "advertising",
                            "advertised", "done", "failed"}]
  /\ startGen \in [Starts -> 0..MaxPowerOffs]
  /\ takerPc \in [Takers -> {"idle", "dropping", "clearing", "done"}]
  /\ takenAdv \in [Takers -> Starts \cup {None}]
  /\ takenApp \in [Takers -> Starts \cup {None}]
  /\ advs \subseteq Starts /\ apps \subseteq Starts /\ cut \subseteq Starts
  /\ powered \in BOOLEAN
  /\ offs \in 0..MaxPowerOffs /\ events \in 0..MaxPowerOffs
  /\ watching \in {"subscribing", "watching", "over"} /\ unheard \subseteq Starts
  /\ notifiers \subseteq Sessions /\ stopped \subseteq Sessions
  /\ opened \subseteq Sessions
  /\ sendPc \in [Sends -> {"idle", "sending"}]
  /\ todo \in [Sends -> SUBSET Sessions]
  /\ holding \in [Sends -> Sessions \cup {None}]
  /\ sawStopped \in [Sends -> BOOLEAN]
  /\ subscribed \in Int

\* The handles held are what BlueZ has: a held one names something registered, or
\* the watcher has a power-off to see, which will take it - or its start is one
\* that a power-off hit while the watcher was not subscribed.  That exception is a
\* gap in the code: the handle is then kept across the power cycle and refuses every
\* start until a stop.  And whatever is registered is held or about to be stored or
\* dropped, so nothing stays on air that no stop can reach.
HandlesMatch ==
  /\ adv # None => adv \in advs \/ events > 0 \/ adv \in unheard
  /\ app # None => app \in apps \/ events > 0 \/ app \in unheard
  /\ \A s \in advs :
       adv = s \/ startPc[s] = "advertised" \/ \E k \in Takers : takenAdv[k] = s
  /\ \A s \in apps :
       app = s \/ startPc[s] = "served" \/ \E k \in Takers : takenApp[k] = s

\* No advertisement's handle is held without that of an application, as it would be
\* "with no services behind it", however the power-off falls into a start - provided
\* no stop did: that one is not guarded against.
AdvHasApp == adv # None => app # None \/ adv \in cut

\* Every session is reported subscribed once and unsubscribed once, whether a
\* send, a stop or a power-off finds it ended, and though two of them look at the
\* same time: what was reported adds up to the sessions held.
SubscriptionsBalance ==
  subscribed = Cardinality(notifiers)
=============================================================================
