----------------------------- MODULE ApplePeripheral -----------------------------
(* The CoreBluetooth peripheral and the CallbackSlots it waits with. Requests *)
(* that CoreBluetooth answers by a callback run as turns on the manager's     *)
(* serial queue, where every callback runs too; notifications are sent from   *)
(* the caller's thread, under the `pending_notifies` lock. The callbacks name *)
(* a request by its key at most: the service it adds, or nothing.             *)
EXTENDS Integers, Sequences, FiniteSets

CONSTANTS
  Requests,  \* calls of add_service, start_advertising and l2cap_listener
  Notifies,  \* calls of notify_characteristic, of one subscriber
  Services,  \* services that can be added
  Notifying, \* the one of them the notified characteristic belongs to
  None

Keys == Services \cup {"adv", "psm"}

ASSUME ServicesAssumption == Notifying \in Services /\ {"adv", "psm"} \cap Services = {}
ASSUME NoneAssumption ==
  /\ None \notin Requests \cup Notifies \cup {"queue"} /\ Requests \cap Notifies = {}
  /\ "stop" \notin Requests /\ "queue" \notin Notifies

VARIABLES
  \* CoreBluetooth
  power,       \* on, off, or reset: below PoweredOff
  owes,        \* requests it has taken and not answered
  db,          \* the services of its database
  advertising, \* isAdvertising
  full,        \* its transmit queue
  owesReady,   \* an update was refused: it will report room
  cbSub,       \* the central is subscribed, as it will tell
  \* the manager's queue
  turns,       \* requests, and stops of advertising, that wait for their turn
  turn,        \* the step the queue runs
  running,     \* the request that step is for
  \* the process
  key,         \* what each request is for
  pc,          \* how far each call has got
  slot,        \* CallbackSlots: the registration each key holds
  answeredBy,  \* the request each caller was told the answer of
  chars,       \* services whose characteristics are in `chars`
  listener,    \* the l2cap_listener whose sender is in l2cap_channel_tx
  lock,        \* holder of pending_notifies
  pending,     \* notifications refused for lack of room
  sub,         \* `subscribers` holds the central
  told         \* subscriptions reported less those reported ended

cbVars == <<power, owes, db, advertising, full, owesReady, cbSub>>
turnVars == <<turns, turn, running>>
slotVars == <<key, slot, answeredBy, chars, listener>>
notifyVars == <<lock, pending>>
subVars == <<sub, told>>
vars == <<cbVars, turnVars, slotVars, pc, notifyVars, subVars>>

Stop == "stop"

Init ==
  /\ power = "on" /\ owes = {} /\ db = {} /\ advertising = FALSE
  /\ full = FALSE /\ owesReady = FALSE /\ cbSub = FALSE
  /\ turns = <<>> /\ turn = "idle" /\ running = None
  /\ key = [c \in Requests |-> None] /\ pc = [c \in Requests \cup Notifies |-> "idle"]
  /\ slot = [k \in Keys |-> None] /\ answeredBy = [c \in Requests |-> None]
  /\ chars = {} /\ listener = None /\ lock = None /\ pending = <<>>
  /\ sub = FALSE /\ told = 0

\* The serial queue takes its next turn or callback.
Free == turn = "idle"

----------------------------------------------------------------------------
(* Requests in turns                                                          *)

\* start_advertising() refuses at once while CoreBluetooth advertises.
Request(c, k) ==
  /\ pc[c] = "idle" /\ key' = [key EXCEPT ![c] = k]
  /\ IF k = "adv" /\ advertising
     THEN pc' = [pc EXCEPT ![c] = "done"] /\ UNCHANGED turns
     ELSE pc' = [pc EXCEPT ![c] = "waiting"] /\ turns' = Append(turns, c)
  /\ UNCHANGED <<cbVars, turn, running, slot, answeredBy, chars, listener, notifyVars, subVars>>

\* Mutant of GiveUp: the caller takes its registration with it.
GiveUpFreely(c) ==
  /\ c \in Requests /\ pc[c] = "waiting" /\ pc' = [pc EXCEPT ![c] = "gone"]
  /\ slot' = [k \in Keys |-> IF slot[k] = c THEN None ELSE slot[k]]
  /\ UNCHANGED <<cbVars, turnVars, key, answeredBy, chars, listener, notifyVars, subVars>>

\* await_answer times out, or its future is dropped: the slot stays held.
GiveUp(c) ==
  /\ c \in Requests /\ pc[c] = "waiting" /\ pc' = [pc EXCEPT ![c] = "gone"]
  /\ UNCHANGED <<cbVars, turnVars, slotVars, notifyVars, subVars>>

StopAdvertising ==
  /\ \A i \in DOMAIN turns : turns[i] # Stop
  /\ turns' = Append(turns, Stop)
  /\ UNCHANGED <<cbVars, turn, running, slotVars, pc, notifyVars, subVars>>

\* submit: a request whose caller gave up, or without power, is not issued.
BeginTurn ==
  /\ Free /\ turns # <<>> /\ turns' = Tail(turns)
  /\ LET c == Head(turns) IN
     \/ /\ c = Stop /\ advertising' = FALSE
        /\ UNCHANGED <<turn, running, pc>>
     \/ /\ c # Stop /\ (pc[c] = "gone" \/ power # "on")
        /\ pc' = [pc EXCEPT ![c] = "done"]
        /\ UNCHANGED <<turn, running, advertising>>
     \/ /\ c # Stop /\ pc[c] = "waiting" /\ power = "on"
        /\ turn' = "register" /\ running' = c
        /\ UNCHANGED <<pc, advertising>>
  /\ UNCHANGED <<power, owes, db, full, owesReady, cbSub, slotVars, notifyVars, subVars>>

\* A request that finds its key held is refused.
Register ==
  /\ turn = "register"
  /\ LET k == key[running] IN
     IF slot[k] = None
     THEN slot' = [slot EXCEPT ![k] = running] /\ turn' = "issue" /\ UNCHANGED <<running, pc>>
     ELSE /\ pc' = [pc EXCEPT ![running] = "done"]
          /\ turn' = "idle" /\ running' = None /\ UNCHANGED slot
  /\ UNCHANGED <<cbVars, turns, key, answeredBy, chars, listener, notifyVars, subVars>>

\* A listener stores its sender in the turn that publishes.
Issue ==
  /\ turn = "issue" /\ turn' = "idle" /\ running' = None
  /\ listener' = IF key[running] = "psm" THEN running ELSE listener
  /\ owes' = IF power = "on" THEN owes \cup {running} ELSE owes
  /\ UNCHANGED <<power, db, advertising, full, owesReady, cbSub, turns, key, slot, answeredBy, chars,
                 pc, notifyVars, subVars>>

\* Callers of S have their answer.
Told(S) == [c \in DOMAIN pc |-> IF c \in S /\ pc[c] = "waiting" THEN "done" ELSE pc[c]]

\* service_added: the characteristics join `chars` even if the caller left.
CharsAfter(p, k) == IF p # None /\ k \in Services THEN chars \cup {k} ELSE chars

\* didAddService, didStartAdvertising, didPublishL2CAPChannel: CoreBluetooth
\* answers c, and the registration under its key is told.
DidAnswer(c) ==
  LET k == key[c]
      p == slot[k]
  IN /\ Free /\ c \in owes /\ owes' = owes \ {c}
     /\ slot' = [slot EXCEPT ![k] = None] /\ pc' = Told({p})
     /\ answeredBy' = [d \in Requests |-> IF d = p THEN c ELSE answeredBy[d]]
     /\ \/ /\ db' = db \cup ({k} \cap Services) /\ chars' = CharsAfter(p, k)
           /\ advertising' = (k = "adv" \/ advertising)
        \/ UNCHANGED <<db, chars, advertising>>
     /\ UNCHANGED <<power, full, owesReady, cbSub, turnVars, key, listener, notifyVars, subVars>>

----------------------------------------------------------------------------
(* Power                                                                      *)

\* Leaving PoweredOn, CoreBluetooth drops what it owed; below PoweredOff its
\* database too. Its delegate runs power_down.
DidUpdateState(s) ==
  /\ Free /\ s # power /\ power' = s
  /\ IF s = "on" THEN UNCHANGED <<owes, db, advertising, full, owesReady, turn>>
     ELSE /\ owes' = {} /\ advertising' = FALSE /\ full' = FALSE /\ owesReady' = FALSE
          /\ db' = IF s = "reset" THEN {} ELSE db
          /\ turn' = "drain_slots"
  /\ UNCHANGED <<cbSub, turns, running, slotVars, pc, notifyVars, subVars>>

PowerDownSlots ==
  /\ turn = "drain_slots" /\ turn' = "drain_notifies"
  /\ slot' = [k \in Keys |-> None] /\ pc' = Told({slot[k] : k \in Keys})
  /\ listener' = None
  /\ UNCHANGED <<cbVars, turns, running, key, answeredBy, chars, notifyVars, subVars>>

\* Under the lock: queued notifications fail and the subscribers go; those
\* are then reported unsubscribed.
PowerDownNotifies ==
  /\ turn = "drain_notifies" /\ lock = None /\ turn' = "idle"
  /\ pending' = <<>>
  /\ pc' = [c \in DOMAIN pc |-> IF pc[c] = "queued" THEN "done" ELSE pc[c]]
  /\ chars' = IF power = "reset" THEN {} ELSE chars
  /\ sub' = FALSE /\ told' = IF sub THEN told - 1 ELSE told
  /\ UNCHANGED <<cbVars, turns, running, key, slot, answeredBy, listener, lock>>

----------------------------------------------------------------------------
(* Subscriptions and notifications                                            *)

DidSubscribe ==
  /\ Free /\ power = "on" /\ Notifying \in db /\ ~cbSub
  /\ cbSub' = TRUE /\ sub' = TRUE /\ told' = told + 1
  /\ UNCHANGED <<power, owes, db, advertising, full, owesReady, turnVars, slotVars, pc, notifyVars>>

\* It may also come for a subscription that power_down has reported.
DidUnsubscribe ==
  /\ Free /\ cbSub /\ cbSub' = FALSE
  /\ sub' = FALSE /\ told' = IF sub THEN told - 1 ELSE told
  /\ UNCHANGED <<power, owes, db, advertising, full, owesReady, turnVars, slotVars, pc, notifyVars>>

\* try_update_value finds no characteristic or no subscriber, is accepted, or
\* is refused; a refusal is answered by a report of room.
Undeliverable == Notifying \notin chars \/ ~sub
Accepted == ~Undeliverable /\ power = "on" /\ ~full
Refused == ~Undeliverable /\ (power # "on" \/ full)

\* Mutant of LockFree: nothing excludes a retry from an attempt.
NoLock == TRUE
LockFree == lock = None

\* notify_characteristic: attempt, and enqueue under the same lock.
Notify(n) ==
  /\ pc[n] = "idle" /\ LockFree
  /\ \/ /\ Undeliverable /\ pc' = [pc EXCEPT ![n] = "done"] /\ UNCHANGED <<full, owesReady, lock>>
     \/ /\ Accepted /\ pc' = [pc EXCEPT ![n] = "done"] /\ full' \in BOOLEAN
        /\ UNCHANGED <<owesReady, lock>>
     \/ /\ Refused /\ pc' = [pc EXCEPT ![n] = "refused"]
        /\ owesReady' = (power = "on") /\ lock' = n /\ UNCHANGED full
  /\ UNCHANGED <<power, owes, db, advertising, cbSub, turnVars, slotVars, pending, subVars>>

Enqueue(n) ==
  /\ pc[n] = "refused" /\ pc' = [pc EXCEPT ![n] = "queued"]
  /\ pending' = Append(pending, n) /\ lock' = None
  /\ UNCHANGED <<cbVars, turnVars, slotVars, subVars>>

\* peripheralManagerIsReadyToUpdateSubscribers.
DidBecomeReady ==
  /\ Free /\ owesReady /\ owesReady' = FALSE /\ full' = FALSE /\ turn' = "drain"
  /\ UNCHANGED <<power, owes, db, advertising, cbSub, turns, running, slotVars, pc, notifyVars,
                 subVars>>

\* drain_pending_notifies, one notification at a time, with the lock held.
Drain ==
  /\ turn = "drain" /\ (LockFree \/ lock = "queue")
  /\ \/ /\ pending = <<>> \/ Refused
        /\ turn' = "idle" /\ lock' = None
        /\ owesReady' = (pending # <<>>) /\ UNCHANGED <<full, pending, pc>>
     \/ /\ pending # <<>> /\ ~Refused
        /\ lock' = "queue" /\ pending' = Tail(pending)
        /\ pc' = [pc EXCEPT ![Head(pending)] = "done"]
        /\ full' \in (IF Accepted THEN BOOLEAN ELSE {full})
        /\ UNCHANGED <<turn, owesReady>>
  /\ UNCHANGED <<power, owes, db, advertising, cbSub, turns, running, slotVars, subVars>>

----------------------------------------------------------------------------

Next ==
  \/ StopAdvertising \/ BeginTurn \/ Register \/ Issue
  \/ PowerDownSlots \/ PowerDownNotifies
  \/ DidSubscribe \/ DidUnsubscribe \/ DidBecomeReady \/ Drain
  \/ \E s \in {"on", "off", "reset"} : DidUpdateState(s)
  \/ \E c \in Requests : GiveUp(c) \/ DidAnswer(c) \/ \E k \in Keys : Request(c, k)
  \/ \E n \in Notifies : Notify(n) \/ Enqueue(n)

Spec == Init /\ [][Next]_vars

----------------------------------------------------------------------------
(* Properties                                                                 *)

TypeOK ==
  /\ power \in {"on", "off", "reset"} /\ owes \subseteq Requests /\ db \subseteq Services
  /\ advertising \in BOOLEAN /\ full \in BOOLEAN /\ owesReady \in BOOLEAN /\ cbSub \in BOOLEAN
  /\ turns \in Seq(Requests \cup {Stop})
  /\ turn \in {"idle", "register", "issue", "drain_slots", "drain_notifies", "drain"}
  /\ running \in Requests \cup {None}
  /\ key \in [Requests -> Keys \cup {None}] /\ slot \in [Keys -> Requests \cup {None}]
  /\ pc \in [Requests \cup Notifies -> {"idle", "waiting", "gone", "refused", "queued", "done"}]
  /\ answeredBy \in [Requests -> Requests \cup {None}]
  /\ chars \subseteq Services /\ listener \in Requests \cup {None}
  /\ lock \in Notifies \cup {"queue", None} /\ pending \in Seq(Notifies)
  /\ sub \in BOOLEAN /\ told \in 0..1

\* The answer a caller gets is that of its own request, though callbacks name
\* only the key and callers give up on requests that are answered later.
OwnAnswer == \A c \in Requests : answeredBy[c] \in {c, None}

\* Between turns, a registration is owed a callback, and nothing CoreBluetooth
\* dropped by losing power is still waited for.
RegistrationsOwed ==
  turn = "idle" => /\ \A k \in Keys : slot[k] # None => slot[k] \in owes
                   /\ power # "on" => listener = None /\ ~sub

\* A queued notification has room to come, or the queue about to retry or fail it.
NotificationsOwed ==
  lock = None /\ pending # <<>> => owesReady \/ turn \in {"drain", "drain_slots", "drain_notifies"}

\* Nobody waits for ever: whatever interleaves with a loss of power, no slot stays
\* held for an answer that cannot come, and no notification stays queued.
NothingStranded == RegistrationsOwed /\ NotificationsOwed

=============================================================================
