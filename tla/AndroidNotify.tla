---------------------------- MODULE AndroidNotify ----------------------------
(***************************************************************************)
(* Notifications from an Android peripheral to ONE subscribed device: the  *)
(* gate that lets one send at a time through (util/notify_gate.rs), the    *)
(* hand-off over JNI, and the two Kotlin handlers that report what became  *)
(* of it (onNotificationSent and the disconnects of                        *)
(* BlePeripheralManager.kt).                                               *)
(*                                                                         *)
(* A callback names the device only, so it resolves whichever send is      *)
(* registered when it comes.  The rule that makes this right is that a     *)
(* send whose caller has gone stays registered, and keeps the gate.        *)
(*                                                                         *)
(* A step is a section of the Rust lock around the gates, a poll of the    *)
(* semaphore, or one access of Kotlin's connectedDevices.                  *)
(***************************************************************************)
EXTENDS Naturals, Sequences, FiniteSets

CONSTANTS
  Sends,       \* the sends an application makes, each once
  MaxLinks,    \* bound: how often the device connects
  None,        \* no send
  Gone         \* the result "disconnected during operation"

ASSUME SendsAssumption ==
  /\ IsFiniteSet(Sends)
  /\ None \notin Sends /\ Gone \notin Sends /\ None # Gone
  /\ "connected" \notin Sends /\ "disconnected" \notin Sends
  /\ MaxLinks \in Nat

NoGate == 0

\* More gates than the sends ever need: one each, when the last was forgotten.
Gates == 1..(2 * Cardinality(Sends))

VARIABLES
  sendPc,      \* where a send is
  gateOf,      \* the gate a send holds a clone of: its own, or its permit's
  device,      \* devices[addr].gate, NoGate when the entry is absent
  gatesMade,   \* how many gates were created so far
  permit,      \* the send each semaphore's one permit belongs to, or None
  line,        \* the sends waiting on each semaphore, oldest first
  flight,      \* devices[addr].in_flight: the registered send, or None
  waiter,      \* its oneshot is still there: not abandoned
  result,      \* what a send's oneshot holds: the send whose callback
               \* resolved it, or Gone
  connected,   \* connectedDevices has the device
  link,        \* the device is connected, as the stack knows it
  links,       \* how often it has connected
  owed,        \* the send the stack has taken and not called back for
  inbox,       \* callbacks posted to the binder thread and not yet run
  binder,      \* what the binder thread is doing
  receiver,    \* what the adapter state receiver, on the main thread, is doing
  strays       \* history: sends a disconnect cleared too early

gateVars   == <<gateOf, device, gatesMade, permit, line, flight, waiter, result>>
stackVars  == <<link, links, owed, inbox>>
kotlinVars == <<connected, binder, receiver>>
vars == <<sendPc, gateVars, kotlinVars, stackVars, strays>>

Init ==
  /\ sendPc = [s \in Sends |-> "idle"]
  /\ gateOf = [s \in Sends |-> NoGate]
  /\ device = NoGate
  /\ gatesMade = 0
  /\ permit = [g \in Gates |-> None]
  /\ line = [g \in Gates |-> <<>>]
  /\ flight = None
  /\ waiter = FALSE
  /\ result = [s \in Sends |-> None]
  /\ connected = FALSE
  /\ binder = "idle"
  /\ receiver = "idle"
  /\ link = FALSE
  /\ links = 0
  /\ owed = None
  /\ inbox = <<>>
  /\ strays = {}

SetSend(s, pc) == sendPc' = [sendPc EXCEPT ![s] = pc]

----------------------------------------------------------------------------
(* The gates.                                                               *)

\* entry().or_insert_with(): the device's entry, with a new gate if absent.
EnsureDevice ==
  IF device = NoGate
  THEN device' = gatesMade + 1 /\ gatesMade' = gatesMade + 1
  ELSE UNCHANGED <<device, gatesMade>>

\* A send gives up its place in a line.
LeaveLine(q, s) ==
  LET places == {i \in 1..Len(q) : q[i] = s} IN
    IF places = {} THEN q
    ELSE LET i == CHOOSE j \in places : TRUE
         IN  SubSeq(q, 1, i - 1) \o SubSeq(q, i + 1, Len(q))

\* A send drops its clone of the gate, and with it its place in line or its
\* permit, which goes to the next in line.
LetGo(s) ==
  LET g == gateOf[s] IN
    /\ gateOf' = [gateOf EXCEPT ![s] = NoGate]
    /\ IF permit[g] # s
       THEN /\ line' = [line EXCEPT ![g] = LeaveLine(@, s)]
            /\ UNCHANGED permit
       ELSE IF line[g] = <<>>
            THEN permit' = [permit EXCEPT ![g] = None] /\ UNCHANGED line
            ELSE /\ permit' = [permit EXCEPT ![g] = Head(line[g])]
                 /\ line' = [line EXCEPT ![g] = Tail(@)]

\* forget_if_idle(), at the end of a section: nothing registered and the entry
\* holds the last reference to its gate.
ForgetIfIdle ==
  device' = IF flight' = None /\ \A s \in Sends : gateOf'[s] # device
            THEN NoGate ELSE device

\* complete(): an abandoned send is cleared without a result.
CompleteFlight(value) ==
  /\ flight' = None
  /\ waiter' = FALSE
  /\ IF flight = None
     THEN UNCHANGED <<gateOf, permit, line, result>>
     ELSE /\ result' = IF waiter THEN [result EXCEPT ![flight] = value] ELSE result
          /\ LetGo(flight)
  /\ ForgetIfIdle
  /\ UNCHANGED gatesMade

\* The value of s may still reach the stack, or its callback be run.
MayCallBack(s) ==
  \/ sendPc[s] \in {"registered", "found"}
  \/ owed = s
  \/ \E i \in 1..Len(inbox) : inbox[i] = s

\* disconnect(): "no callback will arrive for its send" - unless it strays.
DisconnectGate ==
  /\ strays' = IF flight # None /\ MayCallBack(flight)
               THEN strays \cup {flight} ELSE strays
  /\ CompleteFlight(Gone)

----------------------------------------------------------------------------
(* send(), in Rust.                                                         *)

Enter(s) ==
  /\ sendPc[s] = "idle"
  /\ SetSend(s, "entering")
  /\ EnsureDevice
  /\ gateOf' = [gateOf EXCEPT ![s] = device']
  /\ UNCHANGED <<permit, line, flight, waiter, result, kotlinVars, stackVars,
                 strays>>

\* First poll of acquire_owned(): the permit is there, ...
Acquire(s) ==
  /\ sendPc[s] = "entering"
  /\ permit[gateOf[s]] = None
  /\ permit' = [permit EXCEPT ![gateOf[s]] = s]
  /\ SetSend(s, "permitted")
  /\ UNCHANGED <<gateOf, device, gatesMade, line, flight, waiter, result,
                 kotlinVars, stackVars, strays>>

\* ... or the send stands in line.
Queue(s) ==
  /\ sendPc[s] = "entering"
  /\ permit[gateOf[s]] # None
  /\ line' = [line EXCEPT ![gateOf[s]] = Append(@, s)]
  /\ SetSend(s, "queued")
  /\ UNCHANGED <<gateOf, device, gatesMade, permit, flight, waiter, result,
                 kotlinVars, stackVars, strays>>

Granted(s) ==
  /\ sendPc[s] = "queued"
  /\ permit[gateOf[s]] = s
  /\ SetSend(s, "permitted")
  /\ UNCHANGED <<gateVars, kotlinVars, stackVars, strays>>

\* The deadline passes in line, if only just before the permit was granted ...
GateTimesOut(s) ==
  /\ sendPc[s] = "queued"
  /\ LetGo(s)
  /\ SetSend(s, "leaving")
  /\ UNCHANGED <<device, gatesMade, flight, waiter, result, kotlinVars,
                 stackVars, strays>>

\* ... and the entry may be idle now.
Leave(s) ==
  /\ sendPc[s] = "leaving"
  /\ SetSend(s, "done")
  /\ UNCHANGED flight
  /\ UNCHANGED gateOf
  /\ ForgetIfIdle
  /\ UNCHANGED <<gatesMade, permit, line, waiter, result, kotlinVars, stackVars,
                 strays>>

\* The caller drops the future in line.
DroppedInLine(s) ==
  /\ sendPc[s] = "queued"
  /\ LetGo(s)
  /\ SetSend(s, "done")
  /\ UNCHANGED <<device, gatesMade, flight, waiter, result, kotlinVars,
                 stackVars, strays>>

\* begin(), before the hand-off: the callback may come before it returns.
Register(s) ==
  /\ sendPc[s] = "permitted"
  /\ SetSend(s, "registered")
  /\ EnsureDevice
  /\ flight' = s
  /\ waiter' = TRUE
  /\ UNCHANGED <<gateOf, permit, line, result, kotlinVars, stackVars, strays>>

\* notifyCharacteristic() finds the device in connectedDevices.
FindDevice(s) ==
  /\ sendPc[s] = "registered"
  /\ connected
  /\ SetSend(s, "found")
  /\ UNCHANGED <<gateVars, kotlinVars, stackVars, strays>>

\* The stack takes the value.  It takes one for each device until it has called
\* back, and "drops or refuses a second"; of a link that is gone it may say
\* either, and calls back no more.
StackTakes(s) ==
  /\ sendPc[s] = "found"
  /\ SetSend(s, "waiting")
  /\ owed' = IF link /\ owed = None THEN s ELSE owed
  /\ UNCHANGED <<gateVars, kotlinVars, link, links, inbox, strays>>

\* Not connected, not subscribed, unknown characteristic, refused by the stack,
\* or the JNI call failed.
HandOffDeclined(s) ==
  /\ sendPc[s] \in {"registered", "found"}
  /\ SetSend(s, "declined")
  /\ UNCHANGED <<gateVars, kotlinVars, stackVars, strays>>

\* withdraw(), unless the send is not registered any more.
Withdraw(s) ==
  /\ sendPc[s] = "declined"
  /\ SetSend(s, "done")
  /\ IF flight = s
     THEN flight' = None /\ waiter' = FALSE /\ LetGo(s)
     ELSE UNCHANGED <<flight, waiter, gateOf, permit, line>>
  /\ ForgetIfIdle
  /\ UNCHANGED <<gatesMade, result, kotlinVars, stackVars, strays>>

Resolved(s) ==
  /\ sendPc[s] = "waiting"
  /\ result[s] # None
  /\ SetSend(s, "done")
  /\ UNCHANGED <<gateVars, kotlinVars, stackVars, strays>>

\* The deadline passes, or the caller drops the future: Registration drops.
GiveUp(s) ==
  /\ sendPc[s] = "waiting"
  /\ SetSend(s, "abandoning")
  /\ UNCHANGED <<gateVars, kotlinVars, stackVars, strays>>

\* Mutant of Abandon: the send is withdrawn with its caller.
AbandonFrees(s) ==
  /\ sendPc[s] = "abandoning"
  /\ SetSend(s, "done")
  /\ IF flight = s
     THEN flight' = None /\ waiter' = FALSE /\ LetGo(s)
     ELSE UNCHANGED <<flight, waiter, gateOf, permit, line>>
  /\ ForgetIfIdle
  /\ UNCHANGED <<gatesMade, result, kotlinVars, stackVars, strays>>

\* abandon(): still registered, still holding the gate, heard by nobody.
Abandon(s) ==
  /\ sendPc[s] = "abandoning"
  /\ SetSend(s, "done")
  /\ waiter' = (waiter /\ flight # s)
  /\ UNCHANGED <<gateOf, device, gatesMade, permit, line, flight, result,
                 kotlinVars, stackVars, strays>>

----------------------------------------------------------------------------
(* The stack, and the Kotlin handlers.                                      *)

\* Not while the adapter is off, nor before the receiver has heard it went off:
\* a power cycle takes longer than a broadcast.
LinkUp ==
  /\ ~link
  /\ receiver = "idle"
  /\ links < MaxLinks
  /\ link' = TRUE
  /\ links' = links + 1
  /\ inbox' = Append(inbox, "connected")
  /\ UNCHANGED <<sendPc, gateVars, kotlinVars, owed, strays>>

\* No callback follows for what the stack had taken.
LinkDown ==
  /\ link
  /\ link' = FALSE
  /\ owed' = None
  /\ inbox' = Append(inbox, "disconnected")
  /\ UNCHANGED <<sendPc, gateVars, kotlinVars, links, strays>>

\* The adapter goes off: the link is lost, the stack need not say so, and the
\* receiver is told.
PowerOff ==
  /\ link
  /\ receiver = "idle"
  /\ link' = FALSE
  /\ owed' = None
  /\ receiver' = "due"
  /\ inbox' \in {inbox, Append(inbox, "disconnected")}
  /\ UNCHANGED <<sendPc, gateVars, connected, binder, links, strays>>

\* The stack is done with the value.
Confirm ==
  /\ owed # None
  /\ inbox' = Append(inbox, owed)
  /\ owed' = None
  /\ UNCHANGED <<sendPc, gateVars, kotlinVars, link, links, strays>>

BinderFree == binder = "idle" /\ inbox # <<>>

ConnectedCallback ==
  /\ BinderFree
  /\ Head(inbox) = "connected"
  /\ inbox' = Tail(inbox)
  /\ connected' = TRUE
  /\ UNCHANGED <<sendPc, gateVars, binder, receiver, link, links, owed, strays>>

\* Taking the device out of the map decides who reports it gone.
DisconnectedCallback ==
  /\ BinderFree
  /\ Head(inbox) = "disconnected"
  /\ inbox' = Tail(inbox)
  /\ connected' = FALSE
  /\ binder' = IF connected THEN "reporting" ELSE "idle"
  /\ UNCHANGED <<sendPc, gateVars, receiver, link, links, owed, strays>>

\* Mutant of BinderReports: nobody tells the gate.
BinderSaysNothing ==
  /\ binder = "reporting"
  /\ binder' = "idle"
  /\ UNCHANGED <<sendPc, gateVars, connected, receiver, stackVars, strays>>

BinderReports ==
  /\ binder = "reporting"
  /\ binder' = "idle"
  /\ DisconnectGate
  /\ UNCHANGED <<sendPc, connected, receiver, stackVars>>

\* onNotificationSent: the send is not named, and whichever is registered is
\* resolved.
NotificationSent ==
  /\ BinderFree
  /\ Head(inbox) \in Sends
  /\ inbox' = Tail(inbox)
  /\ CompleteFlight(Head(inbox))
  /\ UNCHANGED <<sendPc, kotlinVars, link, links, owed, strays>>

\* onAdapterOff.  The broadcast comes at the end of the adapter's shutdown, when
\* connections reported before it have been seen; a disconnect may still come.
ReceiverRemoves ==
  /\ receiver = "due"
  /\ \A i \in 1..Len(inbox) : inbox[i] # "connected"
  /\ connected' = FALSE
  /\ receiver' = IF connected THEN "reporting" ELSE "idle"
  /\ UNCHANGED <<sendPc, gateVars, binder, stackVars, strays>>

ReceiverReports ==
  /\ receiver = "reporting"
  /\ receiver' = "idle"
  /\ DisconnectGate
  /\ UNCHANGED <<sendPc, connected, binder, stackVars>>

----------------------------------------------------------------------------
SendSteps(s) ==
  \/ Enter(s) \/ Acquire(s) \/ Queue(s) \/ Granted(s) \/ GateTimesOut(s)
  \/ Leave(s) \/ DroppedInLine(s) \/ Register(s) \/ FindDevice(s)
  \/ StackTakes(s) \/ HandOffDeclined(s) \/ Withdraw(s) \/ Resolved(s)
  \/ GiveUp(s) \/ Abandon(s)

StackSteps == LinkUp \/ LinkDown \/ PowerOff \/ Confirm

BinderSteps ==
  \/ ConnectedCallback \/ DisconnectedCallback \/ BinderReports
  \/ NotificationSent

ReceiverSteps == ReceiverRemoves \/ ReceiverReports

Next ==
  \/ \E s \in Sends : SendSteps(s)
  \/ StackSteps \/ BinderSteps \/ ReceiverSteps

Spec == Init /\ [][Next]_vars

----------------------------------------------------------------------------
(* Properties.                                                              *)

TypeOK ==
  /\ sendPc \in [Sends -> {"idle", "entering", "queued", "leaving", "permitted",
                          "registered", "found", "waiting", "declined",
                          "abandoning", "done"}]
  /\ gateOf \in [Sends -> Gates \cup {NoGate}]
  /\ device \in Gates \cup {NoGate}
  /\ gatesMade \in 0..Cardinality(Sends)
  /\ permit \in [Gates -> Sends \cup {None}]
  /\ line \in [Gates -> Seq(Sends)]
  /\ flight \in Sends \cup {None}
  /\ waiter \in BOOLEAN
  /\ result \in [Sends -> Sends \cup {None, Gone}]
  /\ connected \in BOOLEAN /\ link \in BOOLEAN
  /\ links \in 0..MaxLinks
  /\ owed \in Sends \cup {None}
  /\ inbox \in Seq(Sends \cup {"connected", "disconnected"})
  /\ binder \in {"idle", "reporting"}
  /\ receiver \in {"idle", "due", "reporting"}
  /\ strays \subseteq Sends

\* A callback or the report of a disconnect is on its way.
ReportIsComing ==
  \/ owed # None
  \/ \E i \in 1..Len(inbox) : inbox[i] \in Sends \cup {"disconnected"}
  \/ binder = "reporting" \/ receiver # "idle"

\* A send that was handed over keeps the gate only while something is still to
\* come that frees it - though its caller be gone: the gate does not stay shut
\* on a value the stack has forgotten.
GateIsOwed ==
  (flight # None /\ sendPc[flight] \in {"waiting", "abandoning", "done"})
    => ReportIsComing

\* ... and the stack is not given a second value for the device, which it may
\* drop silently, while it has one.
NeverSecond ==
  [][\A s \in Sends : (sendPc[s] = "found" /\ sendPc'[s] = "waiting")
       => owed = None \/ strays # {}]_vars
=============================================================================
