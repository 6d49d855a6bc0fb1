------------------------------ MODULE AppleCentral ------------------------------
(* The CoreBluetooth central, for one device and one characteristic of it.    *)
(* CoreBluetooth runs every callback, and every turn blew posts, one at a time*)
(* on one serial queue (`queueStep`); the callers of the API run beside it on *)
(* other threads, so a call that looks the device up, registers its waiter and*)
(* makes its request can find a disconnect between any two of the three. A    *)
(* callback names the device and the characteristic but not the request it    *)
(* answers, so `waiter` holds one for each kind of request, and the next      *)
(* callback of that kind is taken for its answer.                             *)
(*                                                                            *)
(* What the manager sees of a connection is always called back. What the      *)
(* peripheral says goes to its delegate, which only connect() sets: a device  *)
(* handed back by restoration and used without a connect() has none, and what *)
(* it says is lost.                                                           *)
EXTENDS Naturals, Sequences, FiniteSets

CONSTANTS
  Connectors,   \* calls of connect()
  Askers,       \* calls of an operation that CoreBluetooth answers
  Writers,      \* calls of a write without response
  Kinds,        \* the operations: discover, read, write, notify, l2cap
  ServiceCount, \* services the device has
  MaxLinks,     \* bound: connections the device makes
  MaxCancels,   \* bound: calls of disconnect()
  Timed,        \* whether CentralConfig has a connect_timeout
  Nobody        \* no waiter

ASSUME CallsAssumption ==
  /\ Connectors \cap Askers = {} /\ Connectors \cap Writers = {}
  /\ Askers \cap Writers = {} /\ Nobody \notin Connectors \cup Askers \cup Writers
  /\ Writers \cap {"idle", "remove", "bump", "fail", "ready"} = {}
ASSUME KindsAssumption == {"discover", "read"} \subseteq Kinds /\ "connect" \notin Kinds
ASSUME BoundAssumption ==
  ServiceCount \in Nat \ {0} /\ MaxLinks \in Nat \ {0} /\ MaxCancels \in Nat /\ Timed \in BOOLEAN

VARIABLES
  \* CoreBluetooth
  link,         \* the connection the device has, 0 for none
  links,        \* connections made so far
  trying,       \* connectPeripheral asked, neither connected nor cancelled
  cmds,         \* connect and cancel requests on their way to CoreBluetooth
  asked,        \* requests of each kind it will still answer
  charsDue,     \* services whose characteristics it will still report
  room,         \* canSendWriteWithoutResponse
  queueStep,    \* what the serial queue runs: a step of a disconnect, a writer, idle
  writeTurns,   \* write turns posted to the queue
  \* the process
  held,         \* the device is in `peripherals`
  delegate,     \* a connect() has set the delegate of the CBPeripheral
  disconnects,  \* DisconnectCounts of the device
  waiter,       \* the waiter of each kind of request
  remaining,    \* DiscoveryState.pending
  callPc,       \* how far each call has got
  kind,         \* what each asker asks
  conn,         \* the connection count each writer captured
  issuedOn,     \* the connection there was when it did
  missed,       \* history: calls whose callback came with no delegate to take it
  notified,     \* writers whose Notified has fired
  expired,      \* writers past their deadline
  sent          \* the connections each writer's value went out on

linkVars == <<link, links, trying, cmds, asked, charsDue, room>>
queueVars == <<queueStep, writeTurns>>
mapVars == <<held, delegate, disconnects, waiter, remaining>>
writeVars == <<conn, issuedOn, missed, notified, expired, sent>>
centralVars == <<linkVars, queueVars, mapVars, callPc, kind, writeVars>>

Calls == Connectors \cup Askers \cup Writers
AllKinds == Kinds \cup {"connect"}

\* Nothing yet, or a connected device that willRestoreState handed back: without a
\* delegate, and with or without room for a write.
CentralInit ==
  /\ link \in 0..1 /\ links = link /\ trying = FALSE /\ cmds = <<>>
  /\ asked = [k \in Kinds |-> 0] /\ charsDue = 0
  /\ room \in BOOLEAN /\ (room => link = 1)
  /\ queueStep = "idle" /\ writeTurns = <<>>
  /\ held = (link = 1) /\ delegate = FALSE /\ disconnects = 0
  /\ waiter = [k \in AllKinds |-> Nobody] /\ remaining = 0
  /\ callPc = [c \in Calls |-> "idle"]
  /\ kind = [q \in Askers |-> Nobody]
  /\ conn = [w \in Writers |-> 0] /\ issuedOn = [w \in Writers |-> 0]
  /\ missed = {} /\ notified = {} /\ expired = {}
  /\ sent = [w \in Writers |-> <<>>]

\* `callPc` once the calls of S have their results: one that has yet to make its
\* request makes it still, and finds the result when it comes to wait.
WithTold(S) ==
  [c \in Calls |-> CASE c \in S /\ callPc[c] \in {"waiting", "unheard"} -> "done"
                     [] c \in S /\ callPc[c] = "registered" -> "told"
                     [] OTHER -> callPc[c]]

\* A callback of kind k takes the waiter there is and answers it.
Answer(k) ==
  /\ waiter' = [waiter EXCEPT ![k] = Nobody]
  /\ callPc' = WithTold({waiter[k]})

\* Without a delegate there is no callback, and the waiter is left as it is.
GoesUnheard(k) ==
  /\ ~delegate
  /\ missed' = missed \cup ({waiter[k]} \ {Nobody})
  /\ UNCHANGED <<waiter, callPc>>

----------------------------------------------------------------------------
(* connect() and disconnect()                                                 *)

\* A scan result or a restored peripheral puts the device in the map.
DidDiscover ==
  /\ queueStep = "idle" /\ held' = TRUE
  /\ UNCHANGED <<linkVars, queueVars, delegate, disconnects, waiter, remaining, callPc,
                 kind, writeVars>>

\* known_peripheral finds the device, or retrieves it and holds it again.
KnownPeripheral(c) ==
  /\ callPc[c] = "idle" /\ callPc' = [callPc EXCEPT ![c] = "known"]
  /\ held' = TRUE
  /\ UNCHANGED <<linkVars, queueVars, delegate, disconnects, waiter, remaining, kind,
                 writeVars>>

\* connects.try_insert: only one connect() may be in flight.
RegisterConnect(c) ==
  /\ callPc[c] = "known"
  /\ IF waiter["connect"] = Nobody
     THEN /\ waiter' = [waiter EXCEPT !["connect"] = c]
          /\ callPc' = [callPc EXCEPT ![c] = "registered"]
     ELSE callPc' = [callPc EXCEPT ![c] = "done"] /\ UNCHANGED waiter
  /\ UNCHANGED <<linkVars, queueVars, held, delegate, disconnects, remaining, kind,
                 writeVars>>

\* setDelegate, and then the request.
ConnectPeripheral(c) ==
  /\ c \in Connectors /\ callPc[c] \in {"registered", "told"}
  /\ delegate' = TRUE
  /\ cmds' = Append(cmds, "connect")
  /\ callPc' = [callPc EXCEPT ![c] = IF @ = "told" THEN "done" ELSE "waiting"]
  /\ UNCHANGED <<link, links, trying, asked, charsDue, room, queueVars, held,
                 disconnects, waiter, remaining, kind, writeVars>>

\* The timeout fires before the result is there; takes whatever waiter there
\* is by then; cancels the attempt; reports a disconnect.
ConnectTimeout(c) ==
  /\ Timed
  /\ \/ /\ callPc[c] = "waiting" /\ callPc' = [callPc EXCEPT ![c] = "expiring"]
        /\ UNCHANGED <<cmds, waiter>>
     \/ /\ callPc[c] = "expiring"
        /\ waiter' = [waiter EXCEPT !["connect"] = Nobody]
        /\ callPc' = [WithTold({waiter["connect"]}) EXCEPT ![c] = "cancelling"]
        /\ UNCHANGED cmds
     \/ /\ callPc[c] = "cancelling" /\ callPc' = [callPc EXCEPT ![c] = "done"]
        /\ cmds' = Append(cmds, "cancel") /\ UNCHANGED waiter
  /\ UNCHANGED <<link, links, trying, asked, charsDue, room, queueVars, held, delegate,
                 disconnects, remaining, kind, writeVars>>

\* A dropped connect() leaves its waiter in `connects`.
DropConnect(c) ==
  /\ callPc[c] = "waiting" /\ callPc' = [callPc EXCEPT ![c] = "done"]
  /\ UNCHANGED <<linkVars, queueVars, mapVars, kind, writeVars>>

\* disconnect() on a device that is held.
Disconnect ==
  /\ held /\ Cardinality({i \in DOMAIN cmds : cmds[i] = "cancel"}) < MaxCancels
  /\ cmds' = Append(cmds, "cancel")
  /\ UNCHANGED <<link, links, trying, asked, charsDue, room, queueVars, mapVars, callPc,
                 kind, writeVars>>

----------------------------------------------------------------------------
(* Operations CoreBluetooth answers                                           *)

\* The device is looked up; a characteristic that is not found ends the call.
LookUp(q, k) ==
  /\ callPc[q] = "idle" /\ kind' = [kind EXCEPT ![q] = k]
  /\ \/ held /\ callPc' = [callPc EXCEPT ![q] = "known"]
     \/ (~held \/ k \notin {"discover", "l2cap"}) /\ callPc' = [callPc EXCEPT ![q] = "done"]
  /\ UNCHANGED <<linkVars, queueVars, mapVars, writeVars>>

\* The waiter is registered, in the place of one that was there.
RegisterOp(q) ==
  /\ callPc[q] = "known"
  /\ waiter' = [waiter EXCEPT ![kind[q]] = q]
  /\ callPc' = [WithTold({waiter[kind[q]]}) EXCEPT ![q] = "registered"]
  /\ remaining' = IF kind[q] = "discover" THEN 0 ELSE remaining
  /\ UNCHANGED <<linkVars, queueVars, held, delegate, disconnects, kind, writeVars>>

\* CoreBluetooth takes a request only while the device is connected.
IssueOp(q) ==
  /\ q \in Askers /\ callPc[q] \in {"registered", "told"}
  /\ callPc' = [callPc EXCEPT ![q] = CASE @ = "told" -> "done"
                                [] link # 0 -> "waiting"
                                [] OTHER -> "unheard"]
  /\ asked' = IF link = 0 THEN asked ELSE [asked EXCEPT ![kind[q]] = @ + 1]
  /\ UNCHANGED <<link, links, trying, cmds, charsDue, room, queueVars, mapVars, kind,
                 writeVars>>

\* didUpdateValue, didWriteValue, didUpdateNotificationState, didOpenL2CAP.
DidAnswerOp(k) ==
  /\ queueStep = "idle" /\ k # "discover" /\ asked[k] > 0
  /\ asked' = [asked EXCEPT ![k] = @ - 1]
  /\ \/ delegate /\ Answer(k) /\ UNCHANGED missed
     \/ GoesUnheard(k)
  /\ UNCHANGED <<link, links, trying, cmds, charsDue, room, queueVars, held, delegate,
                 disconnects, remaining, kind, conn, issuedOn, notified, expired, sent>>

\* A notification is taken for the answer of a read that waits.
DidNotify ==
  /\ queueStep = "idle" /\ link # 0 /\ delegate
  /\ waiter["read"] # Nobody /\ Answer("read")
  /\ UNCHANGED <<linkVars, queueVars, held, delegate, disconnects, remaining, kind,
                 writeVars>>

\* didDiscoverServices: an error or no service ends the discovery; otherwise
\* the characteristics of every service are asked for.
DidDiscoverServices ==
  /\ queueStep = "idle" /\ asked["discover"] > 0
  /\ asked' = [asked EXCEPT !["discover"] = @ - 1]
  /\ \/ delegate /\ Answer("discover") /\ UNCHANGED <<charsDue, remaining, missed>>
     \/ /\ delegate /\ waiter["discover"] = Nobody
        /\ UNCHANGED <<charsDue, remaining, waiter, callPc, missed>>
     \/ /\ delegate /\ waiter["discover"] # Nobody
        /\ charsDue' = charsDue + ServiceCount /\ remaining' = ServiceCount
        /\ UNCHANGED <<waiter, callPc, missed>>
     \/ GoesUnheard("discover") /\ UNCHANGED <<charsDue, remaining>>
  /\ UNCHANGED <<link, links, trying, cmds, room, queueVars, held, delegate,
                 disconnects, kind, conn, issuedOn, notified, expired, sent>>

\* didDiscoverCharacteristics, asked for by a callback: the last service ends the
\* discovery.
DidDiscoverCharacteristics ==
  /\ queueStep = "idle" /\ charsDue > 0 /\ charsDue' = charsDue - 1
  /\ IF waiter["discover"] = Nobody THEN UNCHANGED <<remaining, waiter, callPc>>
     ELSE /\ remaining' = IF remaining = 0 THEN 0 ELSE remaining - 1
          /\ IF remaining <= 1 THEN Answer("discover") ELSE UNCHANGED <<waiter, callPc>>
  /\ UNCHANGED <<link, links, trying, cmds, asked, room, queueVars, held, delegate,
                 disconnects, kind, writeVars>>

----------------------------------------------------------------------------
(* Connection callbacks                                                       *)

DidConnect ==
  /\ queueStep = "idle" /\ Answer("connect")
  /\ \/ /\ trying /\ link = 0 /\ links < MaxLinks
        /\ link' = links + 1 /\ links' = links + 1 /\ trying' = FALSE /\ room' = TRUE
        /\ UNCHANGED cmds
     \/ /\ link # 0 /\ cmds # <<>> /\ Head(cmds) = "connect"
        /\ cmds' = Tail(cmds) /\ UNCHANGED <<link, links, trying, room>>
  /\ UNCHANGED <<asked, charsDue, queueVars, held, delegate, disconnects, remaining,
                 kind, writeVars>>

DidFailToConnect ==
  /\ queueStep = "idle" /\ trying /\ trying' = FALSE /\ Answer("connect")
  /\ UNCHANGED <<link, links, cmds, asked, charsDue, room, queueVars, held, delegate,
                 disconnects, remaining, kind, writeVars>>

\* A connect request starts an attempt; a cancel that finds nothing is lost,
\* and one that ends an attempt may or may not be reported.
CmdRun ==
  /\ queueStep = "idle" /\ cmds # <<>> /\ link = 0 /\ cmds' = Tail(cmds)
  /\ trying' = (Head(cmds) = "connect")
  /\ queueStep' \in (IF trying /\ Head(cmds) = "cancel" THEN {"idle", "remove"} ELSE {"idle"})
  /\ UNCHANGED <<link, links, asked, charsDue, room, writeTurns, mapVars, callPc, kind,
                 writeVars>>

\* The link drops, by itself or because it was cancelled: nothing asked on it
\* is answered any more, and the queue runs didDisconnectPeripheral.
LinkDrop ==
  /\ queueStep = "idle" /\ link # 0
  /\ \/ UNCHANGED cmds
     \/ cmds # <<>> /\ Head(cmds) = "cancel" /\ cmds' = Tail(cmds)
  /\ link' = 0 /\ room' = FALSE /\ asked' = [k \in Kinds |-> 0] /\ charsDue' = 0
  /\ queueStep' = "remove"
  /\ UNCHANGED <<links, trying, writeTurns, mapVars, callPc, kind, writeVars>>

\* Mutant of Listening: the wait is created once there is nothing else to do.
ListeningAsleep == {w \in Writers : callPc[w] = "asleep"}

\* Writers whose Notified exists.
Listening == {w \in Writers : callPc[w] \in {"turn", "noroom", "asleep"}}

\* didDisconnectPeripheral: the device is forgotten, its connection counted
\* out, every waiter failed, the writers woken, the event sent.
Disconnecting ==
  \/ /\ queueStep = "remove" /\ queueStep' = "bump" /\ held' = FALSE
     /\ UNCHANGED <<disconnects, waiter, callPc, notified>>
  \/ /\ queueStep = "bump" /\ queueStep' = "fail" /\ disconnects' = disconnects + 1
     /\ UNCHANGED <<held, waiter, callPc, notified>>
  \/ /\ queueStep = "ready" /\ queueStep' = "idle" /\ notified' = notified \cup Listening
     /\ UNCHANGED <<held, disconnects, waiter, callPc>>

\* Mutant of FailPending: only a connect() is failed.
FailConnect ==
  /\ queueStep = "fail" /\ queueStep' = "ready" /\ Answer("connect")
  /\ UNCHANGED <<linkVars, writeTurns, held, delegate, disconnects, remaining, kind,
                 writeVars>>

\* fail_pending.
FailPending ==
  /\ queueStep = "fail" /\ queueStep' = "ready"
  /\ waiter' = [k \in AllKinds |-> Nobody]
  /\ callPc' = WithTold({waiter[k] : k \in AllKinds})
  /\ UNCHANGED <<linkVars, writeTurns, held, delegate, disconnects, remaining, kind,
                 writeVars>>

DidDisconnect ==
  /\ Disconnecting
  /\ UNCHANGED <<linkVars, writeTurns, delegate, remaining, kind, conn, issuedOn,
                 missed, expired, sent>>

----------------------------------------------------------------------------
(* Writes without response                                                    *)

\* The connection the write is issued on is read, then its deadline runs.
BeginWrite(w) ==
  /\ callPc[w] = "idle" /\ callPc' = [callPc EXCEPT ![w] = "arm"]
  /\ conn' = [conn EXCEPT ![w] = disconnects]
  /\ issuedOn' = [issuedOn EXCEPT ![w] = link]
  /\ UNCHANGED <<linkVars, queueVars, mapVars, kind, notified, expired, missed, sent>>

\* The wait for readiness is created before the attempt is posted.
PostTurn(w) ==
  /\ callPc[w] = "arm" /\ callPc' = [callPc EXCEPT ![w] = "turn"]
  /\ notified' = notified \ {w}
  /\ writeTurns' = Append(writeTurns, [by |-> w, live |-> TRUE])
  /\ UNCHANGED <<linkVars, queueStep, mapVars, kind, conn, issuedOn, missed, expired,
                 sent>>

\* TurnClaim::start: a turn its caller gave up on does nothing.
StartTurn ==
  /\ queueStep = "idle" /\ writeTurns # <<>> /\ writeTurns' = Tail(writeTurns)
  /\ queueStep' = IF Head(writeTurns).live THEN Head(writeTurns).by ELSE "idle"
  /\ UNCHANGED <<linkVars, mapVars, callPc, kind, writeVars>>

\* The caller's side once its turn has a result.
AfterTurn(w, result) == IF callPc[w] = "turn" THEN [callPc EXCEPT ![w] = result] ELSE callPc

\* Mutant of SameConnection: a retry goes out on whatever connection there is.
AnyConnection(w) == TRUE

\* The connection is the one the write began on.
SameConnection(w) == disconnects = conn[w]

RunTurn(w) ==
  /\ queueStep = w /\ queueStep' = "idle"
  /\ \/ /\ callPc' = AfterTurn(w, "done") /\ UNCHANGED <<room, sent>>
     \/ /\ SameConnection(w) /\ held /\ link # 0 /\ ~room
        /\ callPc' = AfterTurn(w, "noroom") /\ UNCHANGED <<room, sent>>
     \/ /\ SameConnection(w) /\ held /\ link # 0 /\ room
        /\ callPc' = AfterTurn(w, "done")
        /\ sent' = [sent EXCEPT ![w] = Append(@, link)]
        /\ room' \in BOOLEAN
  /\ UNCHANGED <<link, links, trying, cmds, asked, charsDue, writeTurns, mapVars, kind,
                 conn, issuedOn, missed, notified, expired>>

\* peripheralIsReadyToSendWriteWithoutResponse, if there is a delegate to tell.
DidBecomeWritable ==
  /\ queueStep = "idle" /\ link # 0 /\ ~room /\ room' = TRUE
  /\ IF delegate THEN notified' = notified \cup Listening /\ UNCHANGED missed
                 ELSE missed' = missed \cup Listening /\ UNCHANGED notified
  /\ UNCHANGED <<link, links, trying, cmds, asked, charsDue, queueVars, mapVars, callPc,
                 kind, conn, issuedOn, expired, sent>>

\* WRITE_READY_TIMEOUT passes.
WriteDeadline(w) ==
  /\ callPc[w] \in {"arm", "turn", "noroom", "asleep"} /\ w \notin expired
  /\ expired' = expired \cup {w}
  /\ UNCHANGED <<linkVars, queueVars, mapVars, callPc, kind, conn, issuedOn, missed,
                 notified, sent>>

\* TurnClaim::abandon: w's queued turn will do nothing.
Abandoned(w) ==
  [i \in DOMAIN writeTurns |->
     IF writeTurns[i].by = w THEN [writeTurns[i] EXCEPT !.live = FALSE] ELSE writeTurns[i]]

\* A caller past its deadline abandons a queued turn and awaits a started one.
AbandonTurn(w) ==
  /\ callPc[w] = "turn" /\ w \in expired /\ queueStep # w
  /\ callPc' = [callPc EXCEPT ![w] = "asleep"] /\ writeTurns' = Abandoned(w)
  /\ UNCHANGED <<linkVars, queueStep, mapVars, kind, writeVars>>

\* A caller told of no room waits for readiness; the wait ends notified, to
\* try again, or out of time.
Wake(w) ==
  /\ \/ callPc[w] = "noroom" /\ callPc' = [callPc EXCEPT ![w] = "asleep"]
     \/ callPc[w] = "asleep" /\ w \in notified /\ callPc' = [callPc EXCEPT ![w] = "arm"]
     \/ /\ callPc[w] = "asleep" /\ w \notin notified /\ w \in expired
        /\ callPc' = [callPc EXCEPT ![w] = "done"]
  /\ UNCHANGED <<linkVars, queueVars, mapVars, kind, writeVars>>

\* Dropping the write abandons its turn unless the turn has started.
DropWrite(w) ==
  /\ callPc[w] \in {"arm", "turn", "noroom", "asleep"}
  /\ callPc' = [callPc EXCEPT ![w] = IF queueStep = w THEN "late" ELSE "done"]
  /\ writeTurns' = Abandoned(w)
  /\ UNCHANGED <<linkVars, queueStep, mapVars, kind, writeVars>>

----------------------------------------------------------------------------

CentralNext ==
  \/ DidDiscover \/ Disconnect \/ DidNotify \/ DidDiscoverServices \/ DidDiscoverCharacteristics
  \/ DidConnect \/ DidFailToConnect \/ CmdRun \/ LinkDrop \/ DidDisconnect \/ FailPending
  \/ StartTurn \/ DidBecomeWritable
  \/ \E k \in Kinds : DidAnswerOp(k)
  \/ \E c \in Connectors : KnownPeripheral(c) \/ RegisterConnect(c) \/ ConnectPeripheral(c)
                           \/ ConnectTimeout(c) \/ DropConnect(c)
  \/ \E q \in Askers : RegisterOp(q) \/ IssueOp(q) \/ \E k \in Kinds : LookUp(q, k)
  \/ \E w \in Writers : BeginWrite(w) \/ PostTurn(w) \/ RunTurn(w) \/ WriteDeadline(w)
                        \/ AbandonTurn(w) \/ Wake(w) \/ DropWrite(w)

CentralSpec == CentralInit /\ [][CentralNext]_centralVars

----------------------------------------------------------------------------
(* Properties                                                                 *)

CallSteps ==
  {"idle", "known", "registered", "told", "waiting", "unheard", "expiring", "cancelling",
   "arm", "turn", "noroom", "asleep", "late", "done"}

CentralTypeOK ==
  /\ link \in 0..MaxLinks /\ links \in 0..MaxLinks /\ trying \in BOOLEAN
  /\ cmds \in Seq({"connect", "cancel"})
  /\ asked \in [Kinds -> Nat] /\ charsDue \in Nat /\ room \in BOOLEAN
  /\ queueStep \in {"idle", "remove", "bump", "fail", "ready"} \cup Writers
  /\ writeTurns \in Seq([by : Writers, live : BOOLEAN])
  /\ {held, delegate} \subseteq BOOLEAN /\ disconnects \in Nat
  /\ waiter \in [AllKinds -> Connectors \cup Askers \cup {Nobody}] /\ remaining \in Nat
  /\ callPc \in [Calls -> CallSteps] /\ kind \in [Askers -> Kinds \cup {Nobody}]
  /\ conn \in [Writers -> Nat] /\ issuedOn \in [Writers -> 0..MaxLinks]
  /\ notified \subseteq Writers /\ expired \subseteq Writers
  /\ missed \subseteq Calls
  /\ sent \in [Writers -> Seq(1..MaxLinks)]

\* A write issued on a connection goes out on that connection or not at all,
\* and never twice, whatever turns its retries left in the queue.
SentOnce ==
  \A w \in Writers :
    /\ Len(sent[w]) <= 1
    /\ issuedOn[w] # 0 => \A i \in DOMAIN sent[w] : sent[w][i] = issuedOn[w]

\* No readiness is missed: a writer that sleeps with its deadline ahead and no
\* notification is on the connection the device has, which has no room.  Excepted is
\* a writer that slept, or was about to, as room came on a device with no delegate:
\* one that was restored and never connect()ed, of which nothing tells the writer.
NoMissedReady ==
  \A w \in Writers :
    callPc[w] = "asleep" /\ w \notin expired /\ w \notin notified /\ w \notin missed
      => \/ queueStep \in {"remove", "bump", "fail", "ready"}
         \/ SameConnection(w) /\ link # 0 /\ ~room

\* A waiter whose request CoreBluetooth took is still owed something that will
\* answer it: an answer of that kind, or a disconnect yet to fail it.  So no
\* disconnect that runs between a look-up, a registration and a request, and no
\* waiter put in the place of another, leaves a request to nobody.  Excepted is a
\* waiter whose answer came on a device with no delegate: it waits for ever, or
\* until the link falls.
AcceptedIsOwed ==
  \A q \in Askers :
    callPc[q] = "waiting" /\ waiter[kind[q]] = q /\ q \notin missed
      => \/ queueStep \in {"remove", "bump", "fail"}
         \/ asked[kind[q]] > 0
         \/ kind[q] = "discover" /\ remaining > 0 /\ charsDue >= remaining

=============================================================================
