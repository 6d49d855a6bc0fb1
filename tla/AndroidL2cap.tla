---------------------------- MODULE AndroidL2cap ----------------------------
(***************************************************************************)
(* L2CAP channels on Android: the socket table and the blocking threads of *)
(* L2capSocketManager.kt, the global state of l2cap_state.rs that ties a   *)
(* socket to the caller that waits for its channel, the two tasks that     *)
(* copy between the socket and the application's duplex, and the linger    *)
(* timer of the close hook.                                                *)
(*                                                                         *)
(* All opens are to one device, whose address is all that the answer of an *)
(* open names.  What the queues hold is left out: a hand-over waits for    *)
(* room as long as it likes.  A socket is named by the open it was made    *)
(* for, or is one of Accepts.                                              *)
(***************************************************************************)
EXTENDS Naturals, FiniteSets

CONSTANTS
  Opens,      \* calls of open_l2cap_channel()
  Accepts,    \* sockets the server accepts
  Listens,    \* calls of l2cap_listener()
  MaxWrites,  \* bound: chunks the application writes to a channel
  Unclaimed,  \* no call
  Refused     \* an answer without a channel

ASSUME AndroidL2capAssumption ==
  /\ Opens \cap Accepts = {}
  /\ {Unclaimed, Refused} \cap (Opens \cup Accepts \cup Listens) = {}
  /\ Unclaimed # Refused
  /\ MaxWrites \in Nat

Sockets == Opens \cup Accepts

VARIABLES
  openPc,        \* where a call of open_l2cap_channel() is
  answer,        \* what its oneshot holds: a socket, Refused or Unclaimed
  dial,          \* its coroutine: "none", "connecting", "registered", "over"
  pendingOpen,   \* pending_open[device]: whose sender is kept
  listenPc,      \* where a call of l2cap_listener() is, and then its stream
  psm,           \* what its oneshot holds: the call whose server it is, or Refused
  pendingServer, \* whose sender pending_server has
  acceptTo,      \* whose stream accept_tx feeds
  servers,       \* the calls whose server socket accepts
  chan           \* each socket and what belongs to it, see Closed

callVars == <<openPc, answer, dial, pendingOpen>>
serverVars == <<listenPc, psm, pendingServer, acceptTo, servers>>
androidL2capVars == <<callVars, serverVars, chan>>

\* A socket before it is opened.
Closed ==
  [table   |-> FALSE,     \* sockets has it
   far     |-> "none",    \* the other end: "up", "ended" cleanly, or "broken"
   reader  |-> "none",    \* its read loop
   closing |-> "no",      \* how far the close() that took it out of sockets is
   cause   |-> "none",    \* what that close() reports: "closed" or "failed"
   reason  |-> "none",    \* CloseReasonSlot
   entry   |-> FALSE,     \* data_tx has it
   inTask  |-> "none", outTask |-> "none", \* the two tasks
   app     |-> "none",    \* the L2capChannel: "held", "shut", "closed", "dropped"
   wrote   |-> 0, toSend |-> 0, \* chunks written, and in the duplex
   lost    |-> FALSE,     \* history: a chunk was not written to the socket
   timer   |-> "none",    \* the linger timer: "running", "fired"
   seen    |-> "none"]    \* what a read said of the end: "clean", "failed"

L2capInit ==
  /\ openPc = [o \in Opens |-> "idle"]
  /\ answer = [o \in Opens |-> Unclaimed]
  /\ dial = [o \in Opens |-> "none"]
  /\ pendingOpen = Unclaimed
  /\ listenPc = [l \in Listens |-> "idle"]
  /\ psm = [l \in Listens |-> Unclaimed]
  /\ pendingServer = Unclaimed /\ acceptTo = Unclaimed
  /\ servers = {}
  /\ chan = [k \in Sockets |-> Closed]

LocallyClosed(k) == chan[k].closing \notin {"no", "closing"}

----------------------------------------------------------------------------
(* Closing a socket, and what a channel does when it is dropped.            *)

\* L2capSocketManager.close(): only the first takes the socket out of the table,
\* and goes on to close it and to report.
TakenOut(c, why) ==
  IF c.table
  THEN [c EXCEPT !.table = FALSE, !.cause = why, !.closing = "closing"]
  ELSE c

\* Mutant of Hooked: the hook closes the socket itself.
HookedAtOnce(c) == TakenOut(c, "closed")

\* The close hook, which runs once: a timer, unless the linger is without end.
Hooked(c) ==
  IF c.app \in {"closed", "dropped"} THEN c ELSE [c EXCEPT !.timer = "running"]

DroppedChannel(c) == [Hooked(c) EXCEPT !.app = "dropped"]

SocketCloses(k) ==
  /\ chan[k].closing = "closing"
  /\ chan' = [chan EXCEPT ![k].closing = "reporting"]
  /\ UNCHANGED <<callVars, serverVars>>

\* Mutant of ReportsReason: the sender goes first.
ReportsReasonLater(k) ==
  /\ chan[k].closing = "reporting"
  /\ chan' = [chan EXCEPT ![k].entry = FALSE, ![k].closing = "removing"]
  /\ UNCHANGED <<callVars, serverVars>>

\* on_channel_closed(): the reason, of which the first is kept ...
ReportsReason(k) ==
  /\ chan[k].closing = "reporting"
  /\ chan' = [chan EXCEPT ![k].reason = IF @ = "none" THEN chan[k].cause ELSE @,
                          ![k].closing = "removing"]
  /\ UNCHANGED <<callVars, serverVars>>

\* ... and then the sender.
RemovesSender(k) ==
  /\ chan[k].closing = "removing"
  /\ chan' = [chan EXCEPT ![k].entry = FALSE, ![k].closing = "over"]
  /\ UNCHANGED <<callVars, serverVars>>

----------------------------------------------------------------------------
(* Opening a channel, as a central.                                         *)

\* set_pending_open(): a sender that was there is dropped, unanswered.
SetPendingOpen(o) ==
  /\ openPc[o] = "idle"
  /\ openPc' = [openPc EXCEPT ![o] = "set"]
  /\ pendingOpen' = o
  /\ answer' = IF pendingOpen = Unclaimed THEN answer
               ELSE [answer EXCEPT ![pendingOpen] = Refused]
  /\ UNCHANGED <<dial, serverVars, chan>>

\* on_channel_error(): the device's waiter, whichever it is.
WaiterFails ==
  /\ pendingOpen' = Unclaimed
  /\ answer' = IF pendingOpen = Unclaimed THEN answer
               ELSE [answer EXCEPT ![pendingOpen] = Refused]

\* openL2capChannel() refuses at once, or launches the coroutine; or the call
\* into Java fails, and the sender stays.
AskKotlin(o) ==
  /\ openPc[o] = "set"
  /\ \/ /\ openPc' = [openPc EXCEPT ![o] = "waiting"]
        /\ \/ dial' = [dial EXCEPT ![o] = "connecting"]
              /\ UNCHANGED <<pendingOpen, answer>>
           \/ WaiterFails /\ UNCHANGED dial
     \/ openPc' = [openPc EXCEPT ![o] = "done"] /\ UNCHANGED <<pendingOpen, answer, dial>>
  /\ UNCHANGED <<serverVars, chan>>

\* A socket that connected is put into the table under a new id.
Registered == [Closed EXCEPT !.table = TRUE, !.far = "up"]

DialConnects(o) ==
  /\ dial[o] = "connecting"
  /\ dial' = [dial EXCEPT ![o] = "registered"]
  /\ chan' = [chan EXCEPT ![o] = Registered]
  /\ UNCHANGED <<openPc, answer, pendingOpen, serverVars>>

DialFails(o) ==
  /\ dial[o] = "connecting"
  /\ dial' = [dial EXCEPT ![o] = "over"]
  /\ WaiterFails
  /\ UNCHANGED <<openPc, serverVars, chan>>

\* on_channel_opened(): the maps and the tasks, before anybody has the channel.
Bridged(c) ==
  [c EXCEPT !.reader = "reading", !.entry = TRUE, !.inTask = "receiving",
            !.outTask = "reading", !.app = "held"]

\* The waiter of the device gets the channel; without one it is dropped.  The
\* read loop starts in the same coroutine.
CentralOpened(o) ==
  /\ dial[o] = "registered"
  /\ dial' = [dial EXCEPT ![o] = "over"]
  /\ pendingOpen' = Unclaimed
  /\ IF pendingOpen # Unclaimed /\ openPc[pendingOpen] # "done"
     THEN /\ answer' = [answer EXCEPT ![pendingOpen] = o]
          /\ chan' = [chan EXCEPT ![o] = Bridged(@)]
     ELSE /\ chan' = [chan EXCEPT ![o] = DroppedChannel(Bridged(@))]
          /\ UNCHANGED answer
  /\ UNCHANGED <<openPc, serverVars>>

OpenEnds(o) ==
  /\ openPc[o] = "waiting" /\ answer[o] # Unclaimed
  /\ openPc' = [openPc EXCEPT ![o] = "done"]
  /\ UNCHANGED <<answer, dial, pendingOpen, serverVars, chan>>

\* The caller drops the future, and with it a channel it already holds.
OpenDropped(o) ==
  /\ openPc[o] = "waiting"
  /\ openPc' = [openPc EXCEPT ![o] = "done"]
  /\ chan' = IF answer[o] \in Sockets
             THEN [chan EXCEPT ![answer[o]] = DroppedChannel(@)] ELSE chan
  /\ UNCHANGED <<answer, dial, pendingOpen, serverVars>>

----------------------------------------------------------------------------
(* Listening, as a peripheral.                                              *)

\* set_pending_server(): here too a sender that was there is dropped, ...
SetPendingServer(l) ==
  /\ listenPc[l] = "idle"
  /\ listenPc' = [listenPc EXCEPT ![l] = "set"]
  /\ pendingServer' = l
  /\ psm' = IF pendingServer = Unclaimed THEN psm
            ELSE [psm EXCEPT ![pendingServer] = Refused]
  /\ UNCHANGED <<acceptTo, servers, callVars, chan>>

\* ... and in a section of its own the stream that gets the channels is replaced.
SetAcceptTx(l) ==
  /\ listenPc[l] = "set"
  /\ listenPc' = [listenPc EXCEPT ![l] = "asking"]
  /\ acceptTo' = l
  /\ UNCHANGED <<psm, pendingServer, servers, callVars, chan>>

\* openL2capServer() answers before it returns, with the server or an error.  The
\* server socket stays: nothing closes it when the stream goes.
OpenServer(l) ==
  /\ listenPc[l] = "asking"
  /\ listenPc' = [listenPc EXCEPT ![l] = "waiting"]
  /\ pendingServer' = Unclaimed
  /\ \E opened \in BOOLEAN :
       /\ servers' = IF opened THEN servers \cup {l} ELSE servers
       /\ psm' = IF pendingServer = Unclaimed THEN psm
                 ELSE [psm EXCEPT ![pendingServer] = IF opened THEN l ELSE Refused]
  /\ UNCHANGED <<acceptTo, callVars, chan>>

ListenEnds(l) ==
  /\ listenPc[l] = "waiting" /\ psm[l] # Unclaimed
  /\ listenPc' = [listenPc EXCEPT ![l] = IF psm[l] = Refused THEN "over" ELSE "listening"]
  /\ UNCHANGED <<psm, pendingServer, acceptTo, servers, callVars, chan>>

\* The application drops the stream, with the channels it did not take.
StreamDropped(l) ==
  /\ listenPc[l] = "listening"
  /\ listenPc' = [listenPc EXCEPT ![l] = "over"]
  /\ \E unread \in SUBSET {k \in Accepts : chan[k].app = "held"} :
       chan' = [k \in Sockets |->
                  IF k \in unread THEN DroppedChannel(chan[k]) ELSE chan[k]]
  /\ UNCHANGED <<psm, pendingServer, acceptTo, servers, callVars>>

\* accept() returns a socket, which gets its id, ...
ServerAccepts(k) ==
  /\ servers # {}
  /\ chan[k].far = "none"
  /\ chan' = [chan EXCEPT ![k] = Registered]
  /\ UNCHANGED <<callVars, serverVars>>

\* ... and its channel, which goes to the stream that accept_tx has now, or is
\* dropped with it.
ServerOpened(k) ==
  /\ chan[k].table /\ chan[k].reader = "none"
  /\ chan' = [chan EXCEPT ![k] = IF listenPc[acceptTo] = "over"
                                 THEN DroppedChannel(Bridged(@)) ELSE Bridged(@)]
  /\ UNCHANGED <<callVars, serverVars>>

----------------------------------------------------------------------------
(* The read loop, on a thread of its own.                                   *)

\* Data goes to the socket's queue; without a queue it is dropped.
ReadsData(k) ==
  /\ chan[k].reader = "reading" /\ chan[k].far = "up" /\ ~LocallyClosed(k)
  /\ chan[k].entry
  /\ chan' = [chan EXCEPT ![k].reader = "handing"]
  /\ UNCHANGED <<callVars, serverVars>>

\* blocking_send(): there is room, or nobody receives any more.
HandedOver(k) ==
  /\ chan[k].reader = "handing"
  /\ chan' = [chan EXCEPT ![k].reader = "reading"]
  /\ UNCHANGED <<callVars, serverVars>>

ReadReturnsEnd(k) ==
  /\ chan[k].reader = "reading" /\ chan[k].far = "ended" /\ ~LocallyClosed(k)
  /\ chan' = [chan EXCEPT ![k].reader = "ended"]
  /\ UNCHANGED <<callVars, serverVars>>

\* Link loss, or a close() on this side, makes the blocking read throw ...
ReadThrows(k) ==
  /\ chan[k].reader = "reading"
  /\ chan[k].far = "broken" \/ LocallyClosed(k)
  /\ chan' = [chan EXCEPT ![k].reader = "threw"]
  /\ UNCHANGED <<callVars, serverVars>>

\* ... which is a failure only if the socket is still in the table.
JudgesThrow(k) ==
  /\ chan[k].reader = "threw"
  /\ chan' = [chan EXCEPT ![k].reader = IF chan[k].table THEN "failed" ELSE "ended"]
  /\ UNCHANGED <<callVars, serverVars>>

ReaderCloses(k) ==
  /\ chan[k].reader \in {"ended", "failed"}
  /\ chan' = [chan EXCEPT ![k] =
       [TakenOut(@, IF @.reader = "failed" THEN "failed" ELSE "closed")
          EXCEPT !.reader = "over"]]
  /\ UNCHANGED <<callVars, serverVars>>

----------------------------------------------------------------------------
(* The two tasks, and the timer.                                            *)

\* The queue has no sender left and is empty, or the application is gone.
InTaskEnds(k) ==
  /\ chan[k].inTask = "receiving"
  /\ \/ ~chan[k].entry /\ chan[k].reader # "handing"
     \/ chan[k].app = "dropped"
  /\ chan' = [chan EXCEPT ![k].inTask = "over"]
  /\ UNCHANGED <<callVars, serverVars>>

OutTaskReads(k) ==
  /\ chan[k].outTask = "reading" /\ chan[k].toSend > 0
  /\ chan' = [chan EXCEPT ![k].outTask = "writing", ![k].toSend = @ - 1]
  /\ UNCHANGED <<callVars, serverVars>>

WriteLands(k) ==
  /\ chan[k].outTask = "writing"
  /\ chan[k].closing \in {"no", "closing"} /\ chan[k].far = "up"
  /\ chan' = [chan EXCEPT ![k].outTask = "reading"]
  /\ UNCHANGED <<callVars, serverVars>>

\* write() keeps a failure to itself, and closes the socket; to one that is
\* closed it writes nothing.
WriteFails(k) ==
  /\ chan[k].outTask = "writing"
  /\ ~chan[k].table \/ chan[k].far # "up"
  /\ chan' = [chan EXCEPT ![k] =
       [TakenOut(@, "failed") EXCEPT !.outTask = "reading", !.lost = TRUE]]
  /\ UNCHANGED <<callVars, serverVars>>

\* Mutant of OutTaskCloses: the close is left to the hook's timer.
OutTaskJustEnds(k) ==
  /\ chan[k].outTask = "reading" /\ chan[k].toSend = 0
  /\ chan[k].app \in {"shut", "closed", "dropped"}
  /\ chan' = [chan EXCEPT ![k].outTask = "closing"]
  /\ UNCHANGED <<callVars, serverVars>>

\* The application writes no more and all is written: the task closes the socket.
OutTaskCloses(k) ==
  /\ chan[k].outTask = "reading" /\ chan[k].toSend = 0
  /\ chan[k].app \in {"shut", "closed", "dropped"}
  /\ chan' = [chan EXCEPT ![k] =
       [TakenOut(@, "closed")
          EXCEPT !.outTask = IF chan[k].table THEN "closing" ELSE "over"]]
  /\ UNCHANGED <<callVars, serverVars>>

OutTaskEnds(k) ==
  /\ chan[k].outTask = "closing" /\ chan[k].closing = "over"
  /\ chan' = [chan EXCEPT ![k].outTask = "over"]
  /\ UNCHANGED <<callVars, serverVars>>

TimerFires(k) ==
  /\ chan[k].timer = "running"
  /\ chan' = [chan EXCEPT ![k] = [TakenOut(@, "closed") EXCEPT !.timer = "fired"]]
  /\ UNCHANGED <<callVars, serverVars>>

----------------------------------------------------------------------------
(* The application, with a channel it was given, and the other end.         *)

Given(k) ==
  chan[k].app # "none" /\ (k \in Accepts \/ \E o \in Opens : openPc[o] = "done" /\ answer[o] = k)

\* The duplex ends when both of its halves are gone.
BridgeGone(k) == chan[k].inTask = "over" /\ chan[k].outTask = "over"

Write(k) ==
  /\ Given(k) /\ chan[k].app = "held" /\ ~BridgeGone(k)
  /\ chan[k].wrote < MaxWrites
  /\ chan' = [chan EXCEPT ![k].wrote = @ + 1, ![k].toSend = @ + 1]
  /\ UNCHANGED <<callVars, serverVars>>

\* poll_shutdown() alone: the write side only.
Shutdown(k) ==
  /\ Given(k) /\ chan[k].app = "held"
  /\ chan' = [chan EXCEPT ![k].app = "shut"]
  /\ UNCHANGED <<callVars, serverVars>>

\* close(): the write side, the reason, and the hook.
CloseChannel(k) ==
  /\ Given(k) /\ chan[k].app \in {"held", "shut"}
  /\ chan' = [chan EXCEPT ![k] =
       [Hooked(@) EXCEPT !.app = "closed",
          !.reason = IF chan[k].reason = "none" THEN "closed" ELSE chan[k].reason]]
  /\ UNCHANGED <<callVars, serverVars>>

DropChannel(k) ==
  /\ Given(k) /\ chan[k].app # "dropped"
  /\ chan' = [chan EXCEPT ![k] = DroppedChannel(@)]
  /\ UNCHANGED <<callVars, serverVars>>

\* poll_read() at the end of the duplex: a recorded failure, or a clean end.
ReadEnd(k) ==
  /\ Given(k) /\ chan[k].app # "dropped" /\ chan[k].seen = "none"
  /\ BridgeGone(k)
  /\ chan' = [chan EXCEPT ![k].seen = IF chan[k].reason = "failed" THEN "failed" ELSE "clean"]
  /\ UNCHANGED <<callVars, serverVars>>

FarEnds(k) ==
  /\ chan[k].far = "up"
  /\ \E how \in {"ended", "broken"} : chan' = [chan EXCEPT ![k].far = how]
  /\ UNCHANGED <<callVars, serverVars>>

----------------------------------------------------------------------------
OpenSteps(o) ==
  \/ SetPendingOpen(o) \/ AskKotlin(o) \/ DialConnects(o) \/ DialFails(o)
  \/ CentralOpened(o) \/ OpenEnds(o) \/ OpenDropped(o)

ListenSteps(l) ==
  \/ SetPendingServer(l) \/ SetAcceptTx(l) \/ OpenServer(l) \/ ListenEnds(l)
  \/ StreamDropped(l)

SocketSteps(k) ==
  \/ SocketCloses(k) \/ ReportsReason(k) \/ RemovesSender(k)
  \/ ReadsData(k) \/ HandedOver(k) \/ ReadReturnsEnd(k) \/ ReadThrows(k)
  \/ JudgesThrow(k) \/ ReaderCloses(k)
  \/ InTaskEnds(k) \/ OutTaskReads(k) \/ WriteLands(k) \/ WriteFails(k)
  \/ OutTaskCloses(k) \/ OutTaskEnds(k) \/ TimerFires(k)
  \/ Write(k) \/ Shutdown(k) \/ CloseChannel(k) \/ DropChannel(k) \/ ReadEnd(k)
  \/ FarEnds(k)

L2capNext ==
  \/ \E o \in Opens : OpenSteps(o)
  \/ \E l \in Listens : ListenSteps(l)
  \/ \E k \in Accepts : ServerAccepts(k) \/ ServerOpened(k)
  \/ \E k \in Sockets : SocketSteps(k)

L2capSpec == L2capInit /\ [][L2capNext]_androidL2capVars

----------------------------------------------------------------------------
(* Properties.                                                              *)

L2capTypeOK ==
  /\ openPc \in [Opens -> {"idle", "set", "waiting", "done"}]
  /\ answer \in [Opens -> Sockets \cup {Refused, Unclaimed}]
  /\ dial \in [Opens -> {"none", "connecting", "registered", "over"}]
  /\ pendingOpen \in Opens \cup {Unclaimed}
  /\ listenPc \in [Listens -> {"idle", "set", "asking", "waiting", "listening", "over"}]
  /\ psm \in [Listens -> Listens \cup {Refused, Unclaimed}]
  /\ {pendingServer, acceptTo} \subseteq Listens \cup {Unclaimed}
  /\ servers \subseteq Listens
  /\ chan \in [Sockets ->
       [table : BOOLEAN, far : {"none", "up", "ended", "broken"},
        reader : {"none", "reading", "handing", "ended", "threw", "failed", "over"},
        closing : {"no", "closing", "reporting", "removing", "over"},
        cause : {"none", "closed", "failed"}, reason : {"none", "closed", "failed"},
        entry : BOOLEAN, inTask : {"none", "receiving", "over"},
        outTask : {"none", "reading", "writing", "closing", "over"},
        app : {"none", "held", "shut", "closed", "dropped"},
        wrote : 0..MaxWrites, toSend : 0..MaxWrites, lost : BOOLEAN,
        timer : {"none", "running", "fired"}, seen : {"none", "clean", "failed"}]]

\* A channel is said to have failed only if the other end was lost, never because
\* this side closed it.  And a read that reports a clean end has waited for the
\* reason: no failure is recorded after it.
EndIsTrue ==
  \A k \in Sockets :
    /\ chan[k].reason = "failed" => chan[k].far \in {"ended", "broken"}
    /\ chan[k].seen = "clean" => chan[k].reason = "closed"

\* A socket in the table has somebody who will close it, whatever became of the
\* call it was opened for: the application that holds its channel, or the task
\* that closes it when the channel is gone.  And a socket that is closed leaves
\* no queue behind once that was reported.
SocketsAreOwned ==
  \A k \in Sockets :
    /\ chan[k].table => chan[k].app \in {"none", "held"} \/ chan[k].outTask \in {"reading", "writing"}
    /\ chan[k].entry => chan[k].table \/ chan[k].closing \notin {"no", "over"}

\* What the application wrote before it closed or dropped a channel is written to
\* the socket, unless the other end is lost or the linger time has passed.
CloseDelivers ==
  \A k \in Sockets :
    chan[k].lost => chan[k].far # "up" \/ chan[k].timer = "fired"

=============================================================================
