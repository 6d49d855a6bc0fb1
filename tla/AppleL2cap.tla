----------------------------- MODULE AppleL2cap -----------------------------
(***************************************************************************)
(* One L2CAP channel on Apple (platform/apple/l2cap.rs, l2cap/mod.rs): the *)
(* application's end of a duplex, the two bridge tasks that copy between   *)
(* it and the reactor's bounded queues, and the reactor thread, which      *)
(* services the channel only when it is marked ready or closing.           *)
(*                                                                         *)
(* Bytes are counted in chunks, of which every queue and buffer keeps the  *)
(* order; what can go wrong is that one is lost or waits for ever.  The    *)
(* reactor's sleep ends by itself, within its idle second or at a linger   *)
(* deadline, so waking it is left out: what counts is the ready mark.      *)
(***************************************************************************)
EXTENDS Integers

CONSTANTS
  MaxIn, MaxOut, \* bounds: chunks the peer sends, chunks the application writes
  Queue,        \* queue_capacity()
  Buffer,       \* chunks the duplex holds, each way
  Lingers       \* linger_timeout is Some

ASSUME AppleL2capAssumption ==
  /\ {MaxIn, MaxOut} \subseteq Nat
  /\ {Queue, Buffer} \subseteq Nat \ {0}
  /\ Lingers \in BOOLEAN

VARIABLES
  app,          \* the application: "open", "shut" its write side, "closed", "dropped"
  wrote, toTask,\* chunks it wrote; those in the duplex for the outbound task
  got, toApp,   \* chunks it read; those in the duplex for it
  eof,          \* what its read said of the end: "none", "clean", "failed"
  reason,       \* CloseReasonSlot
  inbound,      \* the inbound task: "receiving", "writing", "marking", "over"
  outbound,     \* the outbound task: "reading", "sending", "marking", "over"
  inq, outq,    \* the two queues
  channel,      \* the reactor's entry: "queued" to register, "live", "gone"
  closeSent,    \* a Close command waits
  closing, expired, \* closing_since; its deadline is past
  ready,        \* the channel is in the ready set
  torn,         \* history: pump_input met the closed queue of a dropped application
  reactor,      \* where the reactor is in its pass
  pending,      \* ReactorChannel.pending: 0 or 1
  outDone,      \* outbound_done
  readable, room, \* chunks the input stream holds, and the output stream takes
  stream,       \* the streams: "open", "ended" by the peer, "failed"
  sent, credits,\* chunks the peer sent, and all the room it gave
  received      \* chunks the peer has

appVars     == <<app, wrote, got, eof>>
duplexVars  == <<toTask, toApp>>
taskVars    == <<inbound, outbound>>
queueVars   == <<inq, outq>>
reactorVars == <<channel, closing, reactor, pending, outDone>>
peerVars    == <<readable, room, stream, sent, credits, received>>
l2capVars == <<appVars, duplexVars, taskVars, queueVars, reactorVars, peerVars,
               reason, closeSent, expired, ready, torn>>

Init ==
  /\ app = "open" /\ eof = "none" /\ reason = "none"
  /\ wrote = 0 /\ toTask = 0 /\ got = 0 /\ toApp = 0
  /\ inbound = "receiving" /\ outbound = "reading"
  /\ inq = 0 /\ outq = 0
  /\ channel = "queued"
  /\ closeSent = FALSE /\ closing = FALSE /\ expired = FALSE /\ ready = FALSE
  /\ torn = FALSE
  /\ reactor = "commands"
  /\ pending = 0 /\ outDone = FALSE
  /\ readable = 0 /\ room = 0 /\ stream = "open"
  /\ sent = 0 /\ credits = 0 /\ received = 0

\* The first cause is kept.
SetReason(r) == reason' = IF reason = "none" THEN r ELSE reason

\* tokio's split duplex ends when both halves of it are gone.
BridgeGone == inbound = "over" /\ outbound = "over"

----------------------------------------------------------------------------
(* The application.                                                         *)

Write ==
  /\ app = "open"
  /\ wrote < MaxOut /\ toTask < Buffer
  /\ ~BridgeGone
  /\ wrote' = wrote + 1
  /\ toTask' = toTask + 1
  /\ UNCHANGED <<app, got, eof, toApp, taskVars, queueVars, reactorVars, peerVars,
                 reason, closeSent, expired, torn, ready>>

Read ==
  /\ app # "dropped"
  /\ toApp > 0
  /\ toApp' = toApp - 1
  /\ got' = got + 1
  /\ UNCHANGED <<app, wrote, eof, toTask, taskVars, queueVars, reactorVars, peerVars,
                 reason, closeSent, expired, torn, ready>>

\* poll_read() at the end: a recorded failure instead of a clean end.
ReadEnd ==
  /\ app # "dropped" /\ eof = "none"
  /\ toApp = 0 /\ BridgeGone
  /\ eof' = IF reason = "failed" THEN "failed" ELSE "clean"
  /\ UNCHANGED <<app, wrote, got, duplexVars, taskVars, queueVars, reactorVars,
                 peerVars, reason, closeSent, expired, torn, ready>>

Shut ==
  /\ app = "open"
  /\ app' = "shut"
  /\ UNCHANGED <<wrote, got, eof, duplexVars, taskVars, queueVars, reactorVars,
                 peerVars, reason, closeSent, expired, torn, ready>>

\* close(): shutdown, the reason, and the hook.
Close ==
  /\ app \in {"open", "shut"}
  /\ app' = "closed"
  /\ SetReason("closed")
  /\ closeSent' = TRUE
  /\ UNCHANGED <<wrote, got, eof, duplexVars, taskVars, queueVars, reactorVars,
                 peerVars, expired, torn, ready>>

\* Drop runs the hook, once, and then lets go of the duplex.
Drop ==
  /\ app # "dropped"
  /\ app' = "dropped"
  /\ closeSent' = (closeSent \/ app # "closed")
  /\ toApp' = 0
  /\ UNCHANGED <<wrote, got, eof, toTask, taskVars, queueVars, reactorVars, peerVars,
                 reason, expired, torn, ready>>

----------------------------------------------------------------------------
(* The bridge tasks.                                                        *)

InReceive ==
  /\ inbound = "receiving"
  /\ \/ inq > 0 /\ inq' = inq - 1 /\ inbound' = "writing"
     \/ inq = 0 /\ channel = "gone" /\ inbound' = "over" /\ UNCHANGED inq
  /\ UNCHANGED <<appVars, duplexVars, outbound, outq, reactorVars, peerVars, reason,
                 closeSent, expired, torn, ready>>

InWrite ==
  /\ inbound = "writing"
  /\ IF app = "dropped"
     THEN inbound' = "over" /\ UNCHANGED toApp
     ELSE toApp < Buffer /\ toApp' = toApp + 1 /\ inbound' = "marking"
  /\ UNCHANGED <<appVars, toTask, outbound, queueVars, reactorVars, peerVars, reason,
                 closeSent, expired, torn, ready>>

\* Mutant of InMark: it only wakes the reactor.
InWake ==
  /\ inbound = "marking"
  /\ inbound' = "receiving"
  /\ UNCHANGED <<appVars, duplexVars, outbound, queueVars, reactorVars, peerVars,
                 reason, closeSent, expired, torn, ready>>

InMark ==
  /\ inbound = "marking"
  /\ inbound' = "receiving"
  /\ ready' = TRUE
  /\ UNCHANGED <<appVars, duplexVars, outbound, queueVars, reactorVars, peerVars,
                 reason, closeSent, expired, torn>>

\* It reads what is left before the end of the application's side.
OutRead ==
  /\ outbound = "reading"
  /\ \/ toTask > 0 /\ toTask' = toTask - 1 /\ outbound' = "sending" /\ UNCHANGED ready
     \/ /\ toTask = 0 /\ app # "open"
        /\ outbound' = "over" /\ ready' = TRUE
        /\ UNCHANGED toTask
  /\ UNCHANGED <<appVars, toApp, inbound, queueVars, reactorVars, peerVars, reason,
                 closeSent, expired, torn>>

OutSend ==
  /\ outbound = "sending"
  /\ IF channel = "gone"
     THEN outbound' = "over" /\ UNCHANGED outq
     ELSE outq < Queue /\ outq' = outq + 1 /\ outbound' = "marking"
  /\ UNCHANGED <<appVars, duplexVars, inbound, inq, reactorVars, peerVars, reason,
                 closeSent, expired, torn, ready>>

\* Mutant of OutMark: nothing tells the reactor.
OutForget ==
  /\ outbound = "marking"
  /\ outbound' = "reading"
  /\ UNCHANGED <<appVars, duplexVars, inbound, queueVars, reactorVars, peerVars, reason,
                 closeSent, expired, torn, ready>>

OutMark ==
  /\ outbound = "marking"
  /\ outbound' = "reading"
  /\ ready' = TRUE
  /\ UNCHANGED <<appVars, duplexVars, inbound, queueVars, reactorVars, peerVars, reason,
                 closeSent, expired, torn>>

----------------------------------------------------------------------------
(* A pass of the reactor.                                                   *)

\* drain_commands(): Register, then Close, which only asks for the end.
DrainCommands ==
  /\ reactor = "commands"
  /\ reactor' = "selecting"
  /\ channel' = IF channel = "queued" THEN "live" ELSE channel
  /\ closing' = (closing \/ (closeSent /\ channel # "gone"))
  /\ closeSent' = FALSE
  /\ ready' = (ready \/ channel = "queued" \/ closeSent)
  /\ UNCHANGED <<appVars, duplexVars, taskVars, queueVars, pending, outDone, peerVars,
                 reason, expired, torn>>

\* pump_channels() takes the marks, and services what needs it.
Select ==
  /\ reactor = "selecting"
  /\ reactor' = IF channel = "live" /\ (ready \/ closing) THEN "output" ELSE "asleep"
  /\ ready' = FALSE
  /\ UNCHANGED <<appVars, duplexVars, taskVars, queueVars, channel, closing, pending,
                 outDone, peerVars, reason, closeSent, expired, torn>>

\* Where pump_output() goes when it can do no more.
AfterOutput == IF closing THEN "checking" ELSE "input"

\* pump_output(): the stream has failed, or a write to it does, ...
OutputFails ==
  /\ reactor = "output"
  /\ stream = "failed" \/ (stream = "ended" /\ pending = 1)
  /\ reactor' = "failing"
  /\ UNCHANGED <<appVars, duplexVars, taskVars, queueVars, channel, closing, pending,
                 outDone, peerVars, reason, closeSent, expired, torn, ready>>

\* ... a chunk is taken from the queue, ...
OutputTakes ==
  /\ reactor = "output" /\ stream # "failed"
  /\ pending = 0 /\ outq > 0
  /\ outq' = outq - 1
  /\ pending' = 1
  /\ UNCHANGED <<appVars, duplexVars, taskVars, inq, channel, closing, reactor, outDone,
                 peerVars, reason, closeSent, expired, torn, ready>>

\* ... written, where there is room: a stream that reports space takes some, ...
OutputWrites ==
  /\ reactor = "output" /\ stream = "open"
  /\ pending = 1 /\ room > 0
  /\ pending' = 0
  /\ room' = room - 1
  /\ received' = received + 1
  /\ UNCHANGED <<appVars, duplexVars, taskVars, queueVars, channel, closing, reactor,
                 outDone, readable, stream, sent, credits, reason, closeSent, expired,
                 torn, ready>>

\* Mutant of OutputRests: a queue that is empty will not be filled again.
OutputRestsEarly ==
  /\ reactor = "output" /\ stream # "failed"
  /\ IF pending = 1 THEN room = 0 ELSE outq = 0
  /\ outDone' = (outDone \/ pending = 0)
  /\ reactor' = AfterOutput
  /\ UNCHANGED <<appVars, duplexVars, taskVars, queueVars, channel, closing, pending,
                 peerVars, reason, closeSent, expired, torn, ready>>

\* ... and the pump rests with no room, or with nothing to write, which is the last
\* if the outbound task has ended.
OutputRests ==
  /\ reactor = "output" /\ stream # "failed"
  /\ IF pending = 1 THEN room = 0 ELSE outq = 0
  /\ outDone' = (outDone \/ (pending = 0 /\ outbound = "over"))
  /\ reactor' = AfterOutput
  /\ UNCHANGED <<appVars, duplexVars, taskVars, queueVars, channel, closing, pending,
                 peerVars, reason, closeSent, expired, torn, ready>>

\* Mutant of InputMoves: it reads with no place reserved.
InputMovesAnyway ==
  /\ reactor = "input"
  /\ readable > 0 /\ inbound # "over"
  /\ readable' = readable - 1
  /\ inq' = inq + 1
  /\ UNCHANGED <<appVars, duplexVars, taskVars, outq, reactorVars, room, stream, sent,
                 credits, received, reason, closeSent, expired, torn, ready>>

\* pump_input(): the queue has room, and a chunk is moved, ...
InputMoves ==
  /\ reactor = "input"
  /\ readable > 0 /\ inq < Queue /\ inbound # "over"
  /\ readable' = readable - 1
  /\ inq' = inq + 1
  /\ UNCHANGED <<appVars, duplexVars, taskVars, outq, reactorVars, room, stream, sent,
                 credits, received, reason, closeSent, expired, torn, ready>>

\* ... or the inbound task is gone, as it is once the application dropped the channel,
\* though its Close may wait for the next pass; the input is at its end; or the stream
\* has failed ...
InputEnds ==
  /\ reactor = "input"
  /\ torn' = (torn \/ (readable > 0 /\ inbound = "over"))
  /\ \/ readable > 0 /\ inbound = "over" /\ reactor' = "ending"
     \/ readable = 0 /\ stream = "ended" /\ reactor' = "ending"
     \/ readable = 0 /\ stream = "failed" /\ reactor' = "failing"
     \/ inq = Queue /\ inbound # "over" /\ stream = "failed" /\ reactor' = "failing"
  /\ UNCHANGED <<appVars, duplexVars, taskVars, queueVars, channel, closing, pending,
                 outDone, peerVars, reason, closeSent, expired, ready>>

\* ... or the pump rests, with nothing to read or nowhere to put it.
InputRests ==
  /\ reactor = "input" /\ stream # "failed"
  /\ \/ readable = 0 /\ stream = "open"
     \/ readable > 0 /\ inq = Queue /\ inbound # "over"
  /\ reactor' = "checking"
  /\ UNCHANGED <<appVars, duplexVars, taskVars, queueVars, channel, closing, pending,
                 outDone, peerVars, reason, closeSent, expired, torn, ready>>

LingerFinished == closing /\ ((outDone /\ pending = 0) \/ expired)

CheckLinger ==
  /\ reactor = "checking"
  /\ reactor' = IF LingerFinished THEN "ending" ELSE "asleep"
  /\ UNCHANGED <<appVars, duplexVars, taskVars, queueVars, channel, closing, pending,
                 outDone, peerVars, reason, closeSent, expired, torn, ready>>

\* Mutant of Remove: the reason is recorded once the channel is gone.
RemoveFirst ==
  /\ \/ /\ reactor \in {"ending", "failing"} /\ channel = "live"
        /\ channel' = "gone"
        /\ inq' = inq /\ outq' = 0 /\ pending' = 0
        /\ UNCHANGED <<reason, reactor>>
     \/ /\ reactor \in {"ending", "failing"} /\ channel = "gone"
        /\ SetReason(IF reactor = "failing" THEN "failed" ELSE "closed")
        /\ reactor' = "asleep"
        /\ UNCHANGED <<channel, queueVars, pending>>
  /\ UNCHANGED <<appVars, duplexVars, taskVars, closing, outDone, peerVars, closeSent,
                 expired, torn, ready>>

\* remove_channel(): the reason first, and then all the channel holds is let go.
Remove ==
  /\ \/ /\ reactor \in {"ending", "failing"}
        /\ SetReason(IF reactor = "failing" THEN "failed" ELSE "closed")
        /\ reactor' = "dropping"
        /\ UNCHANGED <<channel, queueVars, pending>>
     \/ /\ reactor = "dropping"
        /\ channel' = "gone"
        /\ outq' = 0 /\ pending' = 0
        /\ reactor' = "asleep"
        /\ UNCHANGED <<reason, inq>>
  /\ UNCHANGED <<appVars, duplexVars, taskVars, closing, outDone, peerVars, closeSent,
                 expired, torn, ready>>

\* The sleep ends: woken, at a linger deadline, or after the idle second.
Wake ==
  /\ reactor = "asleep"
  /\ reactor' = "commands"
  /\ UNCHANGED <<appVars, duplexVars, taskVars, queueVars, channel, closing, pending,
                 outDone, peerVars, reason, closeSent, expired, torn, ready>>

LingerPasses ==
  /\ Lingers /\ closing /\ channel = "live"
  /\ expired' = TRUE
  /\ UNCHANGED <<appVars, duplexVars, taskVars, queueVars, reactorVars, peerVars,
                 reason, closeSent, ready, torn>>

----------------------------------------------------------------------------
(* The peer.  The delegate marks the channel at an edge: at the first chunk *)
(* to read, the first room, the end.                                        *)

PeerSends ==
  /\ stream = "open" /\ sent < MaxIn
  /\ sent' = sent + 1
  /\ readable' = readable + 1
  /\ ready' = (ready \/ readable = 0)
  /\ UNCHANGED <<appVars, duplexVars, taskVars, queueVars, reactorVars, room, stream,
                 credits, received, reason, closeSent, expired, torn>>

PeerGivesRoom ==
  /\ stream = "open" /\ credits < MaxOut
  /\ credits' = credits + 1
  /\ room' = room + 1
  /\ ready' = (ready \/ room = 0)
  /\ UNCHANGED <<appVars, duplexVars, taskVars, queueVars, reactorVars, readable,
                 stream, sent, received, reason, closeSent, expired, torn>>

StreamEnds ==
  /\ stream = "open"
  /\ stream' \in {"ended", "failed"}
  /\ ready' = TRUE
  /\ UNCHANGED <<appVars, duplexVars, taskVars, queueVars, reactorVars, readable, room,
                 sent, credits, received, reason, closeSent, expired, torn>>

----------------------------------------------------------------------------
AppSteps == Write \/ Read \/ ReadEnd \/ Shut \/ Close \/ Drop

InboundSteps == InReceive \/ InWrite \/ InMark

OutboundSteps == OutRead \/ OutSend \/ OutMark

ReactorSteps ==
  \/ DrainCommands \/ Select
  \/ OutputFails \/ OutputTakes \/ OutputWrites \/ OutputRests
  \/ InputMoves \/ InputEnds \/ InputRests
  \/ CheckLinger \/ Remove \/ Wake

Next ==
  \/ AppSteps \/ InboundSteps \/ OutboundSteps \/ ReactorSteps
  \/ LingerPasses
  \/ PeerSends \/ PeerGivesRoom \/ StreamEnds

Spec == Init /\ [][Next]_l2capVars

\* The reactor loops, tokio runs both tasks, the peer grants credits while the stream
\* is open, and the application reads what there is.  Nobody has to write or close.
Fairness ==
  /\ WF_l2capVars(ReactorSteps)
  /\ WF_l2capVars(InboundSteps)
  /\ WF_l2capVars(OutboundSteps)
  /\ WF_l2capVars(PeerGivesRoom)
  /\ WF_l2capVars(Read \/ ReadEnd)

FairSpec == Spec /\ Fairness

----------------------------------------------------------------------------
(* Properties.                                                              *)

TypeOK ==
  /\ app \in {"open", "shut", "closed", "dropped"}
  /\ {wrote, received, credits, room} \subseteq 0..MaxOut
  /\ {got, sent, readable} \subseteq 0..MaxIn
  /\ toTask \in 0..Buffer /\ toApp \in 0..Buffer
  /\ eof \in {"none", "clean", "failed"} /\ reason \in {"none", "closed", "failed"}
  /\ inbound \in {"receiving", "writing", "marking", "over"}
  /\ outbound \in {"reading", "sending", "marking", "over"}
  /\ inq \in 0..Queue /\ outq \in 0..Queue
  /\ channel \in {"queued", "live", "gone"}
  /\ {closeSent, closing, expired, ready, torn, outDone} \subseteq BOOLEAN
  /\ reactor \in {"commands", "selecting", "output", "input", "checking", "ending",
                  "failing", "dropping", "asleep"}
  /\ pending \in 0..1
  /\ stream \in {"open", "ended", "failed"}

\* A clean end is the truth: an application that has not closed the channel itself
\* and reads a clean end has read all the peer sent, and no failure stopped it;
\* whatever was between the socket and it when the reactor let go still came.
CleanEndIsComplete ==
  eof = "clean" /\ app \in {"open", "shut"} => got = sent /\ stream = "ended"

\* An application that closed or dropped the channel keeps what it wrote: the channel
\* goes only when the peer has it all, unless the stream ended or the linger deadline
\* passed.  Excepted is a drop in the middle of a pass, whose Close is not drained yet:
\* pump_input finds bytes to read and their queue closed, and the channel goes with all
\* that is queued for the peer, though L2capConfig::linger_timeout promises a drop what
\* it promises a close().  A channel that is closed and kept is never cut so.
LingerDelivers ==
  channel = "gone" /\ app \in {"closed", "dropped"}
    => \/ received = wrote \/ expired \/ stream # "open"
       \/ torn /\ app = "dropped"

\* What the peer sends comes to an application that reads, though the queue filled
\* and the reactor stopped reading: nothing but the task that drains the queue can
\* tell it to go on.
InputFlows ==
  \A n \in 1..MaxIn :
    sent >= n ~> got >= n \/ app \in {"closed", "dropped"} \/ stream = "failed"
                 \/ reason = "failed"

\* What the application writes comes to a peer that grants credits, as long as the
\* application keeps the channel.
OutputFlows ==
  \A n \in 1..MaxOut :
    wrote >= n ~> received >= n \/ app \in {"closed", "dropped"} \/ stream # "open"

\* "A peer closing an L2CAP channel cleanly is now observed": once the reactor has let
\* go of the channel for the end of its input, an application that reads comes to it.
EndIsObserved ==
  channel = "gone" /\ stream = "ended" /\ reason = "closed"
    ~> eof # "none" \/ app \in {"closed", "dropped"}
=============================================================================
