------------------------------ MODULE AttRequests ------------------------------
(***************************************************************************)
(* Requests of centrals at a CoreBluetooth peripheral                      *)
(* (platform/apple/peripheral.rs) and a BlueZ one                          *)
(* (platform/linux/peripheral.rs), from the callback that brings them to   *)
(* the response.  A callback cuts a request into parts, one for each       *)
(* fragment of a long write, and sends each with a responder through the   *)
(* channel behind take_requests(); a task waits for all of the responders  *)
(* and makes the one response that ATT wants.  (In BlueZ every request     *)
(* has one part, and callback and task are one future.)                    *)
(*                                                                         *)
(* What a request is about, and what a value says, is left out, and so are *)
(* the requests that nobody waits for: a write without response has no     *)
(* responder, and a value fixed in the service never reaches the channel.  *)
(* Nobody times a request.                                                 *)
(***************************************************************************)
EXTENDS Integers, Sequences

CONSTANTS
  Asks,      \* requests of centrals, each a read, a write or a batch of writes
  MaxParts   \* bound: fragments of a batch

ASSUME AttAssumption == MaxParts \in Nat \ {0}

VARIABLES
  askPc,     \* where a request is: "idle", "emitting", "awaiting", "responded"
  size,      \* how many parts it has
  emitted,   \* how many of them are in the channel, or were
  awaited,   \* the part whose responder the task awaits
  success,   \* all before it were accepted
  response,  \* what the central was told: "none", "success", "error"
  malformed, \* requests that named a characteristic without a UUID of ours
  part,      \* each part: "none", "queued", "held", "accepted" or "refused"
  channel,   \* the request channel
  reader     \* its stream: "untaken", "taken" or "dropped"

relayVars == <<askPc, size, awaited, success, response, malformed>>
partVars  == <<emitted, part, channel, reader>>
attVars   == <<relayVars, partVars>>

Parts == Asks \X (1..MaxParts)

AttInit ==
  /\ askPc = [a \in Asks |-> "idle"]
  /\ size = [a \in Asks |-> 1]
  /\ emitted = [a \in Asks |-> 0]
  /\ awaited = [a \in Asks |-> 1]
  /\ success = [a \in Asks |-> TRUE]
  /\ response = [a \in Asks |-> "none"]
  /\ malformed = {}
  /\ part = [p \in Parts |-> "none"]
  /\ channel = <<>>
  /\ reader = "untaken"

Answered(p) == part[p] \in {"accepted", "refused"}

----------------------------------------------------------------------------
(* The callback.                                                            *)

Arrives(a) ==
  /\ askPc[a] = "idle"
  /\ askPc' = [askPc EXCEPT ![a] = "emitting"]
  /\ \E n \in 1..MaxParts : size' = [size EXCEPT ![a] = n]
  /\ UNCHANGED <<awaited, success, response, malformed, partVars>>

\* Mutant of Emit: a request nobody can receive is forgotten.
EmitForgets(a) ==
  /\ askPc[a] = "emitting" /\ emitted[a] < size[a]
  /\ emitted' = [emitted EXCEPT ![a] = @ + 1]
  /\ IF reader = "dropped"
     THEN UNCHANGED <<part, channel>>
     ELSE /\ part' = [part EXCEPT ![<<a, emitted[a] + 1>>] = "queued"]
          /\ channel' = Append(channel, <<a, emitted[a] + 1>>)
  /\ UNCHANGED <<relayVars, reader>>

\* emit_request(): a send that fails drops the request, and its responder says no.
Emit(a) ==
  /\ askPc[a] = "emitting" /\ emitted[a] < size[a]
  /\ emitted' = [emitted EXCEPT ![a] = @ + 1]
  /\ LET p == <<a, emitted[a] + 1>> IN
     IF reader = "dropped"
     THEN part' = [part EXCEPT ![p] = "refused"] /\ UNCHANGED channel
     ELSE part' = [part EXCEPT ![p] = "queued"] /\ channel' = Append(channel, p)
  /\ UNCHANGED <<relayVars, reader>>

\* A part names no characteristic of ours: the batch is refused there and then, with
\* the parts before it on their way.
Malformed(a) ==
  /\ askPc[a] = "emitting" /\ emitted[a] < size[a]
  /\ askPc' = [askPc EXCEPT ![a] = "responded"]
  /\ response' = [response EXCEPT ![a] = "error"]
  /\ malformed' = malformed \cup {a}
  /\ UNCHANGED <<size, awaited, success, partVars>>

\* All parts are emitted: the task is spawned.
Spawns(a) ==
  /\ askPc[a] = "emitting" /\ emitted[a] = size[a]
  /\ askPc' = [askPc EXCEPT ![a] = "awaiting"]
  /\ UNCHANGED <<size, awaited, success, response, malformed, partVars>>

----------------------------------------------------------------------------
(* The task.                                                                *)

\* Mutant of Awaits: it goes no further than the first refusal.
AwaitsNoMore(a) ==
  /\ askPc[a] = "awaiting" /\ awaited[a] <= size[a]
  /\ Answered(<<a, awaited[a]>>)
  /\ LET ok == part[<<a, awaited[a]>>] = "accepted" IN
     /\ success' = [success EXCEPT ![a] = ok]
     /\ awaited' = [awaited EXCEPT ![a] = IF ok THEN @ + 1 ELSE size[a] + 1]
  /\ UNCHANGED <<askPc, size, response, malformed, partVars>>

\* The next responder has been used, or dropped.
Awaits(a) ==
  /\ askPc[a] = "awaiting" /\ awaited[a] <= size[a]
  /\ Answered(<<a, awaited[a]>>)
  /\ success' = [success EXCEPT ![a] = @ /\ part[<<a, awaited[a]>>] = "accepted"]
  /\ awaited' = [awaited EXCEPT ![a] = @ + 1]
  /\ UNCHANGED <<askPc, size, response, malformed, partVars>>

Responds(a) ==
  /\ askPc[a] = "awaiting" /\ awaited[a] > size[a]
  /\ askPc' = [askPc EXCEPT ![a] = "responded"]
  /\ response' = [response EXCEPT ![a] = IF success[a] THEN "success" ELSE "error"]
  /\ UNCHANGED <<size, awaited, success, malformed, partVars>>

----------------------------------------------------------------------------
(* The application.                                                         *)

\* take_requests(), once.
TakesRequests ==
  /\ reader = "untaken"
  /\ reader' = "taken"
  /\ UNCHANGED <<relayVars, emitted, part, channel>>

Receives ==
  /\ reader = "taken" /\ channel # <<>>
  /\ part' = [part EXCEPT ![Head(channel)] = "held"]
  /\ channel' = Tail(channel)
  /\ UNCHANGED <<relayVars, emitted, reader>>

\* It uses the responder, or drops it, which says no.
Answers(p) ==
  /\ part[p] = "held"
  /\ \E verdict \in {"accepted", "refused"} : part' = [part EXCEPT ![p] = verdict]
  /\ UNCHANGED <<relayVars, emitted, channel, reader>>

\* It drops the stream, and with it the responders of what it has not received.
DropsRequests ==
  /\ reader = "taken"
  /\ reader' = "dropped"
  /\ part' = [p \in Parts |-> IF part[p] = "queued" THEN "refused" ELSE part[p]]
  /\ channel' = <<>>
  /\ UNCHANGED <<relayVars, emitted>>

AttNext ==
  \/ \E a \in Asks : \/ Arrives(a) \/ Emit(a) \/ Malformed(a) \/ Spawns(a)
                     \/ Awaits(a) \/ Responds(a)
  \/ TakesRequests \/ Receives \/ DropsRequests
  \/ \E p \in Parts : Answers(p)

AttSpec == AttInit /\ [][AttNext]_attVars

----------------------------------------------------------------------------
(* Properties.                                                              *)

\* Every variable has its type.
AttTypeOK ==
  /\ askPc \in [Asks -> {"idle", "emitting", "awaiting", "responded"}]
  /\ size \in [Asks -> 1..MaxParts]
  /\ emitted \in [Asks -> 0..MaxParts]
  /\ awaited \in [Asks -> 1..(MaxParts + 1)]
  /\ success \in [Asks -> BOOLEAN]
  /\ response \in [Asks -> {"none", "success", "error"}]
  /\ malformed \subseteq Asks
  /\ part \in [Parts -> {"none", "queued", "held", "accepted", "refused"}]
  /\ channel \in Seq(Parts)
  /\ reader \in {"untaken", "taken", "dropped"}

\* A response is earned by every part: success, if the application accepted all of
\* them, and an error only after it answered all and refused one (or the request could
\* not be passed on), so that no responder it holds is behind the central's time.
ResponseIsEarned ==
  \A a \in Asks \ malformed :
    LET all == {<<a, i>> : i \in 1..size[a]} IN
    /\ response[a] = "success" => \A p \in all : part[p] = "accepted"
    /\ response[a] = "error" => /\ \A p \in all : Answered(p)
                                /\ \E p \in all : part[p] = "refused"

\* While a request has no response, each part of it that was emitted and not answered
\* can be answered still: it is in the application's hands or in the channel, and the
\* channel has, or can have, a reader.
ResponseIsOwed ==
  \A a \in Asks : \A i \in 1..emitted[a] :
    askPc[a] \in {"emitting", "awaiting"} /\ ~Answered(<<a, i>>) =>
      \/ part[<<a, i>>] = "held"
      \/ reader # "dropped" /\ \E k \in DOMAIN channel : channel[k] = <<a, i>>
=============================================================================
