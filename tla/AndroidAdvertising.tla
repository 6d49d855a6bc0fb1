------------------------- MODULE AndroidAdvertising -------------------------
(***************************************************************************)
(* Advertising from an Android peripheral: the single slot in Rust         *)
(* (util/advertise_state.rs), start_advertising with the guard that covers *)
(* its being dropped, stop_advertising, the Kotlin side of both            *)
(* (BlePeripheralManager.kt), and the adapter rename that a named          *)
(* advertisement waits for (AdapterRename.kt), which set_adapter_name      *)
(* competes for.                                                           *)
(*                                                                         *)
(* A start is named by its request id.  One that finds the slot taken gets *)
(* no id, changes nothing and is no step here.  A step is a section of the *)
(* Rust lock or of a Kotlin monitor; calls into Kotlin that hold           *)
(* advertiseLock throughout are one step each.                             *)
(***************************************************************************)
EXTENDS Naturals, Sequences, FiniteSets

CONSTANTS
  MaxStarts,     \* bound: how many starts get the slot
  Stops,         \* calls of stop_advertising
  Renames,       \* calls of set_adapter_name
  Names,         \* adapter names
  NoName,        \* an advertisement without a name; no rename in flight
  NoOne,         \* no request waits for its name
  Demands,       \* the names that starts and renames may ask for
  MaxPowerOffs   \* bound: how often the adapter is switched off

NoReq == 0
Starts == 1..MaxStarts
Askers == Starts \cup Renames

ASSUME AdvertisingAssumption ==
  /\ MaxStarts \in Nat /\ MaxPowerOffs \in Nat
  /\ NoName \notin Names /\ NoOne \notin Askers /\ Starts \cap Renames = {}
  /\ Demands \subseteq [Askers -> Names \cup {NoName}]
  /\ \A d \in Demands : \A r \in Renames : d[r] # NoName

VARIABLES
  slot,          \* AdvertiseState.current
  startPc,       \* where a start is
  won,           \* the starts whose oneshot holds Ok
  stopPc, stopId,\* where a stop is, and the request it displaced
  callback,      \* advertiseCallback, by the request it was made for
  pending,       \* AdapterRename.pending, by who asked
  inFlight,      \* AdapterRename.inFlight
  renamePc,      \* where a call of set_adapter_name is
  wants,         \* the name each asks for
  adapterName,   \* the name in place
  renaming,      \* names set and not yet applied
  announced,     \* ACTION_LOCAL_NAME_CHANGED broadcasts on their way
  air,           \* what the stack does with a start's advertisement; "lost"
                 \* when a power-off ended it
  confirmed,     \* onStartSuccess posted and not yet run
  failing,       \* onStartFailure or onFailed due: the monitor section, ...
  reporting,     \* ... and the report that follows it
  powered, offs  \* the adapter, and how often it went off

rustVars   == <<slot, startPc, won, stopPc, stopId>>
renameVars == <<pending, inFlight, renamePc>>
nameVars   == <<adapterName, renaming, announced>>
radioVars  == <<air, confirmed, failing, reporting, powered, offs>>
advertisingVars == <<rustVars, callback, renameVars, wants, nameVars, radioVars>>

Idle == [state |-> "idle", id |-> NoReq]

AdvertisingInit ==
  /\ slot = Idle
  /\ startPc = [s \in Starts |-> "unborn"]
  /\ won = {}
  /\ stopPc = [k \in Stops |-> "idle"]
  /\ stopId = [k \in Stops |-> NoReq]
  /\ callback = NoReq
  /\ pending = NoOne
  /\ inFlight = NoName
  /\ renamePc = [r \in Renames |-> "idle"]
  /\ wants \in Demands
  /\ adapterName \in Names
  /\ renaming = <<>> /\ announced = <<>>
  /\ air = [s \in Starts |-> "off"]
  /\ confirmed = {} /\ failing = {} /\ reporting = {}
  /\ powered = TRUE
  /\ offs = 0

SetStart(s, pc) == startPc' = [startPc EXCEPT ![s] = pc]

----------------------------------------------------------------------------
(* AdapterRename.                                                           *)

\* The stack is asked to advertise; one that is off never answers.
Ask(s) ==
  air' = IF powered THEN [air EXCEPT ![s] = "asked"] ELSE air

\* onReady of r; nothing when nobody waits.
Ready(r) ==
  /\ IF r \in Starts THEN Ask(r) ELSE UNCHANGED air
  /\ renamePc' = [q \in Renames |-> IF q = r THEN "renamed" ELSE renamePc[q]]

\* What the adapter is about to be called.
Current == IF inFlight # NoName THEN inFlight ELSE adapterName

SetName(name) ==
  /\ powered
  /\ inFlight' = name
  /\ renaming' = Append(renaming, name)

\* request() accepts: the name is in place, or it is waited for.
RequestAccepted(r) ==
  /\ pending = NoOne
  /\ \/ Current = wants[r] /\ UNCHANGED <<inFlight, renaming>>
     \/ Current # wants[r] /\ SetName(wants[r])
  /\ IF inFlight' = NoName
     THEN Ready(r) /\ UNCHANGED pending
     ELSE /\ pending' = r
          /\ renamePc' = [q \in Renames |-> IF q = r THEN "asked" ELSE renamePc[q]]
          /\ UNCHANGED air

----------------------------------------------------------------------------
(* start_advertising().                                                     *)

\* register().
Begin(s) ==
  /\ slot = Idle
  /\ startPc[s] = "unborn"
  /\ \A t \in 1..(s - 1) : startPc[t] # "unborn"
  /\ slot' = [state |-> "starting", id |-> s]
  /\ SetStart(s, "calling")
  /\ UNCHANGED <<won, stopPc, stopId, callback, renameVars,
                 wants, nameVars, radioVars>>

\* Kotlin refuses: it holds a callback, the adapter is off, another rename is
\* waiting, or the stack refuses the name; or the JNI call fails.
StartRefused(s) ==
  /\ startPc[s] = "calling"
  /\ SetStart(s, "failing")
  /\ UNCHANGED <<slot, won, stopPc, stopId, callback,
                 renameVars, wants, nameVars, radioVars>>

KotlinStarts(s) ==
  /\ startPc[s] = "calling"
  /\ callback = NoReq
  /\ powered
  /\ wants[s] = NoName
  /\ SetStart(s, "waiting")
  /\ callback' = s
  /\ Ask(s)
  /\ UNCHANGED <<slot, won, stopPc, stopId, renameVars,
                 wants, nameVars, confirmed, failing, reporting, powered, offs>>

KotlinStartsNamed(s) ==
  /\ startPc[s] = "calling"
  /\ callback = NoReq
  /\ powered
  /\ wants[s] # NoName
  /\ SetStart(s, "waiting")
  /\ callback' = s
  /\ RequestAccepted(s)
  /\ UNCHANGED <<slot, won, stopPc, stopId, renamePc, wants,
                 adapterName, announced, confirmed, failing, reporting, powered,
                 offs>>

\* The stack throws (the adapter just went off), with the callback in place.
StackThrows(s) ==
  /\ startPc[s] = "calling"
  /\ callback = NoReq
  /\ powered
  /\ wants[s] = NoName \/ (inFlight = NoName /\ wants[s] = adapterName)
  /\ SetStart(s, "failing")
  /\ callback' = s
  /\ UNCHANGED <<slot, won, stopPc, stopId, renameVars,
                 wants, nameVars, radioVars>>

StartSucceeds(s) ==
  /\ startPc[s] = "waiting"
  /\ s \in won
  /\ SetStart(s, "succeeded")
  /\ UNCHANGED <<slot, won, stopPc, stopId, callback, renameVars, wants, nameVars,
                 radioVars>>

\* An error - from the stack, the rename or a stop - the deadline, or the caller
\* dropping the future, which may come after the stack confirmed: the guard
\* cleans up.
StartFails(s) ==
  /\ startPc[s] = "waiting"
  /\ SetStart(s, "failing")
  /\ UNCHANGED <<slot, won, stopPc, stopId, callback,
                 renameVars, wants, nameVars, radioVars>>

\* Mutant of GuardReleases: whoever owns the slot.
GuardTakes(s) ==
  /\ startPc[s] = "failing"
  /\ SetStart(s, "stopping")
  /\ slot' = Idle
  /\ UNCHANGED <<won, stopPc, stopId, callback, renameVars,
                 wants, nameVars, radioVars>>

\* Mutant of GuardReleases: "conditional on that release succeeding".
GuardReleasesOrLeaves(s) ==
  /\ startPc[s] = "failing"
  /\ SetStart(s, IF slot.id = s THEN "stopping" ELSE "done")
  /\ slot' = IF slot.id = s THEN Idle ELSE slot
  /\ UNCHANGED <<won, stopPc, stopId, callback, renameVars,
                 wants, nameVars, radioVars>>

GuardReleases(s) ==
  /\ startPc[s] = "failing"
  /\ SetStart(s, "stopping")
  /\ slot' = IF slot.id = s THEN Idle ELSE slot
  /\ UNCHANGED <<won, stopPc, stopId, callback, renameVars,
                 wants, nameVars, radioVars>>

\* Mutant of KotlinStop: the start may still be waiting for its name.
KotlinStopKeepsTicket(s) ==
  IF callback # s
  THEN UNCHANGED <<callback, pending, air>>
  ELSE /\ callback' = NoReq
       /\ air' = [air EXCEPT ![s] = "off"]
       /\ UNCHANGED pending

\* stopAdvertising(): nothing, unless s is the live request.
KotlinStop(s) ==
  IF callback # s
  THEN UNCHANGED <<callback, pending, air>>
  ELSE /\ callback' = NoReq
       /\ pending' = IF pending = s THEN NoOne ELSE pending
       /\ air' = [air EXCEPT ![s] = "off"]

GuardStops(s) ==
  /\ startPc[s] = "stopping"
  /\ SetStart(s, "failed")
  /\ KotlinStop(s)
  /\ UNCHANGED <<slot, won, stopPc, stopId, inFlight, renamePc, wants,
                 nameVars, confirmed, failing, reporting, powered, offs>>

----------------------------------------------------------------------------
(* stop_advertising() and set_adapter_name().                               *)

\* take(): whoever owns the slot, and a start in flight is woken to fail.
StopTakes(k) ==
  /\ stopPc[k] = "idle"
  /\ stopPc' = [stopPc EXCEPT ![k] = IF slot = Idle THEN "done" ELSE "taken"]
  /\ stopId' = [stopId EXCEPT ![k] = slot.id]
  /\ slot' = Idle
  /\ UNCHANGED <<startPc, won, callback, renameVars, wants, nameVars, radioVars>>

StopStops(k) ==
  /\ stopPc[k] = "taken"
  /\ stopPc' = [stopPc EXCEPT ![k] = "done"]
  /\ KotlinStop(stopId[k])
  /\ UNCHANGED <<slot, startPc, won, stopId, inFlight, renamePc, wants,
                 nameVars, confirmed, failing, reporting, powered, offs>>

\* setAdapterName(), when request() accepts.
RenameAsks(r) ==
  /\ renamePc[r] = "idle"
  /\ RequestAccepted(r)
  /\ UNCHANGED <<rustVars, callback, wants, adapterName, announced, confirmed,
                 failing, reporting, powered, offs>>

----------------------------------------------------------------------------
(* Callbacks, broadcasts and timers.                                        *)

\* complete(): dropped, unless s still owns the slot.
Complete(s, started) ==
  IF slot # [state |-> "starting", id |-> s]
  THEN UNCHANGED <<slot, won>>
  ELSE /\ slot' = IF started THEN [slot EXCEPT !.state = "active"] ELSE Idle
       /\ won' = IF started THEN won \cup {s} ELSE won

OnStartSuccess(s) ==
  /\ s \in confirmed
  /\ confirmed' = confirmed \ {s}
  /\ Complete(s, TRUE)
  /\ UNCHANGED <<startPc, stopPc, stopId, callback, renameVars, wants, nameVars,
                 air, failing, reporting, powered, offs>>

\* onStartFailure and renameUnconfirmed, inside the monitor ...
FailureClears(s) ==
  /\ s \in failing
  /\ failing' = failing \ {s}
  /\ reporting' = reporting \cup {s}
  /\ callback' = IF callback = s THEN NoReq ELSE callback
  /\ UNCHANGED <<rustVars, renameVars, wants, nameVars, air, confirmed, powered,
                 offs>>

\* ... and outside it.
FailureReports(s) ==
  /\ s \in reporting
  /\ reporting' = reporting \ {s}
  /\ Complete(s, FALSE)
  /\ UNCHANGED <<startPc, stopPc, stopId, callback, renameVars, wants, nameVars,
                 air, confirmed, failing, powered, offs>>

\* onNameChanged().
NameChanged ==
  /\ announced # <<>>
  /\ announced' = Tail(announced)
  /\ IF Head(announced) = inFlight
     THEN inFlight' = NoName /\ pending' = NoOne /\ Ready(pending)
     ELSE UNCHANGED <<inFlight, pending, renamePc, air>>
  /\ UNCHANGED <<rustVars, callback, wants, adapterName, renaming,
                 confirmed, failing, reporting, powered, offs>>

\* timedOut(), for the newest rename while its name is in flight; otherwise a
\* timer does nothing.
TimedOut ==
  /\ inFlight # NoName
  /\ inFlight' = NoName
  /\ pending' = NoOne
  /\ IF adapterName = inFlight
     THEN Ready(pending) /\ UNCHANGED failing
     ELSE failing' = failing \cup ({pending} \cap Starts) /\ UNCHANGED <<renamePc, air>>
  /\ UNCHANGED <<rustVars, callback, wants, nameVars, confirmed,
                 reporting, powered, offs>>

----------------------------------------------------------------------------
(* The stack.                                                               *)

StackConfirms(s) ==
  /\ air[s] = "asked"
  /\ air' = [air EXCEPT ![s] = "on"]
  /\ confirmed' = confirmed \cup {s}
  /\ UNCHANGED <<rustVars, callback, renameVars, wants, nameVars, failing,
                 reporting, powered, offs>>

StackRefuses(s) ==
  /\ air[s] = "asked"
  /\ air' = [air EXCEPT ![s] = "off"]
  /\ failing' = failing \cup {s}
  /\ UNCHANGED <<rustVars, callback, renameVars, wants, nameVars, confirmed,
                 reporting, powered, offs>>

NameApplied ==
  /\ renaming # <<>>
  /\ adapterName' = Head(renaming)
  /\ announced' = Append(announced, Head(renaming))
  /\ renaming' = Tail(renaming)
  /\ UNCHANGED <<rustVars, callback, renameVars, wants, radioVars>>

OnAir(s) == air[s] \in {"asked", "on"}

\* Advertising ends and no callback says so; onAdapterOff, which hears of it,
\* leaves advertising alone.
AdapterOff ==
  /\ powered
  /\ offs < MaxPowerOffs
  /\ powered' = FALSE
  /\ offs' = offs + 1
  /\ air' = [s \in Starts |-> IF OnAir(s) THEN "lost" ELSE air[s]]
  /\ renaming' = <<>>
  /\ UNCHANGED <<rustVars, callback, renameVars, wants, adapterName, announced,
                 confirmed, failing, reporting>>

PowerOn ==
  /\ ~powered
  /\ powered' = TRUE
  /\ UNCHANGED <<rustVars, callback, renameVars, wants, nameVars, air, confirmed,
                 failing, reporting, offs>>

----------------------------------------------------------------------------
StartSteps(s) ==
  \/ Begin(s) \/ StartRefused(s) \/ KotlinStarts(s) \/ KotlinStartsNamed(s)
  \/ StackThrows(s)
  \/ StartSucceeds(s) \/ StartFails(s) \/ GuardReleases(s) \/ GuardStops(s)

StopSteps(k) == StopTakes(k) \/ StopStops(k)

CallbackSteps(s) == OnStartSuccess(s) \/ FailureClears(s) \/ FailureReports(s)

RadioSteps(s) == StackConfirms(s) \/ StackRefuses(s)

AdvertisingNext ==
  \/ \E s \in Starts : StartSteps(s) \/ CallbackSteps(s) \/ RadioSteps(s)
  \/ \E k \in Stops : StopSteps(k)
  \/ \E r \in Renames : RenameAsks(r)
  \/ NameChanged \/ TimedOut \/ NameApplied \/ AdapterOff \/ PowerOn

AdvertisingSpec == AdvertisingInit /\ [][AdvertisingNext]_advertisingVars

----------------------------------------------------------------------------
(* Properties.                                                              *)

AdvertisingTypeOK ==
  /\ slot \in {Idle} \cup [state : {"starting", "active"}, id : Starts]
  /\ startPc \in [Starts -> {"unborn", "calling", "waiting", "failing",
                             "stopping", "succeeded", "failed"}]
  /\ won \subseteq Starts
  /\ stopPc \in [Stops -> {"idle", "taken", "done"}]
  /\ stopId \in [Stops -> Starts \cup {NoReq}]
  /\ callback \in Starts \cup {NoReq}
  /\ pending \in Askers \cup {NoOne}
  /\ inFlight \in Names \cup {NoName}
  /\ powered \in BOOLEAN
  /\ renamePc \in [Renames -> {"idle", "asked", "renamed"}]
  /\ wants \in [Askers -> Names \cup {NoName}]
  /\ adapterName \in Names
  /\ renaming \in Seq(Names) /\ announced \in Seq(Names)
  /\ air \in [Starts -> {"off", "asked", "on", "lost"}]
  /\ confirmed \subseteq Starts /\ failing \subseteq Starts
  /\ reporting \subseteq Starts
  /\ offs \in 0..MaxPowerOffs

\* Whatever the stack advertises, or will once a name lands, is what the one
\* callback Kotlin keeps can stop: no advertisement is stranded with "nothing
\* able to reach it", and none starts after it was stopped.
OneHandle == \A s \in Starts : OnAir(s) \/ pending = s => callback = s

\* And somebody in Rust answers for that callback: the slot, the start that has
\* not returned, or a stop on its way - even when a stop emptied the slot
\* between the start claiming it and reaching Kotlin.
NoneStranded ==
  callback # NoReq =>
    \/ slot.id = callback
    \/ startPc[callback] \in {"calling", "waiting", "failing", "stopping"}
    \/ \E k \in Stops : stopPc[k] = "taken" /\ stopId[k] = callback

\* A start that returned Ok is on air and owns the slot until a stop, whatever
\* the guards of dropped starts, late callbacks and timers of others still do.
OkMeansOnAir ==
  \A s \in Starts : startPc[s] = "succeeded" /\ (\A k \in Stops : stopId[k] # s) =>
    /\ slot = [state |-> "active", id |-> s]
    /\ air[s] \in {"on", "lost"}

\* What peripheral/types.rs says of a start refused with AlreadyAdvertising after
\* a power cycle: the platform has resumed the advertisement.  Only an active
\* slot refuses for good.
RefusedMeansOnAir == slot.state = "active" => air[slot.id] = "on"
=============================================================================
