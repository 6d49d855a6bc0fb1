--------------------------- MODULE AndroidGattOps ---------------------------
(***************************************************************************)
(* GATT operations on one Android connection: the Rust table of waiters    *)
(* (util/op_slots.rs), the calls that use it (discover_services() to       *)
(* unsubscribe_characteristic() of platform/android/central.rs), and the   *)
(* Kotlin side that runs them one at a time (GattOperationQueue.kt and the *)
(* operations and callbacks of GattConnections.kt).                        *)
(*                                                                         *)
(* Kotlin reports an operation by its key only - device, generation, kind  *)
(* and characteristic - so everything turns on which call holds the key    *)
(* when a report comes.  One generation is enough: keys of two generations *)
(* never meet.  How it begins and ends is AndroidConnection; here it ends  *)
(* once, in Kotlin and Rust together or in Rust first.                     *)
(*                                                                         *)
(* Steps are the sections of the Rust lock and of the Kotlin monitor, and  *)
(* the steps of the queue's worker coroutine, which takes neither.         *)
(***************************************************************************)
EXTENDS Naturals, Sequences, FiniteSets

CONSTANTS
  Calls,       \* the calls an application makes, each once
  Keys,        \* operation keys
  Demands,     \* what they may be: the key of each call
  Services,    \* the key of service discovery: pending_discover, not a slot
  None         \* no call

ASSUME CallsAssumption ==
  /\ Demands \subseteq [Calls -> Keys]
  /\ None \notin Calls

VARIABLES
  keyOf,      \* the key of each call
  callPc,     \* where a call is
  heard,      \* calls whose Notified saw notify_waiters since it was made
  slot,       \* slots[key] or pending_discover: the call holding it, or None
  result,     \* what a call's oneshot holds
  live,       \* ConnectAttempts still has the attempt
  phase,      \* how far the Kotlin attempt is, from "opening" to "retired"
  nonces,     \* pendingNonces[key]: the operation owed a callback, or None
  task,       \* the coroutine of an accepted operation
  deferred,   \* its CompletableDeferred
  queue,      \* the channel
  current,    \* the queue's current task, or None
  working,    \* what the worker is doing with it
  owed,       \* operations the platform started and has not called back for
  reports     \* how often Kotlin reported each operation

slotVars  == <<slot, result, heard>>
queueVars == <<task, deferred, queue, current, working>>
vars == <<keyOf, callPc, slotVars, live, phase, nonces, queueVars, owed, reports>>

\* What a oneshot can hold: nothing yet, a closed channel, an eviction, or the
\* report of an operation.
Reported(c, how) == [by |-> c, how |-> how]
NoResult == [by |-> None, how |-> "none"]
Closed   == [by |-> None, how |-> "closed"]
Busy     == [by |-> None, how |-> "busy"]

Init ==
  /\ keyOf \in Demands
  /\ callPc = [c \in Calls |-> "idle"]
  /\ heard = {}
  /\ slot = [k \in Keys |-> None]
  /\ result = [c \in Calls |-> NoResult]
  /\ live = TRUE
  /\ phase = "opening"
  /\ nonces = [k \in Keys |-> None]
  /\ task = [c \in Calls |-> "none"]
  /\ deferred = [c \in Calls |-> "none"]
  /\ queue = <<>>
  /\ current = None
  /\ working = "idle"
  /\ owed = {}
  /\ reports = [c \in Calls |-> 0]

SetCall(c, pc) == callPc' = [callPc EXCEPT ![c] = pc]

----------------------------------------------------------------------------
(* The table of waiters.                                                    *)

\* notify_waiters(): every Notified made before it is satisfied.
NotifyWaiters ==
  heard' = heard \cup {c \in Calls : callPc[c] \in {"trying", "parked"}}

\* complete(key, value): hand the value to whoever holds the slot, free it.
CompleteSlot(k, value) ==
  /\ slot' = [slot EXCEPT ![k] = None]
  /\ result' = IF slot[k] = None THEN result
               ELSE [result EXCEPT ![slot[k]] = value]
  /\ NotifyWaiters

\* Mutant of ReleaseSlot: nobody is told.
ReleaseSlotQuietly(k) ==
  /\ slot' = [slot EXCEPT ![k] = None]
  /\ result' = IF slot[k] = None THEN result
               ELSE [result EXCEPT ![slot[k]] = Closed]
  /\ UNCHANGED heard

\* release(key): free it without a result.
ReleaseSlot(k) == CompleteSlot(k, Closed)

\* clear_attempt: the channel of every held slot closes.
ReleaseAll ==
  /\ slot' = [k \in Keys |-> None]
  /\ result' = [c \in Calls |->
                 IF \E k \in Keys : slot[k] = c THEN Closed ELSE result[c]]
  /\ NotifyWaiters

\* A report of operation c, which came about through operation "by".  The
\* native hook lets it reach the table only while the attempt is live.
Report(c, by, how) ==
  /\ reports' = [reports EXCEPT ![c] = @ + 1]
  /\ IF live THEN CompleteSlot(keyOf[c], Reported(by, how))
             ELSE UNCHANGED slotVars

----------------------------------------------------------------------------
(* The calls, in Rust.                                                      *)

\* claim(), first half: make the Notified, then try.
Listen(c) ==
  /\ callPc[c] = "idle"
  /\ keyOf[c] # Services
  /\ SetCall(c, "trying")
  /\ heard' = heard \ {c}
  /\ UNCHANGED <<keyOf, slot, result, live, phase, nonces, queueVars, owed,
                 reports>>

\* The attempt is gone: NotConnected, for whatever kind of call.
ClaimNotConnected(c) ==
  /\ \/ callPc[c] = "trying"
     \/ callPc[c] = "idle" /\ keyOf[c] = Services
  /\ ~live
  /\ SetCall(c, "done")
  /\ UNCHANGED <<keyOf, slotVars, live, phase, nonces, queueVars, owed,
                 reports>>

\* Mutant of ClaimSlot: liveness is checked before the lock is taken.
ClaimSlotUnlocked(c) ==
  /\ callPc[c] = "trying"
  /\ slot[keyOf[c]] = None
  /\ slot' = [slot EXCEPT ![keyOf[c]] = c]
  /\ heard' = heard \ {c}
  /\ SetCall(c, "claimed")
  /\ UNCHANGED <<keyOf, result, live, phase, nonces, queueVars, owed, reports>>

\* try_claim(): the slot is free.
ClaimSlot(c) ==
  /\ callPc[c] = "trying"
  /\ live
  /\ slot[keyOf[c]] = None
  /\ slot' = [slot EXCEPT ![keyOf[c]] = c]
  /\ heard' = heard \ {c}
  /\ SetCall(c, "claimed")
  /\ UNCHANGED <<keyOf, result, live, phase, nonces, queueVars, owed, reports>>

\* try_claim(): it is not; wait for a release.
ClaimBusy(c) ==
  /\ callPc[c] = "trying"
  /\ live
  /\ slot[keyOf[c]] # None
  /\ SetCall(c, "parked")
  /\ UNCHANGED <<keyOf, slotVars, live, phase, nonces, queueVars, owed,
                 reports>>

\* A release came since: back round the loop, with a new Notified.
Released(c) ==
  /\ callPc[c] = "parked"
  /\ c \in heard
  /\ SetCall(c, "trying")
  /\ heard' = heard \ {c}
  /\ UNCHANGED <<keyOf, slot, result, live, phase, nonces, queueVars, owed,
                 reports>>

\* discover_services() waits for nobody: it evicts the call before it.
ClaimDiscover(c) ==
  /\ callPc[c] = "idle"
  /\ keyOf[c] = Services
  /\ live
  /\ slot' = [slot EXCEPT ![Services] = c]
  /\ result' = IF slot[Services] = None THEN result
               ELSE [result EXCEPT ![slot[Services]] = Busy]
  /\ SetCall(c, "claimed")
  /\ UNCHANGED <<keyOf, heard, live, phase, nonces, queueVars, owed, reports>>

\* The JNI call is refused: not connected, characteristic not found, or a
\* platform error; or it failed to be made.
KotlinRefuses(c) ==
  /\ callPc[c] = "claimed"
  /\ SetCall(c, "refused")
  /\ UNCHANGED <<keyOf, slotVars, live, phase, nonces, queueVars, owed,
                 reports>>

\* discover_services() leaves its sender behind when the JNI call fails.
DiscoverCallFails(c) ==
  /\ callPc[c] = "claimed"
  /\ keyOf[c] = Services
  /\ SetCall(c, "done")
  /\ UNCHANGED <<keyOf, slotVars, live, phase, nonces, queueVars, owed,
                 reports>>

\* Rust frees the key of the refused call: a step of its own.
RefusedReleases(c) ==
  /\ callPc[c] = "refused"
  /\ SetCall(c, "done")
  /\ ReleaseSlot(keyOf[c])
  /\ UNCHANGED <<keyOf, live, phase, nonces, queueVars, owed, reports>>

\* Accepted: a coroutine is launched for it.
KotlinAccepts(c) ==
  /\ callPc[c] = "claimed"
  /\ phase = "connected"
  /\ SetCall(c, "waiting")
  /\ task' = [task EXCEPT ![c] = "launched"]
  /\ UNCHANGED <<keyOf, slotVars, live, phase, nonces, deferred, queue,
                 current, working, owed, reports>>

\* Accepted with nothing to write, and reported on the spot: an unsubscribe of
\* a characteristic that has no CCCD.
KotlinAnswers(c) ==
  /\ callPc[c] = "claimed"
  /\ keyOf[c] # Services
  /\ phase = "connected"
  /\ SetCall(c, "waiting")
  /\ Report(c, c, "ok")
  /\ UNCHANGED <<keyOf, live, phase, nonces, queueVars, owed>>

Returns(c) ==
  /\ callPc[c] = "waiting"
  /\ result[c] # NoResult
  /\ SetCall(c, "done")
  /\ UNCHANGED <<keyOf, slotVars, live, phase, nonces, queueVars, owed,
                 reports>>

\* The caller drops the future: the slot stays held until Kotlin reports.
Dropped(c) ==
  /\ callPc[c] \in {"parked", "waiting"}
  /\ SetCall(c, "dropped")
  /\ UNCHANGED <<keyOf, slotVars, live, phase, nonces, queueVars, owed,
                 reports>>

----------------------------------------------------------------------------
(* The queue, in Kotlin.                                                    *)

\* enqueue(): the coroutines run on several threads, in any order.
Enqueue(c) ==
  /\ task[c] = "launched"
  /\ IF phase = "retired"
     THEN /\ task' = [task EXCEPT ![c] = "finished"]
          /\ UNCHANGED queue
     ELSE /\ task' = [task EXCEPT ![c] = "queued"]
          /\ queue' = Append(queue, c)
  /\ UNCHANGED <<keyOf, callPc, slotVars, live, phase, nonces, deferred,
                 current, working, owed, reports>>

\* The worker takes the next task.
RunNext ==
  /\ working = "idle"
  /\ queue # <<>>
  /\ current' = Head(queue)
  /\ queue' = Tail(queue)
  /\ working' = "kicking"
  /\ UNCHANGED <<keyOf, callPc, slotVars, live, phase, nonces, task,
                 deferred, owed, reports>>

\* Mutant of KickStarts: a timed-out operation does not keep its key.
KickStartsAnyway ==
  /\ working = "kicking"
  /\ phase = "connected"
  /\ nonces' = [nonces EXCEPT ![keyOf[current]] = current]
  /\ owed' = owed \cup {current}
  /\ working' = "awaiting"
  /\ UNCHANGED <<keyOf, callPc, slotVars, live, phase, task, deferred, queue,
                 current, reports>>

\* kick(): claimKey, then the platform takes the operation.
KickStarts ==
  /\ working = "kicking"
  /\ phase = "connected"
  /\ nonces[keyOf[current]] = None
  /\ nonces' = [nonces EXCEPT ![keyOf[current]] = current]
  /\ owed' = owed \cup {current}
  /\ working' = "awaiting"
  /\ UNCHANGED <<keyOf, callPc, slotVars, live, phase, task, deferred, queue,
                 current, reports>>

\* kick() returns false or throws: closing, a key still owed, or refused by
\* the platform.
KickFails ==
  /\ working = "kicking"
  /\ deferred' = [deferred EXCEPT ![current] = "failed"]
  /\ working' = "finishing"
  /\ UNCHANGED <<keyOf, callPc, slotVars, live, phase, nonces, task, queue,
                 current, owed, reports>>

Awaited ==
  /\ working = "awaiting"
  /\ deferred[current] # "none"
  /\ working' = "finishing"
  /\ UNCHANGED <<keyOf, callPc, slotVars, live, phase, nonces, task,
                 deferred, queue, current, owed, reports>>

\* withTimeoutOrNull gives null ...
TimeoutFires ==
  /\ working = "awaiting"
  /\ deferred[current] = "none"
  /\ working' = "timedOut"
  /\ UNCHANGED <<keyOf, callPc, slotVars, live, phase, nonces, task,
                 deferred, queue, current, owed, reports>>

\* ... and only then is the failure recorded, if no callback was quicker.
RecordTimeout ==
  /\ working = "timedOut"
  /\ deferred' = [deferred EXCEPT ![current] = IF @ = "none" THEN "failed" ELSE @]
  /\ working' = "finishing"
  /\ UNCHANGED <<keyOf, callPc, slotVars, live, phase, nonces, task, queue,
                 current, owed, reports>>

\* finally: current = null.
TaskEnds ==
  /\ working = "finishing"
  /\ current' = None
  /\ working' = "idle"
  /\ UNCHANGED <<keyOf, callPc, slotVars, live, phase, nonces, task,
                 deferred, queue, owed, reports>>

\* Mutant of CoroutineEnds: only callbacks report.
CoroutineEndsQuietly(c) ==
  /\ task[c] = "queued"
  /\ deferred[c] # "none"
  /\ task' = [task EXCEPT ![c] = "finished"]
  /\ UNCHANGED <<keyOf, callPc, slotVars, live, phase, nonces, deferred,
                 queue, current, working, owed, reports>>

\* The operation's own coroutine wakes when its deferred completes - which may
\* be before the worker's finally - and reports a failure; a success was
\* reported by the callback.
CoroutineEnds(c) ==
  /\ task[c] = "queued"
  /\ deferred[c] # "none"
  /\ task' = [task EXCEPT ![c] = "finished"]
  /\ IF phase # "retired" /\ deferred[c] = "failed"
     THEN Report(c, c, "failed")
     ELSE UNCHANGED <<slotVars, reports>>
  /\ UNCHANGED <<keyOf, callPc, live, phase, nonces, deferred, queue,
                 current, working, owed>>

----------------------------------------------------------------------------
(* Callbacks and the end of the attempt.                                    *)

\* completeOp: the key names the operation that is owed a callback; unless the
\* worker is still on it, it has been reported already.
Callback(c) ==
  /\ c \in owed
  /\ owed' = owed \ {c}
  /\ LET k == keyOf[c] IN
       IF phase = "retired" \/ nonces[k] = None
       THEN UNCHANGED <<nonces, deferred, slotVars, reports>>
       ELSE /\ nonces' = [nonces EXCEPT ![k] = None]
            /\ IF current = nonces[k]
               THEN /\ deferred' = [deferred EXCEPT ![current] =
                                      IF @ = "none" THEN "ok" ELSE @]
                    /\ Report(nonces[k], c, "ok")
               ELSE UNCHANGED <<deferred, slotVars, reports>>
  /\ UNCHANGED <<keyOf, callPc, live, phase, task, queue, current, working>>

Connects ==
  /\ phase = "opening"
  /\ phase' = "connected"
  /\ UNCHANGED <<keyOf, callPc, slotVars, live, nonces, queueVars, owed,
                 reports>>

Disconnecting ==
  /\ phase = "connected"
  /\ phase' = "disconnecting"
  /\ UNCHANGED <<keyOf, callPc, slotVars, live, nonces, queueVars, owed,
                 reports>>

\* The attempt leaves the Rust table first: a guard, or a newer connect().
RustRetires ==
  /\ live
  /\ live' = FALSE
  /\ ReleaseAll
  /\ UNCHANGED <<keyOf, callPc, phase, nonces, queueVars, owed, reports>>

\* retire(): close the queue and, inside the monitor, tell Rust.
KotlinRetires ==
  /\ phase # "retired"
  /\ phase' = "retired"
  /\ nonces' = [k \in Keys |-> None]
  /\ deferred' = [c \in Calls |->
                   IF task[c] = "queued" /\ deferred[c] = "none"
                   THEN "failed" ELSE deferred[c]]
  /\ queue' = <<>>
  /\ current' = None
  /\ working' = "idle"
  /\ live' = FALSE
  /\ IF live THEN ReleaseAll ELSE UNCHANGED slotVars
  /\ UNCHANGED <<keyOf, callPc, task, owed, reports>>

----------------------------------------------------------------------------
CallSteps(c) ==
  \/ Listen(c) \/ ClaimNotConnected(c) \/ ClaimSlot(c) \/ ClaimBusy(c)
  \/ Released(c) \/ ClaimDiscover(c) \/ KotlinRefuses(c)
  \/ DiscoverCallFails(c) \/ RefusedReleases(c) \/ KotlinAccepts(c)
  \/ KotlinAnswers(c) \/ Returns(c) \/ Dropped(c)

WorkerSteps ==
  \/ RunNext \/ KickStarts \/ KickFails \/ Awaited \/ TimeoutFires
  \/ RecordTimeout \/ TaskEnds

Next ==
  \/ \E c \in Calls :
       CallSteps(c) \/ Enqueue(c) \/ CoroutineEnds(c) \/ Callback(c)
  \/ WorkerSteps
  \/ Connects \/ Disconnecting \/ RustRetires \/ KotlinRetires

Spec == Init /\ [][Next]_vars

----------------------------------------------------------------------------
(* Properties.                                                              *)

Results == [by : Calls \cup {None},
            how : {"none", "closed", "busy", "ok", "failed"}]

TypeOK ==
  /\ keyOf \in Demands
  /\ callPc \in [Calls -> {"idle", "trying", "parked", "claimed", "refused",
                          "waiting", "done", "dropped"}]
  /\ heard \subseteq Calls
  /\ slot \in [Keys -> Calls \cup {None}]
  /\ result \in [Calls -> Results]
  /\ live \in BOOLEAN
  /\ phase \in {"opening", "connected", "disconnecting", "retired"}
  /\ nonces \in [Keys -> Calls \cup {None}]
  /\ task \in [Calls -> {"none", "launched", "queued", "finished"}]
  /\ deferred \in [Calls -> {"none", "ok", "failed"}]
  /\ queue \in Seq(Calls)
  /\ current \in Calls \cup {None}
  /\ working \in {"idle", "kicking", "awaiting", "timedOut", "finishing"}
  /\ working = "idle" <=> current = None
  /\ owed \subseteq Calls
  /\ reports \in [Calls -> Nat]

OpCalls == {c \in Calls : keyOf[c] # Services}

\* Kotlin has accepted operation c and has yet to report how it ended.
Owes(c) == task[c] = "launched" \/ (task[c] = "queued" /\ deferred[c] # "ok")

\* What op_slots.rs rests on: "Kotlin reports every operation it accepted
\* exactly once".
ReportedOnce == \A c \in Calls : reports[c] <= 1

\* A slot is held for a call that is about to free it itself or whose
\* operation Kotlin still has to report, so no slot leaks, dropped callers and
\* refused calls included.
SlotIsOwed ==
  \A k \in Keys \ {Services} :
    slot[k] # None => callPc[slot[k]] \in {"claimed", "refused"} \/ Owes(slot[k])

\* No slot outlives the attempt: one registered after its retirement would be
\* waited for forever (op_slots.rs on claiming under the lock).
RetiredIsClean == ~live => \A k \in Keys : slot[k] = None

\* No operation has been reported twice, nor is about to be.
NoneReportedTwice == \A c \in Calls : reports[c] + (IF Owes(c) THEN 1 ELSE 0) <= 1

\* ... and a call gets the outcome of its own operation, or none.
OwnReports ==
  NoneReportedTwice => \A c \in OpCalls : result[c].by \in {None, c}

\* Every call that is not dropped returns, whatever the platform does: the
\* queue's timeouts stand in for callbacks that never come, and a slot's
\* release wakes the calls parked on it ("so a wait always ends").
CallsEnd ==
  \A c \in Calls : (callPc[c] # "idle") ~> (callPc[c] \in {"done", "dropped"})

----------------------------------------------------------------------------
(* Fairness: polled futures, JNI calls, launched coroutines, the worker and *)
(* its timer all run.  Callbacks, the link and the application need not.    *)

CallRuns(c) ==
  \/ ClaimNotConnected(c) \/ ClaimSlot(c) \/ ClaimBusy(c) \/ Released(c)
  \/ KotlinRefuses(c) \/ RefusedReleases(c) \/ KotlinAccepts(c)
  \/ KotlinAnswers(c) \/ Returns(c)

Fairness ==
  /\ \A c \in Calls :
       WF_vars(CallRuns(c)) /\ WF_vars(Enqueue(c)) /\ WF_vars(CoroutineEnds(c))
  /\ WF_vars(WorkerSteps)

FairSpec == Spec /\ Fairness

=============================================================================
