------------------------- MODULE AndroidGattProofs -------------------------
(***************************************************************************)
(* Proofs about AndroidGattOps, for any number of calls and keys;          *)
(* AndroidGattServer, for any number of services, requests, power cycles   *)
(* and links; and MockLink, for any number of readers, subscribers, dials  *)
(* and listeners.                                                          *)
(***************************************************************************)
EXTENDS AndroidGattOps, AndroidGattServer, MockLink, TLAPS

(***************************************************************************)
(* The GATT operations of a central: the inductive invariant.              *)
(***************************************************************************)

\* A slot is held under the key of the call that holds it, and only while Rust has
\* the attempt, which it has no longer once Kotlin retired it.
SlotKeys == \A k \in Keys : slot[k] # None => keyOf[slot[k]] = k

RustFirst == phase = "retired" => ~live

\* An operation has its coroutine from the moment it is accepted; its outcome is not
\* there before it is queued.
BeforeAccepted(c) == callPc[c] \in {"idle", "trying", "parked", "claimed", "refused"}

Tasks ==
  /\ \A c \in Calls : task[c] \in {"none", "launched"} => deferred[c] = "none"
  /\ \A c \in Calls : BeforeAccepted(c) => task[c] = "none" /\ reports[c] = 0
  /\ \A i \in 1..Len(queue) : task[queue[i]] \in {"queued", "finished"}
  /\ current # None => task[current] \in {"queued", "finished"}

\* A key is owed a callback by the operation the platform was given under it.
NoncesOwed ==
  /\ \A k \in Keys : nonces[k] # None => nonces[k] \in owed /\ keyOf[nonces[k]] = k
  /\ phase # "retired" => \A c \in owed : nonces[keyOf[c]] = c
  /\ phase = "retired" => \A k \in Keys : nonces[k] = None

\* While Kotlin has the attempt, it is done with an operation once it has reported it.
Finished ==
  /\ \A c \in Calls : phase # "retired" /\ task[c] = "finished" => reports[c] >= 1
  /\ \A c \in Calls : deferred[c] = "ok" => reports[c] >= 1

\* What a call waits for is its own: it holds the slot until it is reported, and is
\* handed nothing but its own report.
Waits(c) == callPc[c] \in {"claimed", "refused"} \/ Owes(c)

OwnSlots ==
  ReportedOnce =>
    /\ \A c \in OpCalls : live /\ Waits(c) /\ reports[c] = 0 => slot[keyOf[c]] = c
    /\ \A c \in OpCalls : result[c].by \in {None, c}

OpsInv ==
  /\ TypeOK /\ SlotKeys /\ RustFirst /\ Tasks /\ NoncesOwed /\ Finished /\ SlotIsOwed
  /\ RetiredIsClean /\ OwnSlots

\* What the slots and the oneshots hold after a report, a release, and the end of all.
LEMMA SlotFreed ==
  ASSUME TypeOK, NEW k \in Keys, NEW value \in Results, CompleteSlot(k, value)
  PROVE  /\ slot' \in [Keys -> Calls \cup {None}] /\ result' \in [Calls -> Results]
         /\ heard' \subseteq Calls
         /\ slot'[k] = None /\ \A j \in Keys : j # k => slot'[j] = slot[j]
         /\ \A c \in Calls : c # slot[k] => result'[c] = result[c]
         /\ \A c \in Calls : c = slot[k] => result'[c] = value
  BY CallsAssumption DEF TypeOK, CompleteSlot, NotifyWaiters

\* The end of the connection empties every slot and closes who waits.
LEMMA SlotsFreed ==
  ASSUME TypeOK, ReleaseAll
  PROVE  /\ slot' \in [Keys -> Calls \cup {None}] /\ result' \in [Calls -> Results]
         /\ heard' \subseteq Calls
         /\ \A k \in Keys : slot'[k] = None
         /\ \A c \in Calls : result'[c] \in {Closed, result[c]}
  <1>1. Closed \in Results
    BY DEF Closed, Results
  <1>2. QED BY <1>1 DEF TypeOK, ReleaseAll, NotifyWaiters

\* The outcomes a call may have.
LEMMA ResultTypes ==
  /\ NoResult \in Results /\ Closed \in Results /\ Busy \in Results
  /\ NoResult.by = None /\ Closed.by = None /\ Busy.by = None
  /\ \A c \in Calls : \A how \in {"ok", "failed"} : Reported(c, how) \in Results /\ Reported(c, how).by = c
  BY DEF NoResult, Closed, Busy, Reported, Results

\* A report counts, and completes the slot of its key while the attempt is live.
LEMMA ReportGiven ==
  ASSUME TypeOK, NEW c \in Calls, NEW by \in Calls, NEW how \in {"ok", "failed"},
         Report(c, by, how)
  PROVE  /\ reports' \in [Calls -> Nat] /\ reports'[c] = reports[c] + 1
         /\ \A o \in Calls : o # c => reports'[o] = reports[o]
         /\ slot' \in [Keys -> Calls \cup {None}] /\ result' \in [Calls -> Results]
         /\ heard' \subseteq Calls
         /\ live => /\ slot'[keyOf[c]] = None
                    /\ \A j \in Keys : j # keyOf[c] => slot'[j] = slot[j]
                    /\ \A o \in Calls : o # slot[keyOf[c]] => result'[o] = result[o]
                    /\ \A o \in Calls : o = slot[keyOf[c]] => result'[o].by = by
         /\ ~live => UNCHANGED <<slot, result>>
  <1>1. keyOf[c] \in Keys /\ Reported(by, how) \in Results /\ Reported(by, how).by = by
    BY ResultTypes, CallsAssumption DEF TypeOK
  <1>2. live => CompleteSlot(keyOf[c], Reported(by, how))
    BY DEF Report
  <1>3. ~live => UNCHANGED <<slot, result, heard>>
    BY DEF Report, slotVars
  <1>4. /\ reports' \in [Calls -> Nat] /\ reports'[c] = reports[c] + 1
        /\ \A o \in Calls : o # c => reports'[o] = reports[o]
    BY DEF Report, TypeOK
  <1>5. CASE live
    BY <1>1, <1>2, <1>4, <1>5, SlotFreed
  <1>6. CASE ~live
    BY <1>3, <1>4, <1>6 DEF TypeOK
  <1>7. QED BY <1>5, <1>6 DEF TypeOK

\* Every step keeps the types.
LEMMA OpsTypes ==
  ASSUME OpsInv, TypeOK, Next
  PROVE  TypeOK'
  <1> USE CallsAssumption DEF TypeOK, slotVars, queueVars
  <1>1. ASSUME NEW c \in Calls, Listen(c)
       PROVE  TypeOK'
    BY <1>1 DEF Listen, SetCall
  <1>2. ASSUME NEW c \in Calls, ClaimNotConnected(c)
       PROVE  TypeOK'
    BY <1>2 DEF ClaimNotConnected, SetCall
  <1>3. ASSUME NEW c \in Calls, ClaimSlot(c)
       PROVE  TypeOK'
    BY <1>3 DEF ClaimSlot, SetCall
  <1>4. ASSUME NEW c \in Calls, ClaimBusy(c)
       PROVE  TypeOK'
    BY <1>4 DEF ClaimBusy, SetCall
  <1>5. ASSUME NEW c \in Calls, Released(c)
       PROVE  TypeOK'
    BY <1>5 DEF Released, SetCall
  <1>6. ASSUME NEW c \in Calls, ClaimDiscover(c)
       PROVE  TypeOK'
    <2>1. result' \in [Calls -> Results]
      BY <1>6, ResultTypes DEF ClaimDiscover
    <2>2. QED BY <1>6, <2>1 DEF ClaimDiscover, SetCall
  <1>7. ASSUME NEW c \in Calls, KotlinRefuses(c)
       PROVE  TypeOK'
    BY <1>7 DEF KotlinRefuses, SetCall
  <1>8. ASSUME NEW c \in Calls, DiscoverCallFails(c)
       PROVE  TypeOK'
    BY <1>8 DEF DiscoverCallFails, SetCall
  <1>9. ASSUME NEW c \in Calls, RefusedReleases(c)
       PROVE  TypeOK'
    <2>1. CompleteSlot(keyOf[c], Closed) /\ keyOf[c] \in Keys
      BY <1>9 DEF RefusedReleases, ReleaseSlot
    <2>2. /\ slot' \in [Keys -> Calls \cup {None}] /\ result' \in [Calls -> Results]
          /\ heard' \subseteq Calls
      BY <2>1, SlotFreed, ResultTypes DEF TypeOK
    <2>3. QED BY <1>9, <2>2 DEF RefusedReleases, SetCall
  <1>10. ASSUME NEW c \in Calls, KotlinAccepts(c)
        PROVE  TypeOK'
    BY <1>10 DEF KotlinAccepts, SetCall
  <1>11. ASSUME NEW c \in Calls, KotlinAnswers(c)
        PROVE  TypeOK'
    <2>1. /\ reports' \in [Calls -> Nat] /\ slot' \in [Keys -> Calls \cup {None}]
          /\ result' \in [Calls -> Results] /\ heard' \subseteq Calls
      BY <1>11, ReportGiven DEF KotlinAnswers
    <2>2. QED BY <1>11, <2>1 DEF KotlinAnswers, SetCall
  <1>12. ASSUME NEW c \in Calls, Returns(c)
        PROVE  TypeOK'
    BY <1>12 DEF Returns, SetCall
  <1>13. ASSUME NEW c \in Calls, Dropped(c)
        PROVE  TypeOK'
    BY <1>13 DEF Dropped, SetCall
  <1>14. ASSUME NEW c \in Calls, Enqueue(c)
        PROVE  TypeOK'
    <2>1. Append(queue, c) \in Seq(Calls)
      OBVIOUS
    <2>2. QED BY <1>14, <2>1 DEF Enqueue
  <1>15. ASSUME NEW c \in Calls, CoroutineEnds(c)
        PROVE  TypeOK'
    <2>1. CASE Report(c, c, "failed")
      <3>1. /\ reports' \in [Calls -> Nat] /\ slot' \in [Keys -> Calls \cup {None}]
            /\ result' \in [Calls -> Results] /\ heard' \subseteq Calls
        BY <2>1, ReportGiven
      <3>2. QED BY <1>15, <3>1 DEF CoroutineEnds
    <2>2. CASE UNCHANGED <<slot, result, heard, reports>>
      BY <1>15, <2>2 DEF CoroutineEnds
    <2>3. QED BY <1>15, <2>1, <2>2 DEF CoroutineEnds
  <1>16. ASSUME NEW c \in Calls, Callback(c)
        PROVE  TypeOK'
    <2>1. /\ nonces' \in [Keys -> Calls \cup {None}]
          /\ deferred' \in [Calls -> {"none", "ok", "failed"}]
          /\ UNCHANGED <<slot, result, heard, reports>> \/ \E o \in Calls : Report(o, c, "ok")
      BY <1>16, CallsAssumption DEF Callback
    <2>2. /\ reports' \in [Calls -> Nat] /\ slot' \in [Keys -> Calls \cup {None}]
          /\ result' \in [Calls -> Results] /\ heard' \subseteq Calls
      BY <2>1, ReportGiven
    <2>3. QED BY <1>16, <2>1, <2>2 DEF Callback
  <1>17. CASE RunNext
    <2>1. Head(queue) \in Calls /\ Tail(queue) \in Seq(Calls)
      BY <1>17 DEF RunNext
    <2>2. QED BY <1>17, <2>1 DEF RunNext
  <1>18. CASE KickStarts
    BY <1>18 DEF KickStarts
  <1>19. CASE KickFails
    BY <1>19 DEF KickFails
  <1>20. CASE Awaited
    BY <1>20 DEF Awaited
  <1>21. CASE TimeoutFires
    BY <1>21 DEF TimeoutFires
  <1>22. CASE RecordTimeout
    BY <1>22 DEF RecordTimeout
  <1>23. CASE TaskEnds
    BY <1>23 DEF TaskEnds
  <1>24. CASE Connects
    BY <1>24 DEF Connects
  <1>25. CASE Disconnecting
    BY <1>25 DEF Disconnecting
  <1>26. CASE RustRetires
    <2>1. /\ slot' \in [Keys -> Calls \cup {None}] /\ result' \in [Calls -> Results]
          /\ heard' \subseteq Calls
      BY <1>26, SlotsFreed DEF RustRetires
    <2>2. QED BY <1>26, <2>1 DEF RustRetires
  <1>27. CASE KotlinRetires
    <2>1. /\ slot' \in [Keys -> Calls \cup {None}] /\ result' \in [Calls -> Results]
          /\ heard' \subseteq Calls
      BY <1>27, SlotsFreed DEF KotlinRetires
    <2>2. << >> \in Seq(Calls)
      OBVIOUS
    <2>3. QED BY <1>27, <2>1, <2>2 DEF KotlinRetires
  <1>28. QED BY <1>1, <1>2, <1>3, <1>4, <1>5, <1>6, <1>7, <1>8, <1>9, <1>10, <1>11, <1>12,
                <1>13, <1>14, <1>15, <1>16, <1>17, <1>18, <1>19, <1>20, <1>21, <1>22, <1>23,
                <1>24, <1>25, <1>26, <1>27 DEF Next, CallSteps, WorkerSteps

\* What the proofs below use of the types.
OpsFacts ==
  /\ callPc \in [Calls -> {"idle", "trying", "parked", "claimed", "refused", "waiting", "done", "dropped"}]
  /\ \A c \in Calls : keyOf[c] \in Keys
  /\ slot \in [Keys -> Calls \cup {None}] /\ nonces \in [Keys -> Calls \cup {None}]
  /\ task \in [Calls -> {"none", "launched", "queued", "finished"}]
  /\ deferred \in [Calls -> {"none", "ok", "failed"}]
  /\ reports \in [Calls -> Nat] /\ current \in Calls \cup {None}

\* The types, as the steps below use them.
LEMMA TypesGive == TypeOK => OpsFacts
  BY CallsAssumption DEF TypeOK, OpsFacts

\* What the four steps that report or release do, of what the invariants speak of.
RefusalDoes(c) ==
  /\ CompleteSlot(keyOf[c], Closed) /\ callPc[c] = "refused"
  /\ callPc' = [callPc EXCEPT ![c] = "done"] /\ keyOf[c] \in Keys
  /\ UNCHANGED <<keyOf, live, phase, nonces, task, deferred, queue, current, owed, reports>>
  /\ slot'[keyOf[c]] = None /\ \A j \in Keys : j # keyOf[c] => slot'[j] = slot[j]
  /\ \A o \in Calls : result'[o] = result[o] \/ result'[o].by = None

AnswerDoes(c) ==
  /\ Report(c, c, "ok") /\ callPc[c] = "claimed"
  /\ callPc' = [callPc EXCEPT ![c] = "waiting"] /\ keyOf[c] \in Keys
  /\ UNCHANGED <<keyOf, live, phase, nonces, task, deferred, queue, current, owed>>

EndDoes(c) ==
  /\ task[c] = "queued" /\ deferred[c] # "none" /\ task' = [task EXCEPT ![c] = "finished"]
  /\ IF phase # "retired" /\ deferred[c] = "failed" THEN Report(c, c, "failed")
     ELSE UNCHANGED <<slot, result, reports>>
  /\ keyOf[c] \in Keys
  /\ UNCHANGED <<keyOf, callPc, live, phase, nonces, deferred, queue, current, owed>>

CallbackDoes(c) ==
  /\ owed' = owed \ {c} /\ c \in owed /\ keyOf[c] \in Keys
  /\ UNCHANGED <<keyOf, callPc, live, phase, task, queue, current>>
  /\ \/ phase = "retired" /\ UNCHANGED <<nonces, deferred, slot, result, reports>>
     \/ /\ phase # "retired" /\ nonces[keyOf[c]] = c
        /\ nonces' = [nonces EXCEPT ![keyOf[c]] = None]
        /\ \/ current # c /\ UNCHANGED <<deferred, slot, result, reports>>
           \/ /\ current = c /\ Report(c, c, "ok")
              /\ deferred' = [deferred EXCEPT ![c] = IF deferred[c] = "none" THEN "ok"
                                                     ELSE deferred[c]]

\* A call Kotlin refused empties its slot, and nothing else.
LEMMA RefusedReleasesDoes ==
  ASSUME OpsInv, NEW c \in Calls, RefusedReleases(c)
  PROVE  RefusalDoes(c)
  <1> USE TypesGive DEF OpsInv
  <1>1. /\ CompleteSlot(keyOf[c], Closed) /\ callPc[c] = "refused"
        /\ callPc' = [callPc EXCEPT ![c] = "done"] /\ keyOf[c] \in Keys
        /\ UNCHANGED <<keyOf, live, phase, nonces, task, deferred, queue, current, owed, reports>>
    BY DEF RefusedReleases, ReleaseSlot, SetCall, OpsFacts, queueVars
  <1>2. QED BY <1>1, SlotFreed, ResultTypes DEF RefusalDoes

\* An unsubscribe with nothing to write is reported on the spot.
LEMMA KotlinAnswersDoes ==
  ASSUME OpsInv, NEW c \in Calls, KotlinAnswers(c)
  PROVE  AnswerDoes(c)
  BY TypesGive DEF OpsInv, KotlinAnswers, SetCall, OpsFacts, queueVars, AnswerDoes

\* The end of a coroutine reports a failure; its callback reported a success.
LEMMA CoroutineEndsDoes ==
  ASSUME OpsInv, NEW c \in Calls, CoroutineEnds(c)
  PROVE  EndDoes(c)
  BY TypesGive DEF OpsInv, CoroutineEnds, OpsFacts, slotVars, EndDoes

\* A callback that comes before the end of the attempt is that of the operation its key
\* is owed one for, and is reported unless the worker has gone on.
LEMMA CallbackDone ==
  ASSUME OpsInv, NEW c \in Calls, Callback(c)
  PROVE  CallbackDoes(c)
  <1>1. phase # "retired" => nonces[keyOf[c]] = c
    BY DEF OpsInv, NoncesOwed, Callback
  <1>2. c # None /\ keyOf[c] \in Keys
    BY CallsAssumption, TypesGive DEF OpsInv, OpsFacts
  <1>3. QED BY <1>1, <1>2 DEF Callback, CallbackDoes, slotVars

\* A slot is held under its holder's key.
LEMMA SlotKeysKept ==
  ASSUME OpsInv, Next
  PROVE  SlotKeys'
  <1> USE CallsAssumption, TypesGive DEF OpsInv, SlotKeys, slotVars, queueVars, RefusalDoes,
        AnswerDoes, EndDoes, CallbackDoes
  <1>1. ASSUME NEW c \in Calls,
             Listen(c) \/ ClaimNotConnected(c) \/ ClaimBusy(c) \/ Released(c) \/
             KotlinRefuses(c)
       PROVE  SlotKeys'
    BY <1>1 DEF Listen, ClaimNotConnected, ClaimBusy, Released, KotlinRefuses
  <1>2. ASSUME NEW c \in Calls,
             DiscoverCallFails(c) \/ KotlinAccepts(c) \/ Returns(c) \/ Dropped(c)
             \/ Enqueue(c)
       PROVE  SlotKeys'
    BY <1>2 DEF DiscoverCallFails, KotlinAccepts, Returns, Dropped, Enqueue
  <1>3. CASE RunNext \/ KickStarts \/ KickFails \/ Awaited \/ TimeoutFires \/
            RecordTimeout \/ TaskEnds \/ Connects \/ Disconnecting
    BY <1>3 DEF RunNext, KickStarts, KickFails, Awaited, TimeoutFires, RecordTimeout,
       TaskEnds, Connects, Disconnecting
  <1>4. ASSUME NEW c \in Calls, ClaimSlot(c)
       PROVE  SlotKeys'
    BY <1>4 DEF ClaimSlot, SetCall, OpsFacts
  <1>5. ASSUME NEW c \in Calls, ClaimDiscover(c)
       PROVE  SlotKeys'
    BY <1>5 DEF ClaimDiscover, SetCall, Busy, OpsFacts
  <1>6. ASSUME NEW c \in Calls, RefusedReleases(c)
       PROVE  SlotKeys'
    <2>1. RefusalDoes(c)
      BY <1>6, RefusedReleasesDoes
    <2>2. QED BY <2>1 DEF OpsFacts
  <1>7. ASSUME NEW c \in Calls, KotlinAnswers(c)
       PROVE  SlotKeys'
    <2>1. AnswerDoes(c)
      BY <1>7, KotlinAnswersDoes
    <2>2. QED BY <2>1, ReportGiven DEF OpsFacts
  <1>8. ASSUME NEW c \in Calls, CoroutineEnds(c)
       PROVE  SlotKeys'
    <2>1. EndDoes(c)
      BY <1>8, CoroutineEndsDoes
    <2>2. QED BY <2>1, ReportGiven DEF OpsFacts
  <1>9. ASSUME NEW c \in Calls, Callback(c)
       PROVE  SlotKeys'
    <2>1. CallbackDoes(c)
      BY <1>9, CallbackDone
    <2>2. QED BY <2>1, ReportGiven DEF OpsFacts
  <1>10. CASE RustRetires
    <2>1. live' = FALSE /\ \A k \in Keys : slot'[k] = None
      BY <1>10, SlotsFreed DEF RustRetires
    <2>2. QED BY <2>1
  <1>11. CASE KotlinRetires
    <2>1. live' = FALSE /\ \A k \in Keys : slot'[k] = None
      BY <1>11, SlotsFreed DEF KotlinRetires, RetiredIsClean
    <2>2. QED BY <2>1
  <1>12. QED BY <1>1, <1>2, <1>3, <1>4, <1>5, <1>6, <1>7, <1>8, <1>9, <1>10, <1>11 DEF Next,
                CallSteps, WorkerSteps

\* Rust lets go of the attempt no later than Kotlin, with every slot.
LEMMA RetiredKept ==
  ASSUME OpsInv, Next
  PROVE  RustFirst' /\ RetiredIsClean'
  <1> USE CallsAssumption, TypesGive DEF OpsInv, RustFirst, RetiredIsClean, slotVars,
        queueVars, RefusalDoes, AnswerDoes, EndDoes, CallbackDoes
  <1>1. ASSUME NEW c \in Calls,
             Listen(c) \/ ClaimNotConnected(c) \/ ClaimBusy(c) \/ Released(c) \/
             KotlinRefuses(c)
       PROVE  RustFirst' /\ RetiredIsClean'
    BY <1>1 DEF Listen, ClaimNotConnected, ClaimBusy, Released, KotlinRefuses
  <1>2. ASSUME NEW c \in Calls,
             DiscoverCallFails(c) \/ KotlinAccepts(c) \/ Returns(c) \/ Dropped(c)
             \/ Enqueue(c)
       PROVE  RustFirst' /\ RetiredIsClean'
    BY <1>2 DEF DiscoverCallFails, KotlinAccepts, Returns, Dropped, Enqueue
  <1>3. CASE RunNext \/ KickStarts \/ KickFails \/ Awaited \/ TimeoutFires \/
            RecordTimeout \/ TaskEnds \/ Connects \/ Disconnecting
    BY <1>3 DEF RunNext, KickStarts, KickFails, Awaited, TimeoutFires, RecordTimeout,
       TaskEnds, Connects, Disconnecting
  <1>4. ASSUME NEW c \in Calls, ClaimSlot(c)
       PROVE  RustFirst' /\ RetiredIsClean'
    BY <1>4 DEF ClaimSlot, SetCall, OpsFacts
  <1>5. ASSUME NEW c \in Calls, ClaimDiscover(c)
       PROVE  RustFirst' /\ RetiredIsClean'
    BY <1>5 DEF ClaimDiscover, SetCall, Busy, OpsFacts
  <1>6. ASSUME NEW c \in Calls, RefusedReleases(c)
       PROVE  RustFirst' /\ RetiredIsClean'
    <2>1. RefusalDoes(c)
      BY <1>6, RefusedReleasesDoes
    <2>2. QED BY <2>1 DEF OpsFacts
  <1>7. ASSUME NEW c \in Calls, KotlinAnswers(c)
       PROVE  RustFirst' /\ RetiredIsClean'
    <2>1. AnswerDoes(c)
      BY <1>7, KotlinAnswersDoes
    <2>2. QED BY <2>1, ReportGiven DEF OpsFacts
  <1>8. ASSUME NEW c \in Calls, CoroutineEnds(c)
       PROVE  RustFirst' /\ RetiredIsClean'
    <2>1. EndDoes(c)
      BY <1>8, CoroutineEndsDoes
    <2>2. QED BY <2>1, ReportGiven DEF OpsFacts
  <1>9. ASSUME NEW c \in Calls, Callback(c)
       PROVE  RustFirst' /\ RetiredIsClean'
    <2>1. CallbackDoes(c)
      BY <1>9, CallbackDone
    <2>2. QED BY <2>1, ReportGiven DEF OpsFacts
  <1>10. CASE RustRetires
    <2>1. live' = FALSE /\ \A k \in Keys : slot'[k] = None
      BY <1>10, SlotsFreed DEF RustRetires
    <2>2. QED BY <1>10, <2>1 DEF RustRetires
  <1>11. CASE KotlinRetires
    <2>1. live' = FALSE /\ \A k \in Keys : slot'[k] = None
      BY <1>11, SlotsFreed DEF KotlinRetires, RetiredIsClean
    <2>2. QED BY <2>1
  <1>12. QED BY <1>1, <1>2, <1>3, <1>4, <1>5, <1>6, <1>7, <1>8, <1>9, <1>10, <1>11 DEF Next,
                CallSteps, WorkerSteps

\* The operation a key is owed a callback for is the last started under it.
LEMMA NoncesOwedKept ==
  ASSUME OpsInv, Next
  PROVE  NoncesOwed'
  <1> USE CallsAssumption, TypesGive DEF OpsInv, NoncesOwed, slotVars, queueVars,
        RefusalDoes, AnswerDoes, EndDoes, CallbackDoes
  <1>1. ASSUME NEW c \in Calls,
             Listen(c) \/ ClaimNotConnected(c) \/ ClaimSlot(c) \/ ClaimBusy(c) \/
             Released(c) \/ ClaimDiscover(c) \/ KotlinRefuses(c)
       PROVE  NoncesOwed'
    BY <1>1 DEF Listen, ClaimNotConnected, ClaimSlot, ClaimBusy, Released, ClaimDiscover,
       KotlinRefuses
  <1>2. ASSUME NEW c \in Calls,
             DiscoverCallFails(c) \/ RefusedReleases(c) \/ KotlinAccepts(c) \/
             KotlinAnswers(c) \/ Returns(c) \/ Dropped(c) \/ CoroutineEnds(c)
       PROVE  NoncesOwed'
    BY <1>2 DEF DiscoverCallFails, RefusedReleases, KotlinAccepts, KotlinAnswers, Returns,
       Dropped, CoroutineEnds
  <1>3. CASE RunNext \/ KickFails \/ Awaited \/ TimeoutFires \/ RecordTimeout \/
            TaskEnds \/ RustRetires
    BY <1>3 DEF RunNext, KickFails, Awaited, TimeoutFires, RecordTimeout, TaskEnds,
       RustRetires
  <1>4. ASSUME NEW c \in Calls, Enqueue(c)
       PROVE  NoncesOwed'
    BY <1>4 DEF Enqueue, OpsFacts
  <1>5. ASSUME NEW c \in Calls, Callback(c)
       PROVE  NoncesOwed'
    <2>1. CallbackDoes(c)
      BY <1>5, CallbackDone
    <2>2. CASE phase = "retired"
      BY <2>1, <2>2
    <2>3. CASE phase # "retired"
      <3>1. /\ nonces[keyOf[c]] = c /\ nonces'[keyOf[c]] = None
            /\ \A k \in Keys : k # keyOf[c] => nonces'[k] = nonces[k]
        BY <2>1, <2>3 DEF OpsFacts
      <3>2. \A o \in owed : o # c => keyOf[o] # keyOf[c] /\ keyOf[o] \in Keys
        BY <2>3, <3>1 DEF OpsFacts, TypeOK
      <3>3. QED BY <2>1, <2>3, <3>1, <3>2
    <2>4. QED BY <2>2, <2>3
  <1>6. CASE KickStarts
    <2>1. /\ current \in Calls /\ keyOf[current] \in Keys /\ nonces[keyOf[current]] = None
          /\ nonces'[keyOf[current]] = current /\ owed' = owed \cup {current}
          /\ \A k \in Keys : k # keyOf[current] => nonces'[k] = nonces[k]
          /\ phase = "connected" /\ UNCHANGED <<phase, keyOf>>
      BY <1>6 DEF KickStarts, TypeOK, OpsFacts
    <2>2. \A o \in owed : keyOf[o] # keyOf[current] /\ keyOf[o] \in Keys /\ o \in Calls
      BY <2>1 DEF OpsFacts, TypeOK
    <2>3. QED BY <2>1, <2>2
  <1>7. CASE Connects
    BY <1>7 DEF Connects, OpsFacts
  <1>8. CASE Disconnecting
    BY <1>8 DEF Disconnecting, OpsFacts
  <1>9. CASE KotlinRetires
    BY <1>9 DEF KotlinRetires, ReleaseAll, Closed, NotifyWaiters, OpsFacts
  <1>10. QED BY <1>1, <1>2, <1>3, <1>4, <1>5, <1>6, <1>7, <1>8, <1>9 DEF Next, CallSteps,
                WorkerSteps

\* What is finished was reported.
LEMMA FinishedKept ==
  ASSUME OpsInv, Next
  PROVE  Finished'
  <1> USE CallsAssumption, TypesGive DEF OpsInv, Finished, slotVars, queueVars, RefusalDoes,
        AnswerDoes, EndDoes, CallbackDoes
  <1>1. ASSUME NEW c \in Calls,
             Listen(c) \/ ClaimNotConnected(c) \/ ClaimSlot(c) \/ ClaimBusy(c) \/
             Released(c)
       PROVE  Finished'
    BY <1>1 DEF Listen, ClaimNotConnected, ClaimSlot, ClaimBusy, Released
  <1>2. ASSUME NEW c \in Calls,
             ClaimDiscover(c) \/ KotlinRefuses(c) \/ DiscoverCallFails(c) \/
             Returns(c) \/ Dropped(c)
       PROVE  Finished'
    BY <1>2 DEF ClaimDiscover, KotlinRefuses, DiscoverCallFails, Returns, Dropped
  <1>3. CASE RunNext \/ KickStarts \/ Awaited \/ TimeoutFires \/ TaskEnds \/
            RustRetires
    BY <1>3 DEF RunNext, KickStarts, Awaited, TimeoutFires, TaskEnds, RustRetires
  <1>4. ASSUME NEW c \in Calls, RefusedReleases(c)
       PROVE  Finished'
    <2>1. RefusalDoes(c)
      BY <1>4, RefusedReleasesDoes
    <2>2. QED BY <2>1 DEF OpsFacts
  <1>5. ASSUME NEW c \in Calls, KotlinAccepts(c)
       PROVE  Finished'
    BY <1>5 DEF KotlinAccepts, SetCall, OpsFacts
  <1>6. ASSUME NEW c \in Calls, KotlinAnswers(c)
       PROVE  Finished'
    <2>1. AnswerDoes(c)
      BY <1>6, KotlinAnswersDoes
    <2>2. QED BY <2>1, ReportGiven DEF OpsFacts
  <1>7. ASSUME NEW c \in Calls, Enqueue(c)
       PROVE  Finished'
    BY <1>7 DEF Enqueue, OpsFacts
  <1>8. ASSUME NEW c \in Calls, CoroutineEnds(c)
       PROVE  Finished'
    <2>1. EndDoes(c)
      BY <1>8, CoroutineEndsDoes
    <2>2. \A o \in Calls : reports'[o] >= reports[o]
      BY <2>1, ReportGiven DEF OpsFacts
    <2>3. \A o \in Calls : reports[o] \in Nat /\ reports'[o] \in Nat
      BY <2>1, ReportGiven DEF OpsFacts
    <2>4. phase # "retired" => reports'[c] >= 1
      BY <2>1, <2>3, ReportGiven DEF OpsFacts
    <2>5. \A o \in Calls : o # c => task'[o] = task[o]
      BY <2>1 DEF OpsFacts
    <2>6. QED BY <2>1, <2>2, <2>3, <2>4, <2>5
  <1>9. ASSUME NEW c \in Calls, Callback(c)
       PROVE  Finished'
    <2>1. CallbackDoes(c)
      BY <1>9, CallbackDone
    <2>2. \A o \in Calls : reports'[o] \in Nat /\ reports'[o] >= reports[o]
      BY <2>1, ReportGiven DEF OpsFacts
    <2>3. \A o \in Calls : o # c => deferred'[o] = deferred[o]
      BY <2>1 DEF OpsFacts
    <2>4. deferred'[c] = deferred[c] \/ reports'[c] = reports[c] + 1
      BY <2>1, ReportGiven DEF OpsFacts
    <2>5. reports[c] \in Nat /\ \A o \in Calls : reports[o] \in Nat
      BY <2>1 DEF OpsFacts, TypeOK
    <2>6. \A o \in Calls : deferred'[o] = "ok" => reports'[o] >= 1
      BY <2>2, <2>3, <2>4, <2>5
    <2>7. QED BY <2>1, <2>2, <2>5, <2>6
  <1>10. CASE KickFails
    BY <1>10 DEF KickFails, OpsFacts
  <1>11. CASE RecordTimeout
    BY <1>11 DEF RecordTimeout, OpsFacts
  <1>12. CASE Connects
    BY <1>12 DEF Connects, OpsFacts
  <1>13. CASE Disconnecting
    BY <1>13 DEF Disconnecting, OpsFacts
  <1>14. CASE KotlinRetires
    BY <1>14 DEF KotlinRetires, ReleaseAll, Closed, NotifyWaiters, OpsFacts
  <1>15. QED BY <1>1, <1>2, <1>3, <1>4, <1>5, <1>6, <1>7, <1>8, <1>9, <1>10, <1>11, <1>12,
                <1>13, <1>14 DEF Next, CallSteps, WorkerSteps

\* What is queued has been accepted, and what is not accepted has no outcome.
LEMMA TasksKept ==
  ASSUME OpsInv, Next
  PROVE  Tasks'
  <1> USE CallsAssumption, TypesGive DEF OpsInv, Tasks, slotVars, queueVars, RefusalDoes,
        AnswerDoes, EndDoes, CallbackDoes
  <1>1. CASE KickStarts \/ Awaited \/ TimeoutFires \/ Connects \/ Disconnecting \/
            RustRetires
    BY <1>1 DEF KickStarts, Awaited, TimeoutFires, Connects, Disconnecting, RustRetires,
       BeforeAccepted
  <1>2. ASSUME NEW c \in Calls, Listen(c)
       PROVE  Tasks'
    BY <1>2 DEF Listen, SetCall, BeforeAccepted, OpsFacts
  <1>3. ASSUME NEW c \in Calls, ClaimNotConnected(c)
       PROVE  Tasks'
    BY <1>3 DEF ClaimNotConnected, SetCall, BeforeAccepted, OpsFacts
  <1>4. ASSUME NEW c \in Calls, ClaimSlot(c)
       PROVE  Tasks'
    BY <1>4 DEF ClaimSlot, SetCall, BeforeAccepted, OpsFacts
  <1>5. ASSUME NEW c \in Calls, ClaimBusy(c)
       PROVE  Tasks'
    BY <1>5 DEF ClaimBusy, SetCall, BeforeAccepted, OpsFacts
  <1>6. ASSUME NEW c \in Calls, Released(c)
       PROVE  Tasks'
    BY <1>6 DEF Released, SetCall, BeforeAccepted, OpsFacts
  <1>7. ASSUME NEW c \in Calls, ClaimDiscover(c)
       PROVE  Tasks'
    BY <1>7 DEF ClaimDiscover, SetCall, Busy, BeforeAccepted, OpsFacts
  <1>8. ASSUME NEW c \in Calls, KotlinRefuses(c)
       PROVE  Tasks'
    BY <1>8 DEF KotlinRefuses, SetCall, BeforeAccepted, OpsFacts
  <1>9. ASSUME NEW c \in Calls, DiscoverCallFails(c)
       PROVE  Tasks'
    BY <1>9 DEF DiscoverCallFails, SetCall, BeforeAccepted, OpsFacts
  <1>10. ASSUME NEW c \in Calls, RefusedReleases(c)
        PROVE  Tasks'
    <2>1. RefusalDoes(c)
      BY <1>10, RefusedReleasesDoes
    <2>2. QED BY <2>1 DEF OpsFacts, BeforeAccepted
  <1>11. ASSUME NEW c \in Calls, KotlinAccepts(c)
        PROVE  Tasks'
    <2>1. queue \in Seq(Calls) /\ \A i \in 1..Len(queue) : queue[i] \in Calls
      BY DEF TypeOK
    <2>2. QED BY <1>11, <2>1 DEF KotlinAccepts, SetCall, BeforeAccepted, OpsFacts
  <1>12. ASSUME NEW c \in Calls, KotlinAnswers(c)
        PROVE  Tasks'
    <2>1. AnswerDoes(c)
      BY <1>12, KotlinAnswersDoes
    <2>2. QED BY <2>1, ReportGiven DEF OpsFacts, BeforeAccepted
  <1>13. ASSUME NEW c \in Calls, Returns(c)
        PROVE  Tasks'
    BY <1>13 DEF Returns, SetCall, BeforeAccepted, OpsFacts
  <1>14. ASSUME NEW c \in Calls, Dropped(c)
        PROVE  Tasks'
    BY <1>14 DEF Dropped, SetCall, BeforeAccepted, OpsFacts
  <1>15. ASSUME NEW c \in Calls, Enqueue(c)
        PROVE  Tasks'
    <2>1. queue \in Seq(Calls) /\ \A i \in 1..Len(queue) : queue[i] \in Calls
      BY DEF TypeOK
    <2>2. \A i \in 1..Len(queue') : (i \in 1..Len(queue) /\ queue'[i] = queue[i]) \/ queue'[i] = c
      <3>1. queue' = queue \/ queue' = Append(queue, c)
        BY <1>15 DEF Enqueue
      <3>2. QED BY <2>1, <3>1
    <2>3. /\ task'[c] \in {"queued", "finished"} /\ task[c] = "launched"
          /\ \A o \in Calls : o # c => task'[o] = task[o]
          /\ UNCHANGED <<callPc, deferred, current, reports>>
      BY <1>15 DEF Enqueue, OpsFacts
    <2>4. \A i \in 1..Len(queue') : task'[queue'[i]] \in {"queued", "finished"}
      BY <2>1, <2>2, <2>3
    <2>5. current # None => task'[current] \in {"queued", "finished"}
      BY <2>3 DEF OpsFacts
    <2>6. \A o \in Calls : task'[o] \in {"none", "launched"} => deferred[o] = "none"
      BY <2>3
    <2>7. \A o \in Calls : BeforeAccepted(o) => task'[o] = "none" /\ reports[o] = 0
      BY <2>3 DEF OpsFacts
    <2>8. QED BY <2>3, <2>4, <2>5, <2>6, <2>7 DEF BeforeAccepted
  <1>16. ASSUME NEW c \in Calls, CoroutineEnds(c)
        PROVE  Tasks'
    <2>1. EndDoes(c)
      BY <1>16, CoroutineEndsDoes
    <2>2. \A i \in 1..Len(queue) : queue[i] \in Calls
      BY DEF TypeOK
    <2>3. QED BY <2>1, <2>2, ReportGiven DEF OpsFacts, BeforeAccepted
  <1>17. ASSUME NEW c \in Calls, Callback(c)
        PROVE  Tasks'
    <2>1. CallbackDoes(c)
      BY <1>17, CallbackDone
    <2>2. current = c => task[c] \in {"queued", "finished"} /\ ~BeforeAccepted(c)
      BY <2>1 DEF OpsFacts
    <2>3. QED BY <2>1, <2>2, ReportGiven DEF OpsFacts, BeforeAccepted
  <1>18. CASE RunNext
    <2>1. queue \in Seq(Calls) /\ queue # << >>
      BY <1>18 DEF TypeOK, RunNext
    <2>2. /\ 1 \in 1..Len(queue) /\ Head(queue) = queue[1] /\ Head(queue) \in Calls
          /\ \A i \in 1..Len(Tail(queue)) : i + 1 \in 1..Len(queue) /\ Tail(queue)[i] = queue[i + 1]
      BY <2>1
    <2>3. QED BY <1>18, <2>2 DEF RunNext, BeforeAccepted
  <1>19. CASE KickFails
    <2>1. current \in Calls
      BY <1>19 DEF TypeOK, KickFails
    <2>2. QED BY <1>19, <2>1 DEF KickFails, BeforeAccepted, OpsFacts
  <1>20. CASE RecordTimeout
    <2>1. current \in Calls
      BY <1>20 DEF TypeOK, RecordTimeout
    <2>2. QED BY <1>20, <2>1 DEF RecordTimeout, BeforeAccepted, OpsFacts
  <1>21. CASE TaskEnds
    BY <1>21 DEF TaskEnds, BeforeAccepted, OpsFacts
  <1>22. CASE KotlinRetires
    <2>1. Len(queue') = 0 /\ current' = None /\ UNCHANGED <<callPc, task, reports>>
      BY <1>22 DEF KotlinRetires
    <2>2. \A o \in Calls : task[o] # "queued" => deferred'[o] = deferred[o]
      BY <1>22 DEF KotlinRetires
    <2>3. QED BY <2>1, <2>2 DEF BeforeAccepted, OpsFacts
  <1>23. QED BY <1>1, <1>2, <1>3, <1>4, <1>5, <1>6, <1>7, <1>8, <1>9, <1>10, <1>11, <1>12,
                <1>13, <1>14, <1>15, <1>16, <1>17, <1>18, <1>19, <1>20, <1>21, <1>22 DEF
                Next, CallSteps, WorkerSteps

\* A slot is freed, or its holder still owed a report.
LEMMA SlotIsOwedKept ==
  ASSUME OpsInv, Next
  PROVE  SlotIsOwed'
  <1> USE CallsAssumption, TypesGive DEF OpsInv, SlotIsOwed, slotVars, queueVars,
        RefusalDoes, AnswerDoes, EndDoes, CallbackDoes
  <1>1. ASSUME NEW c \in Calls,
             ClaimBusy(c) \/ Released(c) \/ Returns(c) \/ Dropped(c)
       PROVE  SlotIsOwed'
    BY <1>1 DEF ClaimBusy, Released, Returns, Dropped, SetCall, OpsFacts, Owes
  <1>2. CASE RunNext \/ KickStarts \/ Awaited \/ TimeoutFires \/ TaskEnds \/
            Connects \/ Disconnecting
    BY <1>2 DEF RunNext, KickStarts, Awaited, TimeoutFires, TaskEnds, Connects,
       Disconnecting, SetCall, OpsFacts, Owes
  <1>3. ASSUME NEW c \in Calls, Listen(c)
       PROVE  SlotIsOwed'
    BY <1>3 DEF Listen, SetCall, OpsFacts, SetCall, Owes
  <1>4. ASSUME NEW c \in Calls, ClaimNotConnected(c)
       PROVE  SlotIsOwed'
    BY <1>4 DEF ClaimNotConnected, RetiredIsClean, OpsFacts, SetCall, Owes
  <1>5. ASSUME NEW c \in Calls, ClaimSlot(c)
       PROVE  SlotIsOwed'
    BY <1>5 DEF ClaimSlot, SetCall, OpsFacts, SetCall, Owes
  <1>6. ASSUME NEW c \in Calls, ClaimDiscover(c)
       PROVE  SlotIsOwed'
    BY <1>6 DEF ClaimDiscover, SetCall, Busy, OpsFacts, SetCall, Owes
  <1>7. ASSUME NEW c \in Calls, KotlinRefuses(c)
       PROVE  SlotIsOwed'
    BY <1>7 DEF KotlinRefuses, SetCall, OpsFacts, SetCall, Owes
  <1>8. ASSUME NEW c \in Calls, DiscoverCallFails(c)
       PROVE  SlotIsOwed'
    BY <1>8 DEF DiscoverCallFails, SlotKeys, OpsFacts, SetCall, Owes
  <1>9. ASSUME NEW c \in Calls, RefusedReleases(c)
       PROVE  SlotIsOwed'
    <2>1. RefusalDoes(c)
      BY <1>9, RefusedReleasesDoes
    <2>2. \A k \in Keys : slot'[k] # None => slot'[k] \in Calls /\ slot'[k] # c
      BY <2>1 DEF OpsFacts, SlotKeys
    <2>3. QED BY <2>1, <2>2 DEF OpsFacts, Owes
  <1>10. ASSUME NEW c \in Calls, KotlinAccepts(c)
        PROVE  SlotIsOwed'
    BY <1>10 DEF KotlinAccepts, SetCall, OpsFacts, SetCall, Owes
  <1>11. ASSUME NEW c \in Calls, KotlinAnswers(c)
        PROVE  SlotIsOwed'
    <2>1. AnswerDoes(c)
      BY <1>11, KotlinAnswersDoes
    <2>2. \A k \in Keys : slot'[k] # None => slot'[k] \in Calls /\ slot'[k] = slot[k] /\ slot'[k] # c
      BY <2>1, ReportGiven DEF OpsFacts, SlotKeys, RetiredIsClean
    <2>3. QED BY <2>1, <2>2 DEF OpsFacts, Owes
  <1>12. ASSUME NEW c \in Calls, Enqueue(c)
        PROVE  SlotIsOwed'
    <2>1. CASE phase = "retired"
      <3>1. \A k \in Keys : slot'[k] = None
        BY <1>12, <2>1 DEF Enqueue, RustFirst, RetiredIsClean
      <3>2. QED BY <3>1
    <2>2. CASE phase # "retired"
      <3>1. /\ UNCHANGED <<callPc, slot, deferred>> /\ task[c] = "launched"
            /\ task' = [task EXCEPT ![c] = "queued"]
            /\ deferred[c] = "none"
        BY <1>12, <2>2 DEF Enqueue, Tasks
      <3>2. QED BY <3>1 DEF OpsFacts, Owes
    <2>3. QED BY <2>1, <2>2
  <1>13. ASSUME NEW c \in Calls, CoroutineEnds(c)
        PROVE  SlotIsOwed'
    <2>1. EndDoes(c)
      BY <1>13, CoroutineEndsDoes
    <2>2. \A k \in Keys \ {Services} : slot[k] # None /\ slot[k] = c => deferred[c] = "failed" /\ k = keyOf[c]
      BY <2>1 DEF OpsFacts, Owes, SlotKeys, Tasks, BeforeAccepted
    <2>3. \A k \in Keys \ {Services} : slot'[k] # None => slot'[k] \in Calls /\ slot'[k] = slot[k] /\ slot'[k] # c
      BY <2>1, <2>2, ReportGiven DEF OpsFacts, RustFirst, RetiredIsClean
    <2>4. QED BY <2>1, <2>3 DEF OpsFacts, Owes
  <1>14. ASSUME NEW c \in Calls, Callback(c)
        PROVE  SlotIsOwed'
    <2>1. CallbackDoes(c)
      BY <1>14, CallbackDone
    <2>2. CASE UNCHANGED <<deferred, slot>>
      BY <2>1, <2>2 DEF Owes, OpsFacts
    <2>3. CASE Report(c, c, "ok")
      <3>1. \A k \in Keys : slot'[k] # None => slot'[k] \in Calls /\ slot'[k] = slot[k] /\ slot'[k] # c
        BY <2>1, <2>3, ReportGiven DEF OpsFacts, SlotKeys, RetiredIsClean
      <3>2. \A o \in Calls : o # c => deferred'[o] = deferred[o]
        BY <2>1 DEF OpsFacts
      <3>3. QED BY <2>1, <3>1, <3>2 DEF Owes, OpsFacts
    <2>4. QED BY <2>1, <2>2, <2>3
  <1>15. CASE KickFails
    <2>1. current \in Calls
      BY <1>15 DEF TypeOK, KickFails
    <2>2. UNCHANGED <<callPc, slot, task>> /\ \A o \in Calls : deferred[o] # "ok" => deferred'[o] # "ok"
      BY <1>15, <2>1 DEF KickFails, OpsFacts
    <2>3. QED BY <2>2 DEF Owes, OpsFacts
  <1>16. CASE RecordTimeout
    <2>1. current \in Calls
      BY <1>16 DEF TypeOK, RecordTimeout
    <2>2. UNCHANGED <<callPc, slot, task>> /\ \A o \in Calls : deferred[o] # "ok" => deferred'[o] # "ok"
      BY <1>16, <2>1 DEF RecordTimeout, OpsFacts
    <2>3. QED BY <2>2 DEF Owes, OpsFacts
  <1>17. CASE RustRetires
    <2>1. live' = FALSE /\ \A k \in Keys : slot'[k] = None
      BY <1>17, SlotsFreed DEF RustRetires
    <2>2. QED BY <2>1
  <1>18. CASE KotlinRetires
    <2>1. live' = FALSE /\ \A k \in Keys : slot'[k] = None
      BY <1>18, SlotsFreed DEF KotlinRetires, RetiredIsClean
    <2>2. QED BY <2>1
  <1>19. QED BY <1>1, <1>2, <1>3, <1>4, <1>5, <1>6, <1>7, <1>8, <1>9, <1>10, <1>11, <1>12,
                <1>13, <1>14, <1>15, <1>16, <1>17, <1>18 DEF Next, CallSteps, WorkerSteps

\* The call a report is of holds the slot of its key, if anyone does that waits for it.
LEMMA ReportIsOwn ==
  ASSUME OpsInv, NEW c \in Calls, NEW how \in {"ok", "failed"}, Report(c, c, how), Waits(c),
         NEW o \in Calls, ReportedOnce'
  PROVE  /\ ReportedOnce /\ reports[c] = 0
         /\ o \in OpCalls => result'[o] = result[o] \/ result'[o].by \in {None, o}
         /\ o \in OpCalls /\ live /\ o # c /\ slot[keyOf[o]] = o => slot'[keyOf[o]] = o
  <1> USE CallsAssumption, TypesGive DEF OpsInv
  <1>1. /\ keyOf[c] \in Keys /\ keyOf[o] \in Keys /\ \A d \in Calls : reports[d] \in Nat
        /\ slot[keyOf[c]] \in Calls \cup {None}
    BY DEF OpsFacts
  <1>2. ReportedOnce /\ reports[c] = 0
    <2>1. \A d \in Calls : reports'[d] >= reports[d] /\ reports'[d] \in Nat
      <3>1. /\ reports' \in [Calls -> Nat] /\ reports'[c] = reports[c] + 1
            /\ \A d \in Calls : d # c => reports'[d] = reports[d]
        BY ReportGiven
      <3>2. QED BY <1>1, <3>1
    <2>2. ReportedOnce
      BY <1>1, <2>1 DEF ReportedOnce
    <2>3. reports[c] + 1 <= 1
      BY ReportGiven DEF ReportedOnce
    <2>4. QED BY <1>1, <2>2, <2>3
  <1>3. ASSUME live, o \in OpCalls, slot[keyOf[c]] = o
        PROVE  o = c
    <2>1. keyOf[o] = keyOf[c]
      BY <1>1, <1>3 DEF SlotKeys
    <2>2. c \in OpCalls
      BY <1>3, <2>1 DEF OpCalls
    <2>3. QED BY <1>2, <1>3, <2>2 DEF OwnSlots
  <1>4. o \in OpCalls => result'[o] = result[o] \/ result'[o].by \in {None, o}
    BY <1>3, ReportGiven
  <1>5. o \in OpCalls /\ live /\ o # c /\ slot[keyOf[o]] = o => slot'[keyOf[o]] = o
    BY <1>1, <1>3, ReportGiven
  <1>6. QED BY <1>2, <1>4, <1>5

\* Whoever waits holds its slot until it is reported, and hears its own report.
LEMMA OwnSlotsKept ==
  ASSUME OpsInv, Next
  PROVE  OwnSlots'
  <1> USE CallsAssumption, TypesGive DEF OpsInv, OwnSlots, slotVars, queueVars, RefusalDoes,
        AnswerDoes, EndDoes, CallbackDoes
  <1>1. CASE RunNext \/ KickStarts \/ Awaited \/ TimeoutFires \/ TaskEnds \/
            Connects \/ Disconnecting
    BY <1>1 DEF RunNext, KickStarts, Awaited, TimeoutFires, TaskEnds, Connects,
       Disconnecting, Waits, Owes, OpCalls, ReportedOnce
  <1>2. ASSUME NEW c \in Calls, Listen(c)
       PROVE  OwnSlots'
    <2>1. /\ UNCHANGED <<keyOf, slot, result, live, reports, deferred>>
          /\ OpCalls' = OpCalls
          /\ OpCalls \subseteq Calls /\ (ReportedOnce' => ReportedOnce)
      BY <1>2 DEF Listen, OpCalls, ReportedOnce
    <2>2. \A o \in Calls : Waits(o)' => Waits(o)
      BY <1>2 DEF Listen, SetCall, Waits, Owes, OpsFacts
    <2>3. QED BY <2>1, <2>2
  <1>3. ASSUME NEW c \in Calls, ClaimNotConnected(c)
       PROVE  OwnSlots'
    <2>1. /\ UNCHANGED <<keyOf, slot, result, live, reports, deferred>>
          /\ OpCalls' = OpCalls
          /\ OpCalls \subseteq Calls /\ (ReportedOnce' => ReportedOnce)
      BY <1>3 DEF ClaimNotConnected, OpCalls, ReportedOnce
    <2>2. \A o \in Calls : Waits(o)' => Waits(o)
      BY <1>3 DEF ClaimNotConnected, SetCall, Waits, Owes, OpsFacts
    <2>3. QED BY <2>1, <2>2
  <1>4. ASSUME NEW c \in Calls, ClaimSlot(c)
       PROVE  OwnSlots'
    <2>1. /\ UNCHANGED <<keyOf, result, live, reports, task, deferred>> /\ live
          /\ slot[keyOf[c]] = None
          /\ slot' = [slot EXCEPT ![keyOf[c]] = c]
          /\ callPc' = [callPc EXCEPT ![c] = "claimed"]
      BY <1>4 DEF ClaimSlot, SetCall
    <2>2. OpCalls' = OpCalls /\ OpCalls \subseteq Calls /\ (ReportedOnce' => ReportedOnce)
      BY <2>1 DEF OpCalls, ReportedOnce
    <2>3. \A o \in Calls : o # c /\ Waits(o)' => Waits(o)
      BY <2>1 DEF Waits, Owes, OpsFacts
    <2>4. \A o \in Calls : slot[keyOf[o]] = o => slot'[keyOf[o]] = o
      BY <2>1 DEF OpsFacts
    <2>5. slot'[keyOf[c]] = c
      BY <2>1 DEF OpsFacts
    <2>6. QED BY <2>1, <2>2, <2>3, <2>4, <2>5
  <1>5. ASSUME NEW c \in Calls, ClaimBusy(c)
       PROVE  OwnSlots'
    <2>1. /\ UNCHANGED <<keyOf, slot, result, live, reports, deferred>>
          /\ OpCalls' = OpCalls
          /\ OpCalls \subseteq Calls /\ (ReportedOnce' => ReportedOnce)
      BY <1>5 DEF ClaimBusy, OpCalls, ReportedOnce
    <2>2. \A o \in Calls : Waits(o)' => Waits(o)
      BY <1>5 DEF ClaimBusy, SetCall, Waits, Owes, OpsFacts
    <2>3. QED BY <2>1, <2>2
  <1>6. ASSUME NEW c \in Calls, Released(c)
       PROVE  OwnSlots'
    <2>1. /\ UNCHANGED <<keyOf, slot, result, live, reports, deferred>>
          /\ OpCalls' = OpCalls
          /\ OpCalls \subseteq Calls /\ (ReportedOnce' => ReportedOnce)
      BY <1>6 DEF Released, OpCalls, ReportedOnce
    <2>2. \A o \in Calls : Waits(o)' => Waits(o)
      BY <1>6 DEF Released, SetCall, Waits, Owes, OpsFacts
    <2>3. QED BY <2>1, <2>2
  <1>7. ASSUME NEW c \in Calls, ClaimDiscover(c)
       PROVE  OwnSlots'
    <2>1. /\ UNCHANGED <<keyOf, live, reports, task, deferred>> /\ keyOf[c] = Services
          /\ slot' = [slot EXCEPT ![Services] = c]
          /\ callPc' = [callPc EXCEPT ![c] = "claimed"]
          /\ \A o \in Calls : result'[o] = result[o] \/ result'[o].by = None
      <3>1. \A o \in Calls : result'[o] = result[o] \/ result'[o] = Busy
        BY <1>7 DEF ClaimDiscover, TypeOK
      <3>2. QED BY <1>7, <3>1, ResultTypes DEF ClaimDiscover, SetCall
    <2>2. OpCalls' = OpCalls /\ OpCalls \subseteq Calls /\ (ReportedOnce' => ReportedOnce) /\ c \notin OpCalls
      BY <2>1 DEF OpCalls, ReportedOnce
    <2>3. \A o \in OpCalls : (Waits(o)' => Waits(o)) /\ slot'[keyOf[o]] = slot[keyOf[o]]
      BY <2>1, <2>2 DEF Waits, Owes, OpsFacts, OpCalls
    <2>4. QED BY <2>1, <2>2, <2>3
  <1>8. ASSUME NEW c \in Calls, KotlinRefuses(c)
       PROVE  OwnSlots'
    <2>1. /\ UNCHANGED <<keyOf, slot, result, live, reports, deferred>>
          /\ OpCalls' = OpCalls
          /\ OpCalls \subseteq Calls /\ (ReportedOnce' => ReportedOnce)
      BY <1>8 DEF KotlinRefuses, OpCalls, ReportedOnce
    <2>2. \A o \in Calls : Waits(o)' => Waits(o)
      BY <1>8 DEF KotlinRefuses, SetCall, Waits, Owes, OpsFacts
    <2>3. QED BY <2>1, <2>2
  <1>9. ASSUME NEW c \in Calls, DiscoverCallFails(c)
       PROVE  OwnSlots'
    <2>1. /\ UNCHANGED <<keyOf, slot, result, live, reports, deferred>>
          /\ OpCalls' = OpCalls
          /\ OpCalls \subseteq Calls /\ (ReportedOnce' => ReportedOnce)
      BY <1>9 DEF DiscoverCallFails, OpCalls, ReportedOnce
    <2>2. \A o \in Calls : Waits(o)' => Waits(o)
      BY <1>9 DEF DiscoverCallFails, SetCall, Waits, Owes, OpsFacts
    <2>3. QED BY <2>1, <2>2
  <1>10. ASSUME NEW c \in Calls, RefusedReleases(c)
        PROVE  OwnSlots'
    <2>1. RefusalDoes(c)
      BY <1>10, RefusedReleasesDoes
    <2>2. OpCalls' = OpCalls /\ OpCalls \subseteq Calls /\ (ReportedOnce' => ReportedOnce)
      BY <2>1 DEF OpCalls, ReportedOnce
    <2>3. task[c] = "none" /\ reports[c] = 0
      BY <2>1 DEF Tasks, BeforeAccepted
    <2>4. Waits(c) /\ \A o \in Calls : Waits(o)' => Waits(o) /\ o # c
      BY <2>1, <2>3 DEF Waits, Owes, OpsFacts
    <2>5. ASSUME ReportedOnce', NEW o \in OpCalls, live', Waits(o)', reports'[o] = 0
          PROVE  slot'[keyOf'[o]] = o
      <3>1. slot[keyOf[o]] = o /\ o # c /\ o \in Calls /\ keyOf[o] \in Keys
        BY <2>1, <2>2, <2>4, <2>5 DEF OpsFacts
      <3>2. keyOf[o] # keyOf[c]
        <4>1. CASE c \in OpCalls
          BY <2>1, <2>2, <2>3, <2>4, <2>5, <3>1, <4>1
        <4>2. CASE c \notin OpCalls
          BY <2>5, <4>2 DEF OpCalls
        <4>3. QED BY <4>1, <4>2
      <3>3. QED BY <2>1, <3>1, <3>2
    <2>6. ASSUME ReportedOnce', NEW o \in OpCalls
          PROVE  result'[o].by \in {None, o}
      BY <2>1, <2>2, <2>6
    <2>7. QED BY <2>2, <2>5, <2>6
  <1>11. ASSUME NEW c \in Calls, KotlinAccepts(c)
        PROVE  OwnSlots'
    <2>1. /\ UNCHANGED <<keyOf, slot, result, live, reports, deferred>>
          /\ OpCalls' = OpCalls
          /\ OpCalls \subseteq Calls /\ (ReportedOnce' => ReportedOnce)
      BY <1>11 DEF KotlinAccepts, OpCalls, ReportedOnce
    <2>2. \A o \in Calls : Waits(o)' => Waits(o)
      BY <1>11 DEF KotlinAccepts, SetCall, Waits, Owes, OpsFacts
    <2>3. QED BY <2>1, <2>2
  <1>12. ASSUME NEW c \in Calls, KotlinAnswers(c)
        PROVE  OwnSlots'
    <2>1. AnswerDoes(c)
      BY <1>12, KotlinAnswersDoes
    <2>2. ASSUME Report(c, c, "ok"), ReportedOnce', NEW o \in OpCalls
          PROVE  /\ live' /\ Waits(o)' /\ reports'[o] = 0 => slot'[keyOf'[o]] = o
                 /\ result'[o].by \in {None, o}
      <3>1. o \in Calls /\ Waits(c)
        BY <2>1 DEF OpCalls, Waits
      <3>2. /\ ReportedOnce /\ reports[c] = 0
            /\ result'[o] = result[o] \/ result'[o].by \in {None, o}
            /\ live /\ o # c /\ slot[keyOf[o]] = o => slot'[keyOf[o]] = o
        BY <2>2, <3>1, ReportIsOwn
      <3>3. result[o].by \in {None, o} /\ (live /\ Waits(o) /\ reports[o] = 0 => slot[keyOf[o]] = o)
        BY <3>2
      <3>4. reports'[c] = reports[c] + 1 /\ \A d \in Calls : d # c => reports'[d] = reports[d]
        BY <2>2, ReportGiven
      <3>5. o # c => (Waits(o)' => Waits(o))
        BY <2>1, <3>1 DEF Waits, Owes, OpsFacts
      <3>6. QED BY <2>1, <3>1, <3>2, <3>3, <3>4, <3>5
    <2>3. OpCalls' = OpCalls
      BY <2>1 DEF OpCalls
    <2>4. QED BY <2>1, <2>2, <2>3
  <1>13. ASSUME NEW c \in Calls, Returns(c)
        PROVE  OwnSlots'
    <2>1. /\ UNCHANGED <<keyOf, slot, result, live, reports, deferred>>
          /\ OpCalls' = OpCalls
          /\ OpCalls \subseteq Calls /\ (ReportedOnce' => ReportedOnce)
      BY <1>13 DEF Returns, OpCalls, ReportedOnce
    <2>2. \A o \in Calls : Waits(o)' => Waits(o)
      BY <1>13 DEF Returns, SetCall, Waits, Owes, OpsFacts
    <2>3. QED BY <2>1, <2>2
  <1>14. ASSUME NEW c \in Calls, Dropped(c)
        PROVE  OwnSlots'
    <2>1. /\ UNCHANGED <<keyOf, slot, result, live, reports, deferred>>
          /\ OpCalls' = OpCalls
          /\ OpCalls \subseteq Calls /\ (ReportedOnce' => ReportedOnce)
      BY <1>14 DEF Dropped, OpCalls, ReportedOnce
    <2>2. \A o \in Calls : Waits(o)' => Waits(o)
      BY <1>14 DEF Dropped, SetCall, Waits, Owes, OpsFacts
    <2>3. QED BY <2>1, <2>2
  <1>15. ASSUME NEW c \in Calls, Enqueue(c)
        PROVE  OwnSlots'
    <2>1. /\ UNCHANGED <<keyOf, callPc, slot, result, live, reports, deferred>>
          /\ task[c] = "launched"
          /\ \A o \in Calls : task'[o] = task[o] \/ o = c
      BY <1>15 DEF Enqueue, OpsFacts
    <2>2. \A o \in Calls : Waits(o)' => Waits(o)
      BY <2>1 DEF Waits, Owes
    <2>3. OpCalls' = OpCalls /\ OpCalls \subseteq Calls /\ (ReportedOnce' => ReportedOnce)
      BY <2>1 DEF OpCalls, ReportedOnce
    <2>4. QED BY <2>1, <2>2, <2>3
  <1>16. ASSUME NEW c \in Calls, CoroutineEnds(c)
        PROVE  OwnSlots'
    <2>1. EndDoes(c)
      BY <1>16, CoroutineEndsDoes
    <2>2. ASSUME Report(c, c, "failed"), deferred[c] = "failed", ReportedOnce',
                 NEW o \in OpCalls
          PROVE  /\ live' /\ Waits(o)' /\ reports'[o] = 0 => slot'[keyOf'[o]] = o
                 /\ result'[o].by \in {None, o}
      <3>1. o \in Calls /\ Waits(c)
        BY <2>1, <2>2 DEF OpCalls, Waits, Owes
      <3>2. /\ ReportedOnce /\ reports[c] = 0
            /\ result'[o] = result[o] \/ result'[o].by \in {None, o}
            /\ live /\ o # c /\ slot[keyOf[o]] = o => slot'[keyOf[o]] = o
        BY <2>2, <3>1, ReportIsOwn
      <3>3. result[o].by \in {None, o} /\ (live /\ Waits(o) /\ reports[o] = 0 => slot[keyOf[o]] = o)
        BY <3>2
      <3>4. reports'[c] = reports[c] + 1 /\ \A d \in Calls : d # c => reports'[d] = reports[d]
        BY <2>2, ReportGiven
      <3>5. o # c => (Waits(o)' => Waits(o))
        BY <2>1, <3>1 DEF Waits, Owes, OpsFacts
      <3>6. QED BY <2>1, <3>1, <3>2, <3>3, <3>4, <3>5
    <2>3. OpCalls' = OpCalls /\ OpCalls \subseteq Calls
      BY <2>1 DEF OpCalls
    <2>4. ASSUME UNCHANGED <<slot, result, reports>>
          PROVE  OwnSlots'
      <3>1. \A o \in Calls : Waits(o)' => Waits(o)
        BY <2>1 DEF Waits, Owes, OpsFacts
      <3>2. QED BY <2>1, <2>3, <2>4, <3>1 DEF ReportedOnce
    <2>5. QED BY <2>1, <2>2, <2>3, <2>4
  <1>17. ASSUME NEW c \in Calls, Callback(c)
        PROVE  OwnSlots'
    <2>1. CallbackDoes(c)
      BY <1>17, CallbackDone
    <2>2. ASSUME Report(c, c, "ok"), Waits(c), current = c, ReportedOnce', NEW o \in OpCalls
          PROVE  /\ live' /\ Waits(o)' /\ reports'[o] = 0 => slot'[keyOf'[o]] = o
                 /\ result'[o].by \in {None, o}
      <3>1. o \in Calls /\ Waits(c)
        BY <2>2 DEF OpCalls
      <3>2. /\ ReportedOnce /\ reports[c] = 0
            /\ result'[o] = result[o] \/ result'[o].by \in {None, o}
            /\ live /\ o # c /\ slot[keyOf[o]] = o => slot'[keyOf[o]] = o
        BY <2>2, <3>1, ReportIsOwn
      <3>3. result[o].by \in {None, o} /\ (live /\ Waits(o) /\ reports[o] = 0 => slot[keyOf[o]] = o)
        BY <3>2
      <3>4. reports'[c] = reports[c] + 1 /\ \A d \in Calls : d # c => reports'[d] = reports[d]
        BY <2>2, ReportGiven
      <3>5. o # c => (Waits(o)' => Waits(o))
        BY <2>1, <3>1 DEF Waits, Owes, OpsFacts
      <3>6. QED BY <2>1, <3>1, <3>2, <3>3, <3>4, <3>5
    <2>3. ASSUME Report(c, c, "ok"), current = c, phase # "retired", ReportedOnce'
          PROVE  Waits(c)
      <3>1. task[c] \in {"queued", "finished"}
        BY <2>3, CallsAssumption DEF Tasks
      <3>2. reports[c] \in Nat /\ reports[c] + 1 <= 1
        BY <2>3, ReportGiven DEF ReportedOnce, OpsFacts
      <3>3. task[c] = "queued" /\ deferred[c] # "ok"
        BY <2>3, <3>1, <3>2 DEF Finished
      <3>4. QED BY <3>3 DEF Waits, Owes
    <2>4. OpCalls' = OpCalls /\ OpCalls \subseteq Calls
      BY <2>1 DEF OpCalls
    <2>5. ASSUME UNCHANGED <<deferred, slot, result, reports>>
          PROVE  OwnSlots'
      <3>1. \A o \in Calls : Waits(o)' => Waits(o)
        BY <2>1, <2>5 DEF Waits, Owes
      <3>2. QED BY <2>1, <2>4, <2>5, <3>1 DEF ReportedOnce
    <2>6. CASE phase # "retired" /\ current = c /\ Report(c, c, "ok")
      BY <2>2, <2>3, <2>4, <2>6
    <2>7. QED BY <2>1, <2>5, <2>6
  <1>18. CASE KickFails
    <2>1. /\ UNCHANGED <<keyOf, callPc, slot, result, live, reports, task>>
          /\ current \in Calls
          /\ \A o \in Calls : deferred'[o] = deferred[o] \/ o = current
      BY <1>18 DEF KickFails, OpsFacts, TypeOK
    <2>2. task[current] \in {"queued", "finished"}
      BY <2>1, CallsAssumption DEF Tasks
    <2>3. ASSUME reports[current] = 0
          PROVE  deferred[current] # "ok"
      BY <2>1, <2>3 DEF Finished
    <2>4. \A o \in Calls : reports[o] = 0 /\ Waits(o)' => Waits(o)
      BY <2>1, <2>2, <2>3 DEF Waits, Owes
    <2>5. OpCalls' = OpCalls /\ OpCalls \subseteq Calls /\ (ReportedOnce' => ReportedOnce)
      BY <2>1 DEF OpCalls, ReportedOnce
    <2>6. QED BY <2>1, <2>4, <2>5
  <1>19. CASE RecordTimeout
    <2>1. /\ UNCHANGED <<keyOf, callPc, slot, result, live, reports, task>>
          /\ current \in Calls
          /\ \A o \in Calls : deferred'[o] = deferred[o] \/ o = current
      BY <1>19 DEF RecordTimeout, OpsFacts, TypeOK
    <2>2. task[current] \in {"queued", "finished"}
      BY <2>1, CallsAssumption DEF Tasks
    <2>3. ASSUME reports[current] = 0
          PROVE  deferred[current] # "ok"
      BY <2>1, <2>3 DEF Finished
    <2>4. \A o \in Calls : reports[o] = 0 /\ Waits(o)' => Waits(o)
      BY <2>1, <2>2, <2>3 DEF Waits, Owes
    <2>5. OpCalls' = OpCalls /\ OpCalls \subseteq Calls /\ (ReportedOnce' => ReportedOnce)
      BY <2>1 DEF OpCalls, ReportedOnce
    <2>6. QED BY <2>1, <2>4, <2>5
  <1>20. CASE RustRetires
    <2>1. live' = FALSE /\ \A k \in Keys : slot'[k] = None
      BY <1>20, SlotsFreed DEF RustRetires
    <2>2. OpCalls' = OpCalls /\ OpCalls \subseteq Calls /\ UNCHANGED reports
      BY <1>20 DEF RustRetires, OpCalls
    <2>3. \A o \in Calls : result'[o] = result[o] \/ result'[o].by = None
      BY <1>20, SlotsFreed, ResultTypes DEF RustRetires
    <2>4. QED BY <2>1, <2>2, <2>3 DEF ReportedOnce
  <1>21. CASE KotlinRetires
    <2>1. live' = FALSE /\ \A k \in Keys : slot'[k] = None
      BY <1>21, SlotsFreed DEF KotlinRetires, RetiredIsClean
    <2>2. OpCalls' = OpCalls /\ OpCalls \subseteq Calls /\ UNCHANGED reports
      BY <1>21 DEF KotlinRetires, OpCalls
    <2>3. \A o \in Calls : result'[o] = result[o] \/ result'[o].by = None
      BY <1>21, SlotsFreed, ResultTypes DEF KotlinRetires
    <2>4. QED BY <2>1, <2>2, <2>3 DEF ReportedOnce
  <1>22. QED BY <1>1, <1>2, <1>3, <1>4, <1>5, <1>6, <1>7, <1>8, <1>9, <1>10, <1>11, <1>12,
                <1>13, <1>14, <1>15, <1>16, <1>17, <1>18, <1>19, <1>20, <1>21 DEF Next,
                CallSteps, WorkerSteps

\* No call made, no slot taken.
LEMMA OpsInit ==
  ASSUME Init
  PROVE  OpsInv
  <1> USE CallsAssumption DEF Init
  <1>1. /\ queue \in Seq(Calls) /\ Len(queue) = 0 /\ result \in [Calls -> Results]
        /\ \A c \in Calls : result[c].by = None
    BY ResultTypes
  <1>2. /\ callPc \in [Calls -> {"idle", "trying", "parked", "claimed", "refused",
                                "waiting", "done", "dropped"}]
        /\ slot \in [Keys -> Calls \cup {None}] /\ nonces \in [Keys -> Calls \cup {None}]
        /\ task \in [Calls -> {"none", "launched", "queued", "finished"}]
        /\ deferred \in [Calls -> {"none", "ok", "failed"}] /\ reports \in [Calls -> Nat]
    OBVIOUS
  <1>3. TypeOK
    BY <1>1, <1>2 DEF TypeOK
  <1>4. SlotKeys /\ RustFirst /\ NoncesOwed /\ SlotIsOwed /\ RetiredIsClean
    BY DEF SlotKeys, RustFirst, NoncesOwed, SlotIsOwed, RetiredIsClean
  <1>5. Tasks /\ Finished
    BY <1>1 DEF Tasks, Finished, BeforeAccepted
  <1>6. OwnSlots
    BY <1>1 DEF OwnSlots, OpCalls, Waits, Owes
  <1>7. QED BY <1>3, <1>4, <1>5, <1>6 DEF OpsInv

\* The parts together.
LEMMA OpsInvAlways == Spec => []OpsInv
  <1>1. Init => OpsInv
    BY OpsInit
  <1>2. OpsInv /\ [Next]_vars => OpsInv'
    <2>1. ASSUME OpsInv, Next
          PROVE  OpsInv'
      BY <2>1, OpsTypes, SlotKeysKept, RetiredKept, NoncesOwedKept, FinishedKept, TasksKept,
         SlotIsOwedKept, OwnSlotsKept DEF OpsInv
    <2>2. ASSUME OpsInv, UNCHANGED vars
          PROVE  OpsInv'
      BY <2>2 DEF OpsInv, vars, slotVars, queueVars, TypeOK, SlotKeys, RustFirst, Tasks,
         BeforeAccepted,
           NoncesOwed, Finished, SlotIsOwed, RetiredIsClean, OwnSlots, Waits, Owes, OpCalls, ReportedOnce
    <2>3. QED BY <2>1, <2>2
  <1>3. QED BY <1>1, <1>2, PTL DEF Spec

\* The types of the operations' state.
THEOREM OpsTypeCorrect == Spec => []TypeOK
  <1>1. OpsInv => TypeOK
    BY DEF OpsInv
  <1>2. QED BY <1>1, OpsInvAlways, PTL

\* A slot is held only by a call about to free it or an operation Kotlin still has to
\* report: the key is free again for the next call (op_slots.rs).
THEOREM SlotAlwaysOwed == Spec => []SlotIsOwed
  <1>1. OpsInv => SlotIsOwed
    BY DEF OpsInv
  <1>2. QED BY <1>1, OpsInvAlways, PTL

\* No slot survives the attempt: whoever claims does so under the lock that ends it.
THEOREM RetiredAlwaysClean == Spec => []RetiredIsClean
  <1>1. OpsInv => RetiredIsClean
    BY DEF OpsInv
  <1>2. QED BY <1>1, OpsInvAlways, PTL

\* As long as Kotlin reports no operation twice, a call is handed the outcome of its own.
THEOREM AlwaysOwnReports == Spec => []OwnReports
  <1>1. OpsInv => OwnReports
    <2>1. ASSUME OpsInv, NoneReportedTwice
          PROVE  ReportedOnce
      <3>1. \A c \in Calls : reports[c] \in Nat
        BY <2>1 DEF OpsInv, TypeOK
      <3>2. QED BY <2>1, <3>1 DEF NoneReportedTwice, ReportedOnce
    <2>2. QED BY <2>1 DEF OpsInv, OwnSlots, OwnReports
  <1>2. QED BY <1>1, OpsInvAlways, PTL

(***************************************************************************)
(* The GATT server of a peripheral: the inductive invariant.               *)
(***************************************************************************)

\* The types, in two parts: the server's and its callbacks', and the rest.
ServerTypes ==
  /\ handle \in 0..generation /\ generation \in Nat
  /\ pendingAdd \in Adds \cup {NoAdd} /\ adder \in Adds \cup {NoAdd}
  /\ addPc \in [Adds -> {"idle", "slot", "waiting", "busy", "unavailable", "rejected",
                         "timedOut", "ok"}]
  /\ addedTo \in [Adds -> 0..generation]
  /\ addStatus \in [Adds -> {"none", "success", "failure", "abandoned"}]
  /\ table \subseteq Adds
  /\ framework \in Adds \cup {NoAdd}
  /\ registering \subseteq Registrations(generation)
  /\ onStack \subseteq Registrations(generation)
  /\ callbacks \in Seq(CallbackTypes(generation))

LinkTypes ==
  /\ radio \in BOOLEAN /\ powerOffs \in 0..MaxOffs
  /\ peerLinked \in BOOLEAN /\ connectedTo \in BOOLEAN /\ subs \in BOOLEAN
  /\ linkEvents \in 0..MaxEvents
  /\ binderAt \in {"idle", "removing", "reportingGone", "subscribing", "unsubscribing",
                   "orphanedOn", "orphanedOff", "reportingOn", "reportingOff"}
  /\ receiverAt \in {"idle", "resetting", "taking", "removing", "reportingGone",
                     "reportingOff"}
  /\ toldSub \in BOOLEAN /\ toldPower \in BOOLEAN
  /\ ask \in [Asks -> {"none", "posted", "asked", "answered", "refused", "done"}]
  /\ awaits \subseteq Asks

\* A central is connected to an open server of an adapter that is on.
CentralOnServer ==
  /\ peerLinked => radio /\ receiverAt = "idle" /\ handle # NoServer
  /\ awaits # {} => peerLinked
  /\ receiverAt # "idle" => ~radio
  /\ ~radio => registering = {}

\* The binder thread has heard that the central is connected, or will before it runs
\* anything else the central did.
NoLossPosted == \A j \in 1..Len(callbacks) : callbacks[j][1] # "down"

LinkHeard ==
  peerLinked =>
    \/ connectedTo /\ NoLossPosted
    \/ \E i \in 1..Len(callbacks) :
         /\ callbacks[i][1] = "up"
         /\ \A j \in 1..Len(callbacks) : callbacks[j][1] = "down" => j < i

\* A request comes after the link it was made on, and is posted once.
AskedAfterUp ==
  \A i, j \in 1..Len(callbacks) :
    callbacks[i][1] = "ask" /\ callbacks[i][2] \in awaits /\ callbacks[j][1] = "up" => j < i

AskedOnce ==
  /\ \A i \in 1..Len(callbacks) : callbacks[i][1] = "ask" => ask[callbacks[i][2]] = "posted"
  /\ \A i, j \in 1..Len(callbacks) :
       callbacks[i][1] = "ask" /\ callbacks[j][1] = "ask" /\ callbacks[i][2] = callbacks[j][2] => i = j

\* While the central waits, Kotlin has it connected once its request is being answered.
AnswerGoesOut ==
  \A r \in awaits : ask[r] \in {"asked", "answered", "refused"} => connectedTo /\ NoLossPosted

RequestsInv ==
  /\ GattServerTypeOK /\ CentralOnServer /\ LinkHeard /\ AskedAfterUp /\ AskedOnce
  /\ AnswerGoesOut /\ RequestsAreOwed

\* A handle is that of the last server opened, and outlives the power only until reset().
Resetting == ~radio /\ receiverAt = "resetting"

HandleLives == handle # NoServer => handle = generation /\ (radio \/ receiverAt = "resetting")

\* An add under way holds addLock, and the slot as long as its server is open.
AddHolds ==
  /\ \A a \in Adds : addPc[a] \in {"slot", "waiting"} => adder = a /\ addedTo[a] # NoServer
  /\ \A a \in Adds : addPc[a] = "slot" =>
       addStatus[a] # "success" /\ (handle = addedTo[a] => pendingAdd = a)
  /\ \A a \in Adds : addPc[a] = "idle" => addStatus[a] = "none" /\ pendingAdd # a

\* The stack is registering the service of the add that holds the slot, if any, ...
RegistersPending ==
  \A one \in registering : one[1] = handle /\ one[2] = pendingAdd /\ addPc[one[2]] # "slot"

\* ... or its answer for the open server is the only one on its way.
Answers(i) == callbacks[i][1] = "added" /\ callbacks[i][2] = generation

AnswersPending ==
  /\ \A i \in 1..Len(callbacks) : Answers(i) =>
       /\ registering = {} /\ pendingAdd # NoAdd /\ addPc[pendingAdd] # "slot"
       /\ callbacks[i][3] = "success" => <<handle, pendingAdd>> \in onStack \/ Resetting
  /\ \A i, j \in 1..Len(callbacks) : Answers(i) /\ Answers(j) => i = j

\* A success that may still be published is that of the service on the stack.
PublishesOwn ==
  \A a \in Adds : addPc[a] = "waiting" /\ addStatus[a] = "success" /\ handle = addedTo[a] =>
    <<handle, a>> \in onStack \/ Resetting

HostInv ==
  /\ GattServerTypeOK /\ CentralOnServer /\ HandleLives /\ AddHolds /\ RegistersPending
  /\ AnswersPending /\ PublishesOwn /\ TableIsServed

\* What the binder thread takes from its queue, and what is posted to it.
LEMMA CallbackTaken ==
  ASSUME GattServerTypeOK, NEW kind, BinderRuns(kind)
  PROVE  /\ Len(callbacks) \in Nat /\ Len(callbacks') \in Nat
         /\ Len(callbacks) = Len(callbacks') + 1
         /\ \A i \in 1..Len(callbacks') :
              i \in Nat /\ i + 1 \in 1..Len(callbacks) /\ callbacks'[i] = callbacks[i + 1]
         /\ \A i \in 1..Len(callbacks) :
              i # 1 => i - 1 \in 1..Len(callbacks') /\ callbacks'[i - 1] = callbacks[i]
         /\ 1 \in 1..Len(callbacks) /\ callbacks[1] = Head(callbacks)
         /\ callbacks[1][1] = kind
         /\ callbacks' \in Seq(CallbackTypes(generation))
         /\ Head(callbacks) \in CallbackTypes(generation)
  <1>1. callbacks \in Seq(CallbackTypes(generation))
    BY DEF GattServerTypeOK
  <1>2. callbacks # <<>> /\ Head(callbacks)[1] = kind /\ callbacks' = Tail(callbacks)
    BY DEF BinderRuns
  <1>3. QED BY <1>1, <1>2

\* What is posted goes last, and leaves the rest where it was.
LEMMA CallbackPosted ==
  ASSUME GattServerTypeOK, NEW cb \in CallbackTypes(generation), Post(cb)
  PROVE  /\ Len(callbacks) \in Nat /\ Len(callbacks') = Len(callbacks) + 1
         /\ \A i \in 1..Len(callbacks) : i \in 1..Len(callbacks') /\ callbacks'[i] = callbacks[i]
         /\ \A i \in 1..Len(callbacks') : i # Len(callbacks') => i \in 1..Len(callbacks)
         /\ Len(callbacks') \in 1..Len(callbacks') /\ callbacks'[Len(callbacks')] = cb
         /\ callbacks' \in Seq(CallbackTypes(generation))
  <1>1. callbacks \in Seq(CallbackTypes(generation))
    BY DEF GattServerTypeOK
  <1>2. callbacks' = Append(callbacks, cb)
    BY DEF Post
  <1>3. QED BY <1>1, <1>2

\* What a callback names.
LEMMA CallbackNames ==
  ASSUME GattServerTypeOK, NEW cb \in CallbackTypes(generation)
  PROVE  /\ cb[1] = "added" => cb[2] \in 1..generation /\ cb[3] \in {"success", "failure"}
         /\ cb[1] = "ask" => cb[2] \in Asks
         /\ cb[1] = "cccd" => cb[2] \in BOOLEAN
  BY DEF CallbackTypes

\* The callbacks the stack posts are of the kinds named.
LEMMA PostedTypes ==
  ASSUME GattServerTypeOK
  PROVE  /\ <<"up">> \in CallbackTypes(generation)
         /\ <<"down">> \in CallbackTypes(generation)
         /\ \A r \in Asks : <<"ask", r>> \in CallbackTypes(generation)
         /\ \A b \in BOOLEAN : <<"cccd", b>> \in CallbackTypes(generation)
         /\ \A g \in 1..generation : /\ <<"added", g, "success">> \in CallbackTypes(generation)
                                     /\ <<"added", g, "failure">> \in CallbackTypes(generation)
  BY DEF CallbackTypes

\* A server that is opened or closed leaves what was of the servers before.
LEMMA GenerationGrows ==
  ASSUME GattServerTypeOK
  PROVE  /\ generation + 1 \in Nat /\ handle \in 0..(generation + 1)
         /\ \A a \in Adds : addedTo[a] \in 0..(generation + 1)
         /\ registering \subseteq Registrations(generation + 1)
         /\ onStack \subseteq Registrations(generation + 1)
         /\ callbacks \in Seq(CallbackTypes(generation + 1))
  <1>1. callbacks \in Seq(CallbackTypes(generation)) /\ generation \in Nat
    BY DEF GattServerTypeOK
  <1>2. /\ 1..generation \subseteq 1..(generation + 1)
        /\ 0..generation \subseteq 0..(generation + 1)
    BY <1>1
  <1>3. /\ CallbackTypes(generation) \subseteq CallbackTypes(generation + 1)
        /\ Registrations(generation) \subseteq Registrations(generation + 1)
    BY <1>2 DEF CallbackTypes, Registrations
  <1>4. callbacks \in Seq(CallbackTypes(generation + 1))
    BY <1>1, <1>3
  <1>5. QED BY <1>1, <1>2, <1>3, <1>4 DEF GattServerTypeOK

\* The types in two parts, the server and its link.
LEMMA TypesInParts == GattServerTypeOK <=> ServerTypes /\ LinkTypes
  BY DEF GattServerTypeOK, ServerTypes, LinkTypes

\* Every step keeps the types of the server, ...
LEMMA ServerTypesKept ==
  ASSUME GattServerTypeOK, ServerTypes, AddHolds, GattServerNext
  PROVE  ServerTypes'
  <1> USE GattServerAssumption DEF ServerTypes, NoServer, hostVars, stackSide, radioSide,
        peerSide, threads, toldVars, asks
  <1>1. ASSUME NEW r \in Asks,
             AppAnswers(r) \/ TaskResponds(r)
       PROVE  ServerTypes'
    BY <1>1 DEF AppAnswers, TaskResponds
  <1>2. CASE BinderRemoves \/ BinderReportsGone \/ CccdUpdates \/ CccdReports \/
            ReceiverTakesDevice \/ ReceiverUnsubscribes \/ ReceiverReportsGone \/
            ReceiverReportsOff \/ AdapterComesOn
    BY <1>2 DEF BinderRemoves, BinderReportsGone, CccdUpdates, Writing, Orphaned,
       CccdReports, ReceiverTakesDevice, ReceiverUnsubscribes, ReceiverReportsGone,
       ReceiverReportsOff, AdapterComesOn
  <1>3. ASSUME NEW a \in Adds, AddFindsBusy(a)
       PROVE  ServerTypes'
    BY <1>3 DEF AddFindsBusy, AddReturns
  <1>4. ASSUME NEW a \in Adds, AddFindsNoServer(a)
       PROVE  ServerTypes'
    BY <1>4 DEF AddFindsNoServer, AddReturns
  <1>5. ASSUME NEW a \in Adds, AddTakesSlot(a)
       PROVE  ServerTypes'
    <2>1. generation' \in {generation, generation + 1} /\ callbacks' = callbacks
      BY <1>5 DEF AddTakesSlot
    <2>2. callbacks \in Seq(CallbackTypes(generation))
      OBVIOUS
    <2>3. callbacks' \in Seq(CallbackTypes(generation'))
      BY <2>1, <2>2, GenerationGrows
    <2>4. /\ generation' \in Nat /\ handle' \in 0..generation'
          /\ registering \subseteq Registrations(generation')
          /\ onStack \subseteq Registrations(generation')
          /\ \A b \in Adds : addedTo[b] \in 0..generation'
      BY <1>5, <2>1, GenerationGrows DEF AddTakesSlot
    <2>5. addedTo' \in [Adds -> 0..generation']
      BY <1>5, <2>4 DEF AddTakesSlot
    <2>6. QED BY <1>5, <2>3, <2>4, <2>5 DEF AddTakesSlot, AddReturns
  <1>6. ASSUME NEW a \in Adds, AddReachesStack(a)
       PROVE  ServerTypes'
    <2>1. registering' \subseteq Registrations(generation)
      BY <1>6 DEF AddReachesStack, AddHolds, Registrations
    <2>2. QED BY <1>6, <2>1 DEF AddReachesStack, AddReturns
  <1>7. ASSUME NEW a \in Adds, AddRefused(a)
       PROVE  ServerTypes'
    BY <1>7 DEF AddRefused, AddReturns
  <1>8. ASSUME NEW a \in Adds, AddTimesOut(a)
       PROVE  ServerTypes'
    BY <1>8 DEF AddTimesOut, AddReturns
  <1>9. ASSUME NEW a \in Adds, AddFails(a)
       PROVE  ServerTypes'
    BY <1>9 DEF AddFails, AddReturns
  <1>10. ASSUME NEW a \in Adds, AddPublishes(a)
        PROVE  ServerTypes'
    BY <1>10 DEF AddPublishes, AddReturns
  <1>11. CASE StackAnswers
    <2>1. PICK one \in registering, ok \in BOOLEAN :
            /\ registering' = registering \ {one}
            /\ onStack' = IF ok THEN onStack \cup {one} ELSE onStack
            /\ one[1] = handle
            /\ framework' = NoAdd
            /\ IF framework = NoAdd THEN UNCHANGED callbacks
               ELSE Post(<<"added", handle, IF ok THEN "success" ELSE "failure">>)
      BY <1>11 DEF StackAnswers
    <2>2. callbacks \in Seq(CallbackTypes(generation))
      OBVIOUS
    <2>3. <<"added", handle, IF ok THEN "success" ELSE "failure">> \in CallbackTypes(generation)
      <3>1. handle \in 1..generation
        BY <2>1 DEF Registrations
      <3>2. QED BY <3>1, PostedTypes
    <2>4. callbacks' \in Seq(CallbackTypes(generation))
      BY <2>1, <2>2, <2>3, CallbackPosted
    <2>5. QED BY <1>11, <2>1, <2>4 DEF StackAnswers
  <1>12. CASE OnServiceAdded
    <2>1. /\ callbacks' \in Seq(CallbackTypes(generation))
          /\ Head(callbacks) \in CallbackTypes(generation)
      BY <1>12, CallbackTaken DEF OnServiceAdded
    <2>2. QED BY <1>12, <2>1, CallbackNames DEF OnServiceAdded, BinderRuns
  <1>13. CASE CentralConnects
    <2>1. callbacks' \in Seq(CallbackTypes(generation))
      BY <1>13, CallbackPosted, PostedTypes DEF CentralConnects
    <2>2. QED BY <1>13, <2>1 DEF CentralConnects
  <1>14. CASE CentralDisconnects
    <2>1. callbacks' \in Seq(CallbackTypes(generation))
      BY <1>14, CallbackPosted, PostedTypes DEF CentralDisconnects
    <2>2. QED BY <1>14, <2>1 DEF CentralDisconnects
  <1>15. CASE CentralWritesCccd
    <2>1. callbacks' \in Seq(CallbackTypes(generation))
      BY <1>15, CallbackPosted, PostedTypes DEF CentralWritesCccd
    <2>2. QED BY <1>15, <2>1 DEF CentralWritesCccd
  <1>16. ASSUME NEW r \in Asks, CentralAsks(r)
        PROVE  ServerTypes'
    <2>1. callbacks' \in Seq(CallbackTypes(generation))
      BY <1>16, CallbackPosted, PostedTypes DEF CentralAsks
    <2>2. QED BY <1>16, <2>1 DEF CentralAsks
  <1>17. CASE OnConnected
    <2>1. /\ callbacks' \in Seq(CallbackTypes(generation))
          /\ Head(callbacks) \in CallbackTypes(generation)
      BY <1>17, CallbackTaken DEF OnConnected
    <2>2. QED BY <1>17, <2>1, CallbackNames DEF OnConnected, BinderRuns
  <1>18. CASE OnDisconnected
    <2>1. /\ callbacks' \in Seq(CallbackTypes(generation))
          /\ Head(callbacks) \in CallbackTypes(generation)
      BY <1>18, CallbackTaken DEF OnDisconnected
    <2>2. QED BY <1>18, <2>1, CallbackNames DEF OnDisconnected, BinderRuns
  <1>19. CASE OnCccd
    <2>1. /\ callbacks' \in Seq(CallbackTypes(generation))
          /\ Head(callbacks) \in CallbackTypes(generation)
      BY <1>19, CallbackTaken DEF OnCccd
    <2>2. QED BY <1>19, <2>1, CallbackNames DEF OnCccd, BinderRuns, Writing
  <1>20. CASE OnStaticAsk
    <2>1. /\ callbacks' \in Seq(CallbackTypes(generation))
          /\ Head(callbacks) \in CallbackTypes(generation)
      BY <1>20, CallbackTaken DEF OnStaticAsk
    <2>2. QED BY <1>20, <2>1, CallbackNames DEF OnStaticAsk, BinderRuns
  <1>21. CASE OnAsk
    <2>1. /\ callbacks' \in Seq(CallbackTypes(generation))
          /\ Head(callbacks) \in CallbackTypes(generation)
      BY <1>21, CallbackTaken DEF OnAsk
    <2>2. QED BY <1>21, <2>1, CallbackNames DEF OnAsk, BinderRuns
  <1>22. CASE AdapterGoesOff
    <2>1. callbacks' \in Seq(CallbackTypes(generation))
      <3>1. callbacks \in Seq(CallbackTypes(generation))
        OBVIOUS
      <3>2. QED BY <1>22, <3>1, CallbackPosted, PostedTypes DEF AdapterGoesOff
    <2>2. QED BY <1>22, <2>1 DEF AdapterGoesOff
  <1>23. CASE ReceiverResets
    <2>1. generation' = generation + 1 /\ callbacks' = callbacks /\ addedTo' = addedTo
      BY <1>23 DEF ReceiverResets
    <2>2. callbacks' \in Seq(CallbackTypes(generation'))
      BY <2>1, GenerationGrows
    <2>3. addedTo' \in [Adds -> 0..generation']
      BY <2>1, GenerationGrows
    <2>4. generation' \in Nat /\ 0 \in 0..generation'
      BY <2>1
    <2>5. QED BY <1>23, <2>1, <2>2, <2>3, <2>4, GenerationGrows DEF ReceiverResets
  <1>24. QED BY <1>1, <1>2, <1>3, <1>4, <1>5, <1>6, <1>7, <1>8, <1>9, <1>10, <1>11, <1>12,
                <1>13, <1>14, <1>15, <1>16, <1>17, <1>18, <1>19, <1>20, <1>21, <1>22, <1>23
                DEF GattServerNext

\* ... and of the link.
LEMMA LinkTypesKept ==
  ASSUME GattServerTypeOK, LinkTypes, GattServerNext
  PROVE  LinkTypes'
  <1> USE GattServerAssumption DEF LinkTypes, hostVars, stackSide, radioSide, peerSide,
        threads, toldVars, asks
  <1>1. ASSUME NEW a \in Adds,
             AddFindsBusy(a) \/ AddFindsNoServer(a) \/ AddTakesSlot(a) \/
             AddReachesStack(a) \/ AddRefused(a) \/ AddTimesOut(a) \/ AddFails(a) \/
             AddPublishes(a)
       PROVE  LinkTypes'
    BY <1>1 DEF AddFindsBusy, AddReturns, AddFindsNoServer, AddTakesSlot, AddReachesStack,
       AddRefused, AddTimesOut, AddFails, AddPublishes
  <1>2. CASE StackAnswers
    BY <1>2 DEF StackAnswers, Post
  <1>3. CASE OnServiceAdded
    BY <1>3 DEF OnServiceAdded, BinderRuns
  <1>4. CASE CentralConnects
    BY <1>4 DEF CentralConnects, Post
  <1>5. CASE CentralDisconnects
    BY <1>5 DEF CentralDisconnects, Post
  <1>6. CASE CentralWritesCccd
    BY <1>6 DEF CentralWritesCccd, Post
  <1>7. ASSUME NEW r \in Asks, CentralAsks(r)
       PROVE  LinkTypes'
    BY <1>7 DEF CentralAsks, Post
  <1>8. ASSUME NEW r \in Asks, AppAnswers(r)
       PROVE  LinkTypes'
    BY <1>8 DEF AppAnswers
  <1>9. ASSUME NEW r \in Asks, TaskResponds(r)
       PROVE  LinkTypes'
    BY <1>9 DEF TaskResponds
  <1>10. CASE OnConnected
    BY <1>10 DEF OnConnected, BinderRuns
  <1>11. CASE OnDisconnected
    BY <1>11 DEF OnDisconnected, BinderRuns
  <1>12. CASE BinderRemoves
    BY <1>12 DEF BinderRemoves
  <1>13. CASE BinderReportsGone
    BY <1>13 DEF BinderReportsGone
  <1>14. CASE OnCccd
    <2>1. Head(callbacks) \in CallbackTypes(generation) /\ callbacks # << >>
      BY <1>14, CallbackTaken DEF OnCccd, BinderRuns
    <2>2. QED BY <1>14, <2>1, CallbackNames DEF OnCccd, BinderRuns, Writing
  <1>15. CASE CccdUpdates
    BY <1>15 DEF CccdUpdates, Writing, Orphaned
  <1>16. CASE CccdReports
    BY <1>16 DEF CccdReports
  <1>17. CASE OnStaticAsk
    <2>1. Head(callbacks) \in CallbackTypes(generation) /\ callbacks # << >>
      BY <1>17, CallbackTaken DEF OnStaticAsk, BinderRuns
    <2>2. QED BY <1>17, <2>1, CallbackNames DEF OnStaticAsk, BinderRuns
  <1>18. CASE OnAsk
    <2>1. Head(callbacks) \in CallbackTypes(generation) /\ callbacks # << >>
      BY <1>18, CallbackTaken DEF OnAsk, BinderRuns
    <2>2. QED BY <1>18, <2>1, CallbackNames DEF OnAsk, BinderRuns
  <1>19. CASE AdapterGoesOff
    <2>1. powerOffs + 1 \in 0..MaxOffs
      BY <1>19 DEF AdapterGoesOff
    <2>2. QED BY <1>19, <2>1 DEF AdapterGoesOff
  <1>20. CASE ReceiverResets
    BY <1>20 DEF ReceiverResets
  <1>21. CASE ReceiverTakesDevice
    BY <1>21 DEF ReceiverTakesDevice
  <1>22. CASE ReceiverUnsubscribes
    BY <1>22 DEF ReceiverUnsubscribes, Writing, Orphaned
  <1>23. CASE ReceiverReportsGone
    BY <1>23 DEF ReceiverReportsGone
  <1>24. CASE ReceiverReportsOff
    BY <1>24 DEF ReceiverReportsOff
  <1>25. CASE AdapterComesOn
    BY <1>25 DEF AdapterComesOn
  <1>26. QED BY <1>1, <1>2, <1>3, <1>4, <1>5, <1>6, <1>7, <1>8, <1>9, <1>10, <1>11, <1>12,
                <1>13, <1>14, <1>15, <1>16, <1>17, <1>18, <1>19, <1>20, <1>21, <1>22, <1>23,
                <1>24, <1>25 DEF GattServerNext

\* A loss that is not on its way is not on its way when another callback is taken or posted.
LEMMA LossNotPosted ==
  ASSUME GattServerTypeOK
  PROVE  /\ NoLossPosted /\ (\E kind : BinderRuns(kind)) => NoLossPosted'
         /\ \A cb \in CallbackTypes(generation) :
              NoLossPosted /\ cb[1] # "down" /\ Post(cb) => NoLossPosted'
  <1>1. ASSUME NEW kind, BinderRuns(kind), NoLossPosted
        PROVE  NoLossPosted'
    <2>1. ASSUME NEW j \in 1..Len(callbacks')
          PROVE  callbacks'[j][1] # "down"
      <3>1. j + 1 \in 1..Len(callbacks) /\ callbacks'[j] = callbacks[j + 1]
        BY <1>1, CallbackTaken
      <3>2. QED BY <1>1, <3>1 DEF NoLossPosted
    <2>2. QED BY <2>1 DEF NoLossPosted
  <1>2. ASSUME NEW cb \in CallbackTypes(generation), NoLossPosted, cb[1] # "down", Post(cb)
        PROVE  NoLossPosted'
    BY <1>2, CallbackPosted DEF NoLossPosted
  <1>3. QED BY <1>1, <1>2

\* The stack answers a registration of the present server.
LEMMA AnswerTypes ==
  ASSUME GattServerTypeOK, NEW one \in registering, one[1] = handle, NEW ok \in BOOLEAN
  PROVE  <<"added", handle, IF ok THEN "success" ELSE "failure">> \in CallbackTypes(generation)
  <1>1. handle \in 1..generation
    BY DEF GattServerTypeOK, Registrations
  <1>2. QED BY <1>1, PostedTypes

\* A link needs the adapter and the server, and ends with either.
LEMMA CentralOnServerKept ==
  ASSUME GattServerTypeOK, CentralOnServer, GattServerNext
  PROVE  CentralOnServer'
  <1> USE DEF CentralOnServer, NoServer, hostVars, stackSide, radioSide, peerSide, threads,
        toldVars, asks
  <1>1. ASSUME NEW a \in Adds,
             AddFindsBusy(a) \/ AddFindsNoServer(a) \/ AddRefused(a) \/
             AddTimesOut(a) \/ AddFails(a) \/ AddPublishes(a)
       PROVE  CentralOnServer'
    BY <1>1 DEF AddFindsBusy, AddReturns, AddFindsNoServer, AddRefused, AddTimesOut,
       AddFails, AddPublishes
  <1>2. CASE OnServiceAdded \/ CentralWritesCccd \/ OnConnected \/ OnDisconnected \/
            BinderRemoves \/ BinderReportsGone \/ OnCccd \/ CccdUpdates
    BY <1>2 DEF OnServiceAdded, BinderRuns, CentralWritesCccd, Post, OnConnected,
       OnDisconnected, BinderRemoves, BinderReportsGone, OnCccd, Writing, CccdUpdates,
       Orphaned
  <1>3. CASE CccdReports \/ OnStaticAsk \/ OnAsk \/ ReceiverTakesDevice \/
            ReceiverUnsubscribes \/ ReceiverReportsGone \/ ReceiverReportsOff
    BY <1>3 DEF CccdReports, OnStaticAsk, BinderRuns, OnAsk, ReceiverTakesDevice,
       ReceiverUnsubscribes, Writing, Orphaned, ReceiverReportsGone, ReceiverReportsOff
  <1>4. ASSUME NEW r \in Asks,
             AppAnswers(r) \/ TaskResponds(r)
       PROVE  CentralOnServer'
    BY <1>4 DEF AppAnswers, TaskResponds
  <1>5. ASSUME NEW a \in Adds, AddTakesSlot(a)
       PROVE  CentralOnServer'
    BY <1>5 DEF AddTakesSlot, AddReturns, GattServerTypeOK
  <1>6. ASSUME NEW a \in Adds, AddReachesStack(a)
       PROVE  CentralOnServer'
    BY <1>6 DEF AddReachesStack, AddReturns
  <1>7. CASE StackAnswers
    BY <1>7 DEF StackAnswers, Post
  <1>8. CASE CentralConnects
    BY <1>8 DEF CentralConnects, Post
  <1>9. CASE CentralDisconnects
    BY <1>9 DEF CentralDisconnects, Post
  <1>10. ASSUME NEW r \in Asks, CentralAsks(r)
        PROVE  CentralOnServer'
    BY <1>10 DEF CentralAsks, Post
  <1>11. CASE AdapterGoesOff
    BY <1>11 DEF AdapterGoesOff, Post
  <1>12. CASE ReceiverResets
    BY <1>12 DEF ReceiverResets
  <1>13. CASE AdapterComesOn
    BY <1>13 DEF AdapterComesOn
  <1>14. QED BY <1>1, <1>2, <1>3, <1>4, <1>5, <1>6, <1>7, <1>8, <1>9, <1>10, <1>11, <1>12,
                <1>13 DEF GattServerNext

\* Running a callback about anything but the link.
LEMMA LinkHeardTaken ==
  ASSUME GattServerTypeOK, LinkHeard, NEW kind, BinderRuns(kind),
         kind \notin {"up", "down"},
         UNCHANGED <<peerLinked, connectedTo>>
  PROVE  LinkHeard'
  <1>1. ASSUME peerLinked, connectedTo, NoLossPosted
        PROVE  LinkHeard'
    BY <1>1, LossNotPosted DEF LinkHeard
  <1>2. ASSUME NEW i \in 1..Len(callbacks), callbacks[i][1] = "up",
               \A j \in 1..Len(callbacks) : callbacks[j][1] = "down" => j < i
        PROVE  LinkHeard'
    <2>1. i # 1 /\ i - 1 \in 1..Len(callbacks') /\ callbacks'[i - 1] = callbacks[i]
      BY <1>2, CallbackTaken
    <2>2. \A j \in 1..Len(callbacks') : callbacks'[j][1] = "down" => j < i - 1
      BY <1>2, CallbackTaken
    <2>3. QED BY <1>2, <2>1, <2>2 DEF LinkHeard
  <1>3. QED BY <1>1, <1>2 DEF LinkHeard

\* Posting a callback that is no loss.
LEMMA LinkHeardPosted ==
  ASSUME GattServerTypeOK, LinkHeard, NEW cb \in CallbackTypes(generation), Post(cb),
         cb[1] # "down", UNCHANGED <<peerLinked, connectedTo>>
  PROVE  LinkHeard'
  <1>1. NoLossPosted => NoLossPosted'
    BY LossNotPosted
  <1>2. ASSUME NEW i \in 1..Len(callbacks), callbacks[i][1] = "up",
               \A j \in 1..Len(callbacks) : callbacks[j][1] = "down" => j < i
        PROVE  LinkHeard'
    BY <1>2, CallbackPosted DEF LinkHeard
  <1>3. QED BY <1>1, <1>2 DEF LinkHeard

\* The binder thread hears of the link before what comes over it.
LEMMA LinkHeardKept ==
  ASSUME GattServerTypeOK, CentralOnServer, LinkHeard, GattServerNext
  PROVE  LinkHeard'
  <1> USE DEF LinkHeard, hostVars, stackSide, radioSide, peerSide, threads, toldVars, asks
  <1>1. ASSUME NEW a \in Adds,
             AddFindsBusy(a) \/ AddFindsNoServer(a) \/ AddTakesSlot(a) \/
             AddReachesStack(a) \/ AddRefused(a) \/ AddTimesOut(a) \/ AddFails(a) \/
             AddPublishes(a)
       PROVE  LinkHeard'
    BY <1>1 DEF AddFindsBusy, AddReturns, NoLossPosted, AddFindsNoServer, AddTakesSlot,
       AddReachesStack, AddRefused, AddTimesOut, AddFails, AddPublishes
  <1>2. ASSUME NEW r \in Asks,
             AppAnswers(r) \/ TaskResponds(r)
       PROVE  LinkHeard'
    BY <1>2 DEF AppAnswers, NoLossPosted, TaskResponds
  <1>3. CASE BinderRemoves \/ BinderReportsGone \/ CccdUpdates \/ CccdReports \/
            ReceiverResets \/ ReceiverUnsubscribes \/ ReceiverReportsGone \/
            ReceiverReportsOff \/ AdapterComesOn
    BY <1>3 DEF BinderRemoves, NoLossPosted, BinderReportsGone, CccdUpdates, Writing,
       Orphaned, CccdReports, ReceiverResets, ReceiverUnsubscribes, ReceiverReportsGone,
       ReceiverReportsOff, AdapterComesOn
  <1>4. CASE StackAnswers
    <2>1. PICK one \in registering, ok \in BOOLEAN :
            /\ one[1] = handle
            /\ IF framework = NoAdd THEN UNCHANGED callbacks
               ELSE Post(<<"added", handle, IF ok THEN "success" ELSE "failure">>)
      BY <1>4 DEF StackAnswers
    <2>2. <<"added", handle, IF ok THEN "success" ELSE "failure">> \in CallbackTypes(generation)
      BY <2>1, AnswerTypes
    <2>3. UNCHANGED callbacks => LinkHeard'
      BY <1>4 DEF StackAnswers, LinkHeard, NoLossPosted
    <2>4. QED BY <1>4, <2>1, <2>2, <2>3, LinkHeardPosted DEF StackAnswers
  <1>5. CASE OnServiceAdded
    <2>1. BinderRuns("added") /\ UNCHANGED <<peerLinked, connectedTo>>
      BY <1>5 DEF OnServiceAdded
    <2>2. QED BY <2>1, LinkHeardTaken
  <1>6. CASE CentralConnects
    <2>1. <<"up">> \in CallbackTypes(generation) /\ Post(<<"up">>)
      BY <1>6, PostedTypes DEF CentralConnects
    <2>2. /\ Len(callbacks') \in 1..Len(callbacks')
          /\ callbacks'[Len(callbacks')] = <<"up">>
          /\ \A j \in 1..Len(callbacks') : j # Len(callbacks') => j < Len(callbacks')
      BY <2>1, CallbackPosted
    <2>3. QED BY <2>2
  <1>7. CASE CentralDisconnects
    BY <1>7 DEF CentralDisconnects, Post
  <1>8. CASE CentralWritesCccd
    <2>1. PICK cb \in CallbackTypes(generation) : cb[1] # "down" /\ Post(cb)
      BY <1>8, PostedTypes DEF CentralWritesCccd
    <2>2. QED BY <1>8, <2>1, LinkHeardPosted DEF CentralWritesCccd
  <1>9. ASSUME NEW r \in Asks, CentralAsks(r)
       PROVE  LinkHeard'
    <2>1. PICK cb \in CallbackTypes(generation) : cb[1] # "down" /\ Post(cb)
      BY <1>9, PostedTypes DEF CentralAsks
    <2>2. QED BY <1>9, <2>1, LinkHeardPosted DEF CentralAsks
  <1>10. CASE OnConnected
    <2>1. ASSUME peerLinked, connectedTo, NoLossPosted
          PROVE  LinkHeard'
      BY <1>10, <2>1, LossNotPosted DEF OnConnected
    <2>2. ASSUME peerLinked, NEW i \in 1..Len(callbacks), callbacks[i][1] = "up",
                 \A j \in 1..Len(callbacks) : callbacks[j][1] = "down" => j < i
          PROVE  LinkHeard'
      <3>1. CASE i = 1
        BY <1>10, <3>1, <2>2, CallbackTaken DEF OnConnected, NoLossPosted
      <3>2. CASE i # 1
        <4>1. i - 1 \in 1..Len(callbacks') /\ callbacks'[i - 1] = callbacks[i]
          BY <1>10, <3>2, CallbackTaken DEF OnConnected
        <4>2. \A j \in 1..Len(callbacks') : callbacks'[j][1] = "down" => j < i - 1
          BY <1>10, <2>2, CallbackTaken DEF OnConnected
        <4>3. QED BY <2>2, <4>1, <4>2
      <3>3. QED BY <3>1, <3>2
    <2>3. QED BY <1>10, <2>1, <2>2 DEF OnConnected
  <1>11. CASE OnDisconnected
    <2>1. BinderRuns("down") /\ peerLinked' = peerLinked /\ connectedTo' = FALSE
      BY <1>11 DEF OnDisconnected
    <2>2. ~NoLossPosted
      BY <2>1, CallbackTaken DEF NoLossPosted
    <2>3. ASSUME NEW i \in 1..Len(callbacks), callbacks[i][1] = "up",
                 \A j \in 1..Len(callbacks) : callbacks[j][1] = "down" => j < i
          PROVE  LinkHeard'
      <3>1. i # 1 /\ i - 1 \in 1..Len(callbacks') /\ callbacks'[i - 1] = callbacks[i]
        BY <2>1, <2>3, CallbackTaken
      <3>2. \A j \in 1..Len(callbacks') : callbacks'[j][1] = "down" => j < i - 1
        BY <2>1, <2>3, CallbackTaken
      <3>3. QED BY <2>3, <3>1, <3>2
    <2>4. QED BY <2>1, <2>2, <2>3
  <1>12. CASE OnCccd
    <2>1. BinderRuns("cccd") /\ UNCHANGED <<peerLinked, connectedTo>>
      BY <1>12 DEF OnCccd
    <2>2. QED BY <2>1, LinkHeardTaken
  <1>13. CASE OnStaticAsk
    <2>1. BinderRuns("ask") /\ UNCHANGED <<peerLinked, connectedTo>>
      BY <1>13 DEF OnStaticAsk
    <2>2. QED BY <2>1, LinkHeardTaken
  <1>14. CASE OnAsk
    <2>1. BinderRuns("ask") /\ UNCHANGED <<peerLinked, connectedTo>>
      BY <1>14 DEF OnAsk
    <2>2. QED BY <2>1, LinkHeardTaken
  <1>15. CASE AdapterGoesOff
    BY <1>15 DEF AdapterGoesOff, Post
  <1>16. CASE ReceiverTakesDevice
    BY <1>16 DEF ReceiverTakesDevice, CentralOnServer
  <1>17. QED BY <1>1, <1>2, <1>3, <1>4, <1>5, <1>6, <1>7, <1>8, <1>9, <1>10, <1>11, <1>12,
                <1>13, <1>14, <1>15, <1>16 DEF GattServerNext

\* Running a callback while no request begins to wait.
LEMMA AskedAfterUpTaken ==
  ASSUME GattServerTypeOK, AskedAfterUp, NEW kind, BinderRuns(kind),
         awaits' \subseteq awaits
  PROVE  AskedAfterUp'
  <1>1. ASSUME NEW i \in 1..Len(callbacks'), NEW j \in 1..Len(callbacks'),
               callbacks'[i][1] = "ask",
               callbacks'[i][2] \in awaits', callbacks'[j][1] = "up"
        PROVE  j < i
    <2>1. /\ i \in Nat /\ i + 1 \in 1..Len(callbacks) /\ callbacks'[i] = callbacks[i + 1]
          /\ j \in Nat /\ j + 1 \in 1..Len(callbacks) /\ callbacks'[j] = callbacks[j + 1]
      BY CallbackTaken
    <2>2. j + 1 < i + 1
      BY <1>1, <2>1 DEF AskedAfterUp
    <2>3. QED BY <2>1, <2>2
  <1>2. QED BY <1>1 DEF AskedAfterUp

\* A request comes after its link.
LEMMA AskedAfterUpKept ==
  ASSUME GattServerTypeOK, CentralOnServer, AskedOnce, AskedAfterUp, GattServerNext
  PROVE  AskedAfterUp'
  <1> USE DEF AskedAfterUp, hostVars, stackSide, radioSide, peerSide, threads, toldVars,
        asks
  <1>1. ASSUME NEW a \in Adds,
             AddFindsBusy(a) \/ AddFindsNoServer(a) \/ AddTakesSlot(a) \/
             AddReachesStack(a) \/ AddRefused(a) \/ AddTimesOut(a) \/ AddFails(a) \/
             AddPublishes(a)
       PROVE  AskedAfterUp'
    BY <1>1 DEF AddFindsBusy, AddReturns, AddFindsNoServer, AddTakesSlot, AddReachesStack,
       AddRefused, AddTimesOut, AddFails, AddPublishes
  <1>2. ASSUME NEW r \in Asks,
             AppAnswers(r) \/ TaskResponds(r)
       PROVE  AskedAfterUp'
    BY <1>2 DEF AppAnswers, TaskResponds
  <1>3. CASE BinderRemoves \/ BinderReportsGone \/ CccdUpdates \/ CccdReports \/
            ReceiverResets
    BY <1>3 DEF BinderRemoves, BinderReportsGone, CccdUpdates, Writing, Orphaned,
       CccdReports, ReceiverResets
  <1>4. CASE ReceiverTakesDevice \/ ReceiverUnsubscribes \/ ReceiverReportsGone \/
            ReceiverReportsOff \/ AdapterComesOn
    BY <1>4 DEF ReceiverTakesDevice, ReceiverUnsubscribes, Writing, Orphaned,
       ReceiverReportsGone, ReceiverReportsOff, AdapterComesOn
  <1>5. CASE StackAnswers
    <2>1. PICK one \in registering, ok \in BOOLEAN :
            /\ one[1] = handle
            /\ IF framework = NoAdd THEN UNCHANGED callbacks
               ELSE Post(<<"added", handle, IF ok THEN "success" ELSE "failure">>)
      BY <1>5 DEF StackAnswers
    <2>2. <<"added", handle, IF ok THEN "success" ELSE "failure">> \in CallbackTypes(generation)
      BY <2>1, AnswerTypes
    <2>3. UNCHANGED callbacks => AskedAfterUp'
      BY <1>5 DEF StackAnswers
    <2>4. Post(<<"added", handle, IF ok THEN "success" ELSE "failure">>) => AskedAfterUp'
      BY <1>5, <2>2, CallbackPosted DEF StackAnswers
    <2>5. QED BY <2>1, <2>3, <2>4
  <1>6. CASE OnServiceAdded
    <2>1. awaits' \subseteq awaits
      BY <1>6 DEF OnServiceAdded
    <2>2. QED BY <1>6, <2>1, AskedAfterUpTaken DEF OnServiceAdded
  <1>7. CASE CentralConnects
    <2>1. awaits' = {}
      BY <1>7 DEF CentralConnects, CentralOnServer
    <2>2. QED BY <2>1
  <1>8. CASE CentralDisconnects
    BY <1>8 DEF CentralDisconnects
  <1>9. CASE CentralWritesCccd
    BY <1>9, CallbackPosted, PostedTypes DEF CentralWritesCccd, Post
  <1>10. ASSUME NEW r \in Asks, CentralAsks(r)
        PROVE  AskedAfterUp'
    <2>1. /\ <<"ask", r>> \in CallbackTypes(generation) /\ Post(<<"ask", r>>)
          /\ awaits' = awaits \cup {r} /\ ask[r] = "none"
      BY <1>10, PostedTypes DEF CentralAsks
    <2>2. \A i \in 1..Len(callbacks) : callbacks[i][1] = "ask" => callbacks[i][2] # r
      BY <2>1 DEF AskedOnce
    <2>3. QED BY <2>1, <2>2, CallbackPosted
  <1>11. CASE OnConnected
    <2>1. awaits' \subseteq awaits
      BY <1>11 DEF OnConnected
    <2>2. QED BY <1>11, <2>1, AskedAfterUpTaken DEF OnConnected
  <1>12. CASE OnDisconnected
    <2>1. awaits' \subseteq awaits
      BY <1>12 DEF OnDisconnected
    <2>2. QED BY <1>12, <2>1, AskedAfterUpTaken DEF OnDisconnected
  <1>13. CASE OnCccd
    <2>1. awaits' \subseteq awaits
      BY <1>13 DEF OnCccd
    <2>2. QED BY <1>13, <2>1, AskedAfterUpTaken DEF OnCccd
  <1>14. CASE OnStaticAsk
    <2>1. awaits' \subseteq awaits
      BY <1>14 DEF OnStaticAsk
    <2>2. QED BY <1>14, <2>1, AskedAfterUpTaken DEF OnStaticAsk
  <1>15. CASE OnAsk
    <2>1. awaits' \subseteq awaits
      BY <1>15 DEF OnAsk
    <2>2. QED BY <1>15, <2>1, AskedAfterUpTaken DEF OnAsk
  <1>16. CASE AdapterGoesOff
    BY <1>16 DEF AdapterGoesOff
  <1>17. QED BY <1>1, <1>2, <1>3, <1>4, <1>5, <1>6, <1>7, <1>8, <1>9, <1>10, <1>11, <1>12,
                <1>13, <1>14, <1>15, <1>16 DEF GattServerNext

\* Two requests on their way are still two when a callback is taken.
LEMMA AsksDistinctTaken ==
  ASSUME GattServerTypeOK, AskedOnce, NEW kind, BinderRuns(kind)
  PROVE  \A i, j \in 1..Len(callbacks') :
           callbacks'[i][1] = "ask" /\ callbacks'[j][1] = "ask"
             /\ callbacks'[i][2] = callbacks'[j][2] => i = j
  <1>1. ASSUME NEW i \in 1..Len(callbacks'), NEW j \in 1..Len(callbacks'),
               callbacks'[i][1] = "ask",
               callbacks'[j][1] = "ask", callbacks'[i][2] = callbacks'[j][2]
        PROVE  i = j
    <2>1. /\ i \in Nat /\ i + 1 \in 1..Len(callbacks) /\ callbacks'[i] = callbacks[i + 1]
          /\ j \in Nat /\ j + 1 \in 1..Len(callbacks) /\ callbacks'[j] = callbacks[j + 1]
      BY CallbackTaken
    <2>2. i + 1 = j + 1
      BY <1>1, <2>1 DEF AskedOnce
    <2>3. QED BY <2>1, <2>2
  <1>2. QED BY <1>1

\* Running a callback while the requests stay where they are.
LEMMA AskedOnceTaken ==
  ASSUME GattServerTypeOK, AskedOnce, NEW kind, BinderRuns(kind), UNCHANGED ask
  PROVE  AskedOnce'
  <1>1. ASSUME NEW i \in 1..Len(callbacks'), callbacks'[i][1] = "ask"
        PROVE  ask'[callbacks'[i][2]] = "posted"
    <2>1. i + 1 \in 1..Len(callbacks) /\ callbacks'[i] = callbacks[i + 1]
      BY CallbackTaken
    <2>2. QED BY <1>1, <2>1 DEF AskedOnce
  <1>2. QED BY <1>1, AsksDistinctTaken DEF AskedOnce

\* Posting a callback that is no request.
LEMMA AskedOncePosted ==
  ASSUME GattServerTypeOK, AskedOnce, NEW cb \in CallbackTypes(generation), Post(cb),
         cb[1] # "ask",
         UNCHANGED ask
  PROVE  AskedOnce'
  <1>1. \A i \in 1..Len(callbacks') : callbacks'[i][1] = "ask" =>
          i \in 1..Len(callbacks) /\ callbacks'[i] = callbacks[i]
    BY CallbackPosted
  <1>2. QED BY <1>1 DEF AskedOnce

\* Every callback posted is of a kind named.
LEMMA CallbackNamed ==
  ASSUME GattServerTypeOK, NEW i \in 1..Len(callbacks)
  PROVE  callbacks[i] \in CallbackTypes(generation)
  BY DEF GattServerTypeOK

\* ... and once.
LEMMA AskedOnceKept ==
  ASSUME GattServerTypeOK, AskedOnce, GattServerNext
  PROVE  AskedOnce'
  <1> USE DEF AskedOnce, hostVars, stackSide, radioSide, peerSide, threads, toldVars, asks
  <1>1. ASSUME NEW a \in Adds,
             AddFindsBusy(a) \/ AddFindsNoServer(a) \/ AddTakesSlot(a) \/
             AddReachesStack(a) \/ AddRefused(a) \/ AddTimesOut(a) \/ AddFails(a) \/
             AddPublishes(a)
       PROVE  AskedOnce'
    BY <1>1 DEF AddFindsBusy, AddReturns, AddFindsNoServer, AddTakesSlot, AddReachesStack,
       AddRefused, AddTimesOut, AddFails, AddPublishes
  <1>2. CASE BinderRemoves \/ BinderReportsGone \/ CccdUpdates \/ CccdReports \/
            ReceiverResets
    BY <1>2 DEF BinderRemoves, BinderReportsGone, CccdUpdates, Writing, Orphaned,
       CccdReports, ReceiverResets
  <1>3. CASE ReceiverTakesDevice \/ ReceiverUnsubscribes \/ ReceiverReportsGone \/
            ReceiverReportsOff \/ AdapterComesOn
    BY <1>3 DEF ReceiverTakesDevice, ReceiverUnsubscribes, Writing, Orphaned,
       ReceiverReportsGone, ReceiverReportsOff, AdapterComesOn
  <1>4. CASE StackAnswers
    <2>1. PICK one \in registering, ok \in BOOLEAN :
            /\ one[1] = handle
            /\ IF framework = NoAdd THEN UNCHANGED callbacks
               ELSE Post(<<"added", handle, IF ok THEN "success" ELSE "failure">>)
      BY <1>4 DEF StackAnswers
    <2>2. <<"added", handle, IF ok THEN "success" ELSE "failure">> \in CallbackTypes(generation)
      BY <2>1, AnswerTypes
    <2>3. UNCHANGED callbacks => AskedOnce'
      BY <1>4 DEF StackAnswers
    <2>4. Post(<<"added", handle, IF ok THEN "success" ELSE "failure">>) => AskedOnce'
      BY <1>4, <2>2, AskedOncePosted DEF StackAnswers
    <2>5. QED BY <2>1, <2>3, <2>4
  <1>5. CASE OnServiceAdded
    <2>1. UNCHANGED ask /\ BinderRuns("added")
      BY <1>5 DEF OnServiceAdded
    <2>2. QED BY <2>1, AskedOnceTaken
  <1>6. CASE CentralConnects
    BY <1>6, CallbackPosted, PostedTypes DEF CentralConnects, Post
  <1>7. CASE CentralDisconnects
    BY <1>7, CallbackPosted, PostedTypes DEF CentralDisconnects, Post
  <1>8. CASE CentralWritesCccd
    <2>1. PICK cb \in CallbackTypes(generation) : cb[1] # "ask" /\ Post(cb)
      BY <1>8, PostedTypes DEF CentralWritesCccd
    <2>2. QED BY <1>8, <2>1, AskedOncePosted DEF CentralWritesCccd
  <1>9. ASSUME NEW r \in Asks, CentralAsks(r)
       PROVE  AskedOnce'
    <2>1. /\ <<"ask", r>> \in CallbackTypes(generation) /\ Post(<<"ask", r>>)
          /\ ask[r] = "none"
      BY <1>9, PostedTypes DEF CentralAsks
    <2>2. ask'[r] = "posted" /\ \A s \in Asks \ {r} : ask'[s] = ask[s]
      BY <1>9 DEF CentralAsks, GattServerTypeOK
    <2>3. \A i \in 1..Len(callbacks) : callbacks[i][1] = "ask" => callbacks[i][2] \in Asks /\ callbacks[i][2] # r
      BY <2>1, CallbackNamed, CallbackNames
    <2>4. QED BY <2>1, <2>2, <2>3, CallbackPosted
  <1>10. ASSUME NEW r \in Asks, AppAnswers(r)
        PROVE  AskedOnce'
    <2>1. \A i \in 1..Len(callbacks) : callbacks[i][1] = "ask" => callbacks[i][2] \in Asks /\ callbacks[i][2] # r
      BY <1>10, CallbackNamed, CallbackNames DEF AppAnswers
    <2>2. UNCHANGED callbacks /\ \A s \in Asks \ {r} : ask'[s] = ask[s]
      BY <1>10 DEF AppAnswers, GattServerTypeOK
    <2>3. QED BY <2>1, <2>2
  <1>11. ASSUME NEW r \in Asks, TaskResponds(r)
        PROVE  AskedOnce'
    <2>1. \A i \in 1..Len(callbacks) : callbacks[i][1] = "ask" => callbacks[i][2] \in Asks /\ callbacks[i][2] # r
      BY <1>11, CallbackNamed, CallbackNames DEF TaskResponds
    <2>2. UNCHANGED callbacks /\ \A s \in Asks \ {r} : ask'[s] = ask[s]
      BY <1>11 DEF TaskResponds, GattServerTypeOK
    <2>3. QED BY <2>1, <2>2
  <1>12. CASE OnConnected
    <2>1. UNCHANGED ask /\ BinderRuns("up")
      BY <1>12 DEF OnConnected
    <2>2. QED BY <2>1, AskedOnceTaken
  <1>13. CASE OnDisconnected
    <2>1. UNCHANGED ask /\ BinderRuns("down")
      BY <1>13 DEF OnDisconnected
    <2>2. QED BY <2>1, AskedOnceTaken
  <1>14. CASE OnCccd
    <2>1. UNCHANGED ask /\ BinderRuns("cccd")
      BY <1>14 DEF OnCccd
    <2>2. QED BY <2>1, AskedOnceTaken
  <1>15. CASE OnStaticAsk
    <2>1. BinderRuns("ask") /\ Head(callbacks) \in CallbackTypes(generation)
      BY <1>15, CallbackTaken DEF OnStaticAsk
    <2>2. /\ Head(callbacks) = callbacks[1] /\ Head(callbacks)[1] = "ask"
          /\ Head(callbacks)[2] \in Asks
      BY <2>1, CallbackTaken, CallbackNames
    <2>3. \A s \in Asks \ {Head(callbacks)[2]} : ask'[s] = ask[s]
      BY <1>15 DEF OnStaticAsk, GattServerTypeOK
    <2>4. ASSUME NEW i \in 1..Len(callbacks'), callbacks'[i][1] = "ask"
          PROVE  ask'[callbacks'[i][2]] = "posted"
      <3>1. /\ i \in Nat /\ i >= 1 /\ i + 1 \in 1..Len(callbacks)
            /\ callbacks'[i] = callbacks[i + 1]
            /\ callbacks[i + 1] \in CallbackTypes(generation)
        BY <2>1, CallbackTaken, CallbackNamed
      <3>2. callbacks[i + 1][2] # Head(callbacks)[2]
        BY <2>1, <2>2, <2>4, <3>1, CallbackTaken
      <3>3. callbacks[i + 1][2] \in Asks
        BY <2>4, <3>1, CallbackNames
      <3>4. QED BY <2>3, <2>4, <3>1, <3>2, <3>3
    <2>5. QED BY <2>1, <2>4, AsksDistinctTaken
  <1>16. CASE OnAsk
    <2>1. BinderRuns("ask") /\ Head(callbacks) \in CallbackTypes(generation)
      BY <1>16, CallbackTaken DEF OnAsk
    <2>2. /\ Head(callbacks) = callbacks[1] /\ Head(callbacks)[1] = "ask"
          /\ Head(callbacks)[2] \in Asks
      BY <2>1, CallbackTaken, CallbackNames
    <2>3. \A s \in Asks \ {Head(callbacks)[2]} : ask'[s] = ask[s]
      BY <1>16 DEF OnAsk, GattServerTypeOK
    <2>4. ASSUME NEW i \in 1..Len(callbacks'), callbacks'[i][1] = "ask"
          PROVE  ask'[callbacks'[i][2]] = "posted"
      <3>1. /\ i \in Nat /\ i >= 1 /\ i + 1 \in 1..Len(callbacks)
            /\ callbacks'[i] = callbacks[i + 1]
            /\ callbacks[i + 1] \in CallbackTypes(generation)
        BY <2>1, CallbackTaken, CallbackNamed
      <3>2. callbacks[i + 1][2] # Head(callbacks)[2]
        BY <2>1, <2>2, <2>4, <3>1, CallbackTaken
      <3>3. callbacks[i + 1][2] \in Asks
        BY <2>4, <3>1, CallbackNames
      <3>4. QED BY <2>3, <2>4, <3>1, <3>2, <3>3
    <2>5. QED BY <2>1, <2>4, AsksDistinctTaken
  <1>17. CASE AdapterGoesOff
    <2>1. CASE Post(<<"down">>)
      BY SMTT(20), <1>17, <2>1, CallbackPosted, PostedTypes DEF AdapterGoesOff
    <2>2. CASE UNCHANGED callbacks
      BY <1>17, <2>2 DEF AdapterGoesOff
    <2>3. QED BY <1>17, <2>1, <2>2 DEF AdapterGoesOff
  <1>18. QED BY <1>1, <1>2, <1>3, <1>4, <1>5, <1>6, <1>7, <1>8, <1>9, <1>10, <1>11, <1>12,
                <1>13, <1>14, <1>15, <1>16, <1>17 DEF GattServerNext

\* When the binder thread comes to a request still waited for, the device is connected.
LEMMA AskHeardConnected ==
  ASSUME GattServerTypeOK, CentralOnServer, LinkHeard, AskedAfterUp, BinderRuns("ask")
  PROVE  /\ Head(callbacks)[2] \in Asks
         /\ Head(callbacks)[2] \in awaits => peerLinked /\ connectedTo /\ NoLossPosted
  <1>1. /\ 1 \in 1..Len(callbacks) /\ callbacks[1] = Head(callbacks)
        /\ callbacks[1][1] = "ask"
        /\ Head(callbacks) \in CallbackTypes(generation)
    BY CallbackTaken
  <1>2. Head(callbacks)[2] \in Asks
    BY <1>1, CallbackNames
  <1>3. ASSUME callbacks[1][2] \in awaits
        PROVE  peerLinked /\ connectedTo /\ NoLossPosted
    <2>1. peerLinked
      BY <1>3 DEF CentralOnServer
    <2>2. \A j \in 1..Len(callbacks) : callbacks[j][1] # "up"
      BY <1>1, <1>3 DEF AskedAfterUp
    <2>3. QED BY <2>1, <2>2 DEF LinkHeard
  <1>4. QED BY <1>1, <1>2, <1>3

\* A request under way is that of a connected device.
LEMMA AnswerGoesOutKept ==
  ASSUME RequestsInv, GattServerNext
  PROVE  AnswerGoesOut'
  <1> USE DEF RequestsInv, AnswerGoesOut, hostVars, stackSide, radioSide, peerSide, threads,
        toldVars, asks
  <1>1. ASSUME NEW a \in Adds,
             AddFindsBusy(a) \/ AddFindsNoServer(a) \/ AddTakesSlot(a) \/
             AddReachesStack(a) \/ AddRefused(a) \/ AddTimesOut(a) \/ AddFails(a) \/
             AddPublishes(a)
       PROVE  AnswerGoesOut'
    BY <1>1 DEF AddFindsBusy, AddReturns, NoLossPosted, AddFindsNoServer, AddTakesSlot,
       AddReachesStack, AddRefused, AddTimesOut, AddFails, AddPublishes
  <1>2. CASE BinderRemoves \/ BinderReportsGone \/ CccdUpdates \/ CccdReports \/
            ReceiverResets \/ ReceiverUnsubscribes \/ ReceiverReportsGone \/
            ReceiverReportsOff \/ AdapterComesOn
    BY <1>2 DEF BinderRemoves, NoLossPosted, BinderReportsGone, CccdUpdates, Writing,
       Orphaned, CccdReports, ReceiverResets, ReceiverUnsubscribes, ReceiverReportsGone,
       ReceiverReportsOff, AdapterComesOn
  <1>3. CASE StackAnswers
    <2>1. PICK one \in registering, ok \in BOOLEAN :
            /\ one[1] = handle
            /\ IF framework = NoAdd THEN UNCHANGED callbacks
               ELSE Post(<<"added", handle, IF ok THEN "success" ELSE "failure">>)
      BY <1>3 DEF StackAnswers
    <2>2. <<"added", handle, IF ok THEN "success" ELSE "failure">> \in CallbackTypes(generation)
      BY <2>1, AnswerTypes
    <2>3. NoLossPosted => NoLossPosted'
      BY <2>1, <2>2, LossNotPosted DEF NoLossPosted
    <2>4. QED BY <1>3, <2>3 DEF StackAnswers
  <1>4. CASE OnServiceAdded
    <2>1. NoLossPosted => NoLossPosted'
      BY <1>4, LossNotPosted DEF OnServiceAdded
    <2>2. QED BY <1>4, <2>1 DEF OnServiceAdded
  <1>5. CASE CentralConnects
    BY <1>5 DEF CentralConnects, CentralOnServer
  <1>6. CASE CentralDisconnects
    BY <1>6 DEF CentralDisconnects
  <1>7. CASE CentralWritesCccd
    <2>1. NoLossPosted => NoLossPosted'
      <3>1. PICK cb \in CallbackTypes(generation) : cb[1] # "down" /\ Post(cb)
        BY <1>7, PostedTypes DEF CentralWritesCccd
      <3>2. QED BY <3>1, LossNotPosted
    <2>2. QED BY <1>7, <2>1 DEF CentralWritesCccd
  <1>8. ASSUME NEW r \in Asks, CentralAsks(r)
       PROVE  AnswerGoesOut'
    <2>1. NoLossPosted => NoLossPosted'
      <3>1. PICK cb \in CallbackTypes(generation) : cb[1] # "down" /\ Post(cb)
        BY <1>8, PostedTypes DEF CentralAsks
      <3>2. QED BY <3>1, LossNotPosted
    <2>2. QED BY <1>8, <2>1 DEF CentralAsks, GattServerTypeOK
  <1>9. ASSUME NEW r \in Asks, AppAnswers(r)
       PROVE  AnswerGoesOut'
    <2>1. UNCHANGED <<connectedTo, callbacks>> /\ awaits' \subseteq awaits
      BY <1>9 DEF AppAnswers
    <2>2. awaits \subseteq Asks /\ \A s \in Asks \ {r} : ask'[s] = ask[s]
      BY <1>9 DEF AppAnswers, GattServerTypeOK
    <2>3. QED BY <1>9, <2>1, <2>2 DEF AppAnswers, NoLossPosted
  <1>10. ASSUME NEW r \in Asks, TaskResponds(r)
        PROVE  AnswerGoesOut'
    <2>1. UNCHANGED <<connectedTo, callbacks>> /\ awaits' \subseteq awaits
      BY <1>10 DEF TaskResponds
    <2>2. awaits \subseteq Asks /\ \A s \in Asks \ {r} : ask'[s] = ask[s]
      BY <1>10 DEF TaskResponds, GattServerTypeOK
    <2>3. QED BY <1>10, <2>1, <2>2 DEF TaskResponds, NoLossPosted
  <1>11. CASE OnConnected
    <2>1. NoLossPosted => NoLossPosted'
      BY <1>11, LossNotPosted DEF OnConnected
    <2>2. QED BY <1>11, <2>1 DEF OnConnected
  <1>12. CASE OnDisconnected
    <2>1. ~NoLossPosted
      BY <1>12, CallbackTaken DEF OnDisconnected, NoLossPosted
    <2>2. QED BY <1>12, <2>1 DEF OnDisconnected
  <1>13. CASE OnCccd
    <2>1. NoLossPosted => NoLossPosted'
      BY <1>13, LossNotPosted DEF OnCccd
    <2>2. QED BY <1>13, <2>1 DEF OnCccd
  <1>14. CASE OnStaticAsk
    <2>1. BinderRuns("ask") /\ UNCHANGED connectedTo /\ awaits' \subseteq awaits
      BY <1>14 DEF OnStaticAsk
    <2>2. NoLossPosted => NoLossPosted'
      BY <2>1, LossNotPosted
    <2>3. Head(callbacks)[2] \in Asks /\ (Head(callbacks)[2] \in awaits => connectedTo /\ NoLossPosted)
      BY <2>1, AskHeardConnected
    <2>4. \A s \in Asks \ {Head(callbacks)[2]} : ask'[s] = ask[s]
      BY <1>14, <2>3 DEF OnStaticAsk, GattServerTypeOK
    <2>5. awaits \subseteq Asks
      BY DEF GattServerTypeOK
    <2>6. QED BY <2>1, <2>2, <2>3, <2>4, <2>5
  <1>15. CASE OnAsk
    <2>1. BinderRuns("ask") /\ UNCHANGED connectedTo /\ awaits' \subseteq awaits
      BY <1>15 DEF OnAsk
    <2>2. NoLossPosted => NoLossPosted'
      BY <2>1, LossNotPosted
    <2>3. Head(callbacks)[2] \in Asks /\ (Head(callbacks)[2] \in awaits => connectedTo /\ NoLossPosted)
      BY <2>1, AskHeardConnected
    <2>4. \A s \in Asks \ {Head(callbacks)[2]} : ask'[s] = ask[s]
      BY <1>15, <2>3 DEF OnAsk, GattServerTypeOK
    <2>5. awaits \subseteq Asks
      BY DEF GattServerTypeOK
    <2>6. QED BY <2>1, <2>2, <2>3, <2>4, <2>5
  <1>16. CASE AdapterGoesOff
    BY <1>16 DEF AdapterGoesOff
  <1>17. CASE ReceiverTakesDevice
    <2>1. awaits' = {}
      BY <1>17 DEF ReceiverTakesDevice, CentralOnServer
    <2>2. QED BY <2>1
  <1>18. QED BY <1>1, <1>2, <1>3, <1>4, <1>5, <1>6, <1>7, <1>8, <1>9, <1>10, <1>11, <1>12,
                <1>13, <1>14, <1>15, <1>16, <1>17 DEF GattServerNext

\* Only whoever sends its response is done with a request.
LEMMA RequestsOwedKept ==
  ASSUME RequestsInv, GattServerNext
  PROVE  RequestsAreOwed'
  <1> USE DEF RequestsInv, RequestsAreOwed, hostVars, stackSide, radioSide, peerSide,
        threads, toldVars, asks
  <1>1. ASSUME NEW a \in Adds,
             AddFindsBusy(a) \/ AddFindsNoServer(a) \/ AddTakesSlot(a) \/
             AddReachesStack(a) \/ AddRefused(a) \/ AddTimesOut(a) \/ AddFails(a) \/
             AddPublishes(a)
       PROVE  RequestsAreOwed'
    BY <1>1 DEF AddFindsBusy, AddReturns, AddFindsNoServer, AddTakesSlot, AddReachesStack,
       AddRefused, AddTimesOut, AddFails, AddPublishes
  <1>2. CASE StackAnswers \/ OnServiceAdded \/ CentralConnects \/ CentralDisconnects
            \/ CentralWritesCccd \/ OnConnected \/ OnDisconnected
    BY <1>2 DEF StackAnswers, Post, OnServiceAdded, BinderRuns, CentralConnects,
       CentralDisconnects, CentralWritesCccd, OnConnected, OnDisconnected
  <1>3. CASE BinderRemoves \/ BinderReportsGone \/ OnCccd \/ CccdUpdates \/
            CccdReports \/ AdapterGoesOff \/ ReceiverResets
    BY <1>3 DEF BinderRemoves, BinderReportsGone, OnCccd, BinderRuns, Writing, CccdUpdates,
       Orphaned, CccdReports, AdapterGoesOff, Post, ReceiverResets
  <1>4. CASE ReceiverTakesDevice \/ ReceiverUnsubscribes \/ ReceiverReportsGone \/
            ReceiverReportsOff \/ AdapterComesOn
    BY <1>4 DEF ReceiverTakesDevice, ReceiverUnsubscribes, Writing, Orphaned,
       ReceiverReportsGone, ReceiverReportsOff, AdapterComesOn
  <1>5. ASSUME NEW r \in Asks,
             CentralAsks(r) \/ AppAnswers(r)
       PROVE  RequestsAreOwed'
    BY <1>5 DEF CentralAsks, GattServerTypeOK, AppAnswers
  <1>6. ASSUME NEW r \in Asks, TaskResponds(r)
       PROVE  RequestsAreOwed'
    <2>1. r \in awaits => connectedTo /\ handle # NoServer
      BY <1>6 DEF TaskResponds, AnswerGoesOut, CentralOnServer
    <2>2. QED BY <1>6, <2>1 DEF TaskResponds, GattServerTypeOK
  <1>7. CASE OnStaticAsk
    <2>1. /\ Head(callbacks)[2] \in Asks /\ awaits \subseteq Asks
          /\ Head(callbacks)[2] \in awaits => handle # NoServer
      BY <1>7, AskHeardConnected DEF OnStaticAsk, GattServerTypeOK, CentralOnServer
    <2>2. QED BY <1>7, <2>1 DEF OnStaticAsk, GattServerTypeOK
  <1>8. CASE OnAsk
    <2>1. Head(callbacks)[2] \in Asks /\ awaits \subseteq Asks
      BY <1>8, AskHeardConnected DEF OnAsk, GattServerTypeOK
    <2>2. QED BY <1>8, <2>1 DEF OnAsk, GattServerTypeOK
  <1>9. QED BY <1>1, <1>2, <1>3, <1>4, <1>5, <1>6, <1>7, <1>8 DEF GattServerNext

\* What the proofs below use of the types of the adds.
AddTypes ==
  /\ addPc \in [Adds -> {"idle", "slot", "waiting", "busy", "unavailable", "rejected",
                         "timedOut", "ok"}]
  /\ addStatus \in [Adds -> {"none", "success", "failure", "abandoned"}]
  /\ addedTo \in [Adds -> 0..generation] /\ generation \in Nat /\ handle \in 0..generation
  /\ pendingAdd \in Adds \cup {NoAdd}

\* The types of the additions, from those of the server.
LEMMA AddTypesGiven == GattServerTypeOK => AddTypes
  BY DEF GattServerTypeOK, AddTypes

\* A server is closed before the adapter is said to be off.
LEMMA HandleLivesKept ==
  ASSUME GattServerTypeOK, CentralOnServer, HandleLives, GattServerNext
  PROVE  HandleLives'
  <1> USE DEF HandleLives, CentralOnServer, NoServer, hostVars, stackSide, radioSide,
        peerSide, threads, toldVars, asks
  <1>1. ASSUME NEW a \in Adds,
             AddFindsBusy(a) \/ AddFindsNoServer(a) \/ AddReachesStack(a) \/
             AddRefused(a) \/ AddTimesOut(a) \/ AddFails(a) \/ AddPublishes(a)
       PROVE  HandleLives'
    BY <1>1 DEF AddFindsBusy, AddReturns, AddFindsNoServer, AddReachesStack, AddRefused,
       AddTimesOut, AddFails, AddPublishes
  <1>2. CASE StackAnswers \/ OnServiceAdded \/ CentralConnects \/ CentralDisconnects
            \/ CentralWritesCccd \/ OnConnected \/ OnDisconnected \/ BinderRemoves
            \/ BinderReportsGone
    BY <1>2 DEF StackAnswers, Post, OnServiceAdded, BinderRuns, CentralConnects,
       CentralDisconnects, CentralWritesCccd, OnConnected, OnDisconnected, BinderRemoves,
       BinderReportsGone
  <1>3. CASE OnCccd \/ CccdUpdates \/ CccdReports \/ OnStaticAsk \/ OnAsk \/
            ReceiverUnsubscribes \/ ReceiverReportsGone \/ ReceiverReportsOff
    BY <1>3 DEF OnCccd, BinderRuns, Writing, CccdUpdates, Orphaned, CccdReports,
       OnStaticAsk, OnAsk, ReceiverUnsubscribes, ReceiverReportsGone, ReceiverReportsOff
  <1>4. ASSUME NEW r \in Asks,
             CentralAsks(r) \/ AppAnswers(r) \/ TaskResponds(r)
       PROVE  HandleLives'
    BY <1>4 DEF CentralAsks, Post, AppAnswers, TaskResponds
  <1>5. ASSUME NEW a \in Adds, AddTakesSlot(a)
       PROVE  HandleLives'
    BY <1>5 DEF AddTakesSlot, AddReturns, GattServerTypeOK
  <1>6. CASE AdapterGoesOff
    BY <1>6 DEF AdapterGoesOff, Post
  <1>7. CASE ReceiverResets
    BY <1>7 DEF ReceiverResets
  <1>8. CASE ReceiverTakesDevice
    BY <1>8 DEF ReceiverTakesDevice
  <1>9. CASE AdapterComesOn
    BY <1>9 DEF AdapterComesOn
  <1>10. QED BY <1>1, <1>2, <1>3, <1>4, <1>5, <1>6, <1>7, <1>8, <1>9 DEF GattServerNext

\* An add under way holds the lock and, of an open server, the slot.
LEMMA AddHoldsKept ==
  ASSUME HostInv, GattServerNext
  PROVE  AddHolds'
  <1> USE GattServerAssumption DEF HostInv, AddTypes, AddHolds, NoServer, hostVars, stackSide,
        radioSide, peerSide, threads, toldVars, asks
  <1>1. CASE StackAnswers \/ CentralConnects \/ CentralDisconnects \/
            CentralWritesCccd \/ OnConnected \/ OnDisconnected \/ BinderRemoves
    BY <1>1 DEF StackAnswers, Post, CentralConnects, CentralDisconnects, CentralWritesCccd,
       OnConnected, BinderRuns, OnDisconnected, BinderRemoves
  <1>2. CASE BinderReportsGone \/ OnCccd \/ CccdUpdates \/ CccdReports \/ OnStaticAsk
            \/ OnAsk \/ AdapterGoesOff
    BY <1>2 DEF BinderReportsGone, OnCccd, BinderRuns, Writing, CccdUpdates, Orphaned,
       CccdReports, OnStaticAsk, OnAsk, AdapterGoesOff, Post
  <1>3. CASE ReceiverTakesDevice \/ ReceiverUnsubscribes \/ ReceiverReportsGone \/
            ReceiverReportsOff \/ AdapterComesOn
    BY <1>3 DEF ReceiverTakesDevice, ReceiverUnsubscribes, Writing, Orphaned,
       ReceiverReportsGone, ReceiverReportsOff, AdapterComesOn
  <1>4. ASSUME NEW r \in Asks,
             CentralAsks(r) \/ AppAnswers(r) \/ TaskResponds(r)
       PROVE  AddHolds'
    BY <1>4 DEF CentralAsks, Post, AppAnswers, TaskResponds
  <1>5. ASSUME NEW a \in Adds, AddFindsBusy(a)
       PROVE  AddHolds'
    <2>1. AddTypes
      BY AddTypesGiven
    <2>2. QED BY <1>5, <2>1 DEF AddFindsBusy, AddReturns
  <1>6. ASSUME NEW a \in Adds, AddFindsNoServer(a)
       PROVE  AddHolds'
    <2>1. AddTypes
      BY AddTypesGiven
    <2>2. QED BY <1>6, <2>1 DEF AddFindsNoServer, AddReturns
  <1>7. ASSUME NEW a \in Adds, AddTakesSlot(a)
       PROVE  AddHolds'
    <2>1. AddTypes
      BY AddTypesGiven
    <2>2. QED BY <1>7, <2>1 DEF AddTakesSlot, AddReturns
  <1>8. ASSUME NEW a \in Adds, AddReachesStack(a)
       PROVE  AddHolds'
    <2>1. AddTypes
      BY AddTypesGiven
    <2>2. QED BY <1>8, <2>1 DEF AddReachesStack, AddReturns
  <1>9. ASSUME NEW a \in Adds, AddRefused(a)
       PROVE  AddHolds'
    <2>1. AddTypes
      BY AddTypesGiven
    <2>2. QED BY <1>9, <2>1 DEF AddRefused, AddReturns
  <1>10. ASSUME NEW a \in Adds, AddTimesOut(a)
        PROVE  AddHolds'
    <2>1. AddTypes
      BY AddTypesGiven
    <2>2. QED BY <1>10, <2>1 DEF AddTimesOut, AddReturns
  <1>11. ASSUME NEW a \in Adds, AddFails(a)
        PROVE  AddHolds'
    <2>1. AddTypes
      BY AddTypesGiven
    <2>2. QED BY <1>11, <2>1 DEF AddFails, AddReturns
  <1>12. ASSUME NEW a \in Adds, AddPublishes(a)
        PROVE  AddHolds'
    <2>1. AddTypes
      BY AddTypesGiven
    <2>2. QED BY <1>12, <2>1 DEF AddPublishes, AddReturns
  <1>13. CASE OnServiceAdded
    <2>1. AddTypes
      BY AddTypesGiven
    <2>2. /\ Len(callbacks) \in Nat /\ 1 \in 1..Len(callbacks)
          /\ callbacks[1] = Head(callbacks)
          /\ callbacks[1][1] = "added" /\ callbacks[1][2] \in 1..generation
          /\ callbacks[1][3] \in {"success", "failure"} /\ BinderRuns("added")
      BY <1>13, CallbackTaken, CallbackNames DEF OnServiceAdded
    <2>3. callbacks[1][2] = generation => pendingAdd # NoAdd /\ addPc[pendingAdd] # "slot"
      BY <2>2 DEF AnswersPending, Answers
    <2>4. CASE callbacks[1][2] = generation
      <3>1. /\ pendingAdd' = NoAdd /\ UNCHANGED <<handle, adder, addPc, addedTo>>
            /\ \A a \in Adds \ {pendingAdd} : addStatus'[a] = addStatus[a]
        BY <1>13, <2>1, <2>2, <2>4 DEF OnServiceAdded
      <3>2. QED BY <2>1, <2>3, <2>4, <3>1
    <2>5. CASE callbacks[1][2] # generation
      BY <1>13, <2>2, <2>5 DEF OnServiceAdded
    <2>6. QED BY <2>4, <2>5
  <1>14. CASE ReceiverResets
    <2>1. AddTypes
      BY AddTypesGiven
    <2>2. QED BY <1>14, <2>1 DEF ReceiverResets
  <1>15. QED BY <1>1, <1>2, <1>3, <1>4, <1>5, <1>6, <1>7, <1>8, <1>9, <1>10, <1>11, <1>12,
                <1>13, <1>14 DEF GattServerNext

\* The stack works for the add that holds the slot.
LEMMA RegistersPendingKept ==
  ASSUME HostInv, GattServerNext
  PROVE  RegistersPending'
  <1> USE GattServerAssumption DEF HostInv, AddTypes, RegistersPending, hostVars, stackSide,
        radioSide, peerSide, threads, toldVars, asks
  <1>1. CASE CentralConnects \/ CentralDisconnects \/ CentralWritesCccd \/
            OnConnected \/ OnDisconnected \/ BinderRemoves \/ BinderReportsGone \/
            OnCccd \/ CccdUpdates
    BY <1>1 DEF CentralConnects, Post, CentralDisconnects, CentralWritesCccd, OnConnected,
       BinderRuns, OnDisconnected, BinderRemoves, BinderReportsGone, OnCccd, Writing,
       CccdUpdates, Orphaned
  <1>2. CASE CccdReports \/ OnStaticAsk \/ OnAsk \/ ReceiverResets \/
            ReceiverTakesDevice \/ ReceiverUnsubscribes \/ ReceiverReportsGone \/
            ReceiverReportsOff \/ AdapterComesOn
    BY <1>2 DEF CccdReports, OnStaticAsk, BinderRuns, OnAsk, ReceiverResets,
       CentralOnServer, ReceiverTakesDevice, ReceiverUnsubscribes, Writing, Orphaned,
       ReceiverReportsGone, ReceiverReportsOff, AdapterComesOn
  <1>3. ASSUME NEW r \in Asks,
             CentralAsks(r) \/ AppAnswers(r) \/ TaskResponds(r)
       PROVE  RegistersPending'
    BY <1>3 DEF CentralAsks, Post, AppAnswers, TaskResponds
  <1>4. ASSUME NEW a \in Adds, AddFindsBusy(a)
       PROVE  RegistersPending'
    <2>1. \A one \in registering : one[2] \in Adds /\ one[1] \in 1..generation
      BY DEF GattServerTypeOK, Registrations
    <2>2. AddTypes
      BY AddTypesGiven
    <2>3. QED BY <1>4, <2>1, <2>2 DEF AddFindsBusy, AddReturns
  <1>5. ASSUME NEW a \in Adds, AddFindsNoServer(a)
       PROVE  RegistersPending'
    <2>1. \A one \in registering : one[2] \in Adds /\ one[1] \in 1..generation
      BY DEF GattServerTypeOK, Registrations
    <2>2. AddTypes
      BY AddTypesGiven
    <2>3. QED BY <1>5, <2>1, <2>2 DEF AddFindsNoServer, AddReturns
  <1>6. ASSUME NEW a \in Adds, AddTakesSlot(a)
       PROVE  RegistersPending'
    <2>1. \A one \in registering : one[2] \in Adds /\ one[1] \in 1..generation
      BY DEF GattServerTypeOK, Registrations
    <2>2. AddTypes
      BY AddTypesGiven
    <2>3. registering' = {}
      BY <1>6, <2>1 DEF AddTakesSlot
    <2>4. QED BY <2>3
  <1>7. ASSUME NEW a \in Adds, AddReachesStack(a)
       PROVE  RegistersPending'
    <2>1. \A one \in registering : one[2] \in Adds /\ one[1] \in 1..generation
      BY DEF GattServerTypeOK, Registrations
    <2>2. AddTypes
      BY AddTypesGiven
    <2>3. handle = addedTo[a] => pendingAdd = a
      BY <1>7 DEF AddReachesStack, AddHolds
    <2>4. /\ UNCHANGED <<handle, pendingAdd>> /\ addPc'[a] = "waiting"
          /\ \A b \in Adds \ {a} : addPc'[b] = addPc[b]
          /\ \/ registering' = registering
             \/ handle = addedTo[a] /\ registering' = registering \cup {<<addedTo[a], a>>}
      BY <1>7, <2>2 DEF AddReachesStack, AddReturns
    <2>5. QED BY <2>1, <2>3, <2>4
  <1>8. ASSUME NEW a \in Adds, AddRefused(a)
       PROVE  RegistersPending'
    <2>1. \A one \in registering : one[2] \in Adds /\ one[1] \in 1..generation
      BY DEF GattServerTypeOK, Registrations
    <2>2. AddTypes
      BY AddTypesGiven
    <2>3. QED BY <1>8, <2>1, <2>2 DEF AddRefused, AddReturns
  <1>9. ASSUME NEW a \in Adds, AddTimesOut(a)
       PROVE  RegistersPending'
    <2>1. \A one \in registering : one[2] \in Adds /\ one[1] \in 1..generation
      BY DEF GattServerTypeOK, Registrations
    <2>2. AddTypes
      BY AddTypesGiven
    <2>3. QED BY <1>9, <2>1, <2>2 DEF AddTimesOut, AddReturns
  <1>10. ASSUME NEW a \in Adds, AddFails(a)
        PROVE  RegistersPending'
    <2>1. \A one \in registering : one[2] \in Adds /\ one[1] \in 1..generation
      BY DEF GattServerTypeOK, Registrations
    <2>2. AddTypes
      BY AddTypesGiven
    <2>3. QED BY <1>10, <2>1, <2>2 DEF AddFails, AddReturns
  <1>11. ASSUME NEW a \in Adds, AddPublishes(a)
        PROVE  RegistersPending'
    <2>1. \A one \in registering : one[2] \in Adds /\ one[1] \in 1..generation
      BY DEF GattServerTypeOK, Registrations
    <2>2. AddTypes
      BY AddTypesGiven
    <2>3. QED BY <1>11, <2>1, <2>2 DEF AddPublishes, AddReturns
  <1>12. CASE StackAnswers
    BY <1>12 DEF StackAnswers, Post
  <1>13. CASE OnServiceAdded
    <2>1. /\ Len(callbacks) \in Nat /\ 1 \in 1..Len(callbacks)
          /\ callbacks[1] = Head(callbacks)
          /\ callbacks[1][1] = "added" /\ callbacks[1][2] \in 1..generation
          /\ callbacks[1][3] \in {"success", "failure"} /\ BinderRuns("added")
      BY <1>13, CallbackTaken, CallbackNames DEF OnServiceAdded
    <2>2. callbacks[1][2] = generation => registering = {}
      BY <2>1 DEF AnswersPending, Answers
    <2>3. QED BY <1>13, <2>1, <2>2 DEF OnServiceAdded
  <1>14. CASE AdapterGoesOff
    BY <1>14 DEF AdapterGoesOff, Post
  <1>15. QED BY <1>1, <1>2, <1>3, <1>4, <1>5, <1>6, <1>7, <1>8, <1>9, <1>10, <1>11, <1>12,
                <1>13, <1>14 DEF GattServerNext

\* Only the add whose service the stack registered hears of success.
LEMMA PublishesOwnKept ==
  ASSUME HostInv, GattServerNext
  PROVE  PublishesOwn'
  <1> USE GattServerAssumption DEF HostInv, AddTypes, PublishesOwn, Resetting, CentralOnServer,
        NoServer, hostVars, stackSide, radioSide, peerSide, threads, toldVars, asks
  <1>1. CASE CentralConnects \/ CentralDisconnects \/ CentralWritesCccd \/
            OnConnected \/ OnDisconnected \/ BinderRemoves \/ BinderReportsGone \/
            OnCccd \/ CccdUpdates
    BY <1>1 DEF CentralConnects, Post, CentralDisconnects, CentralWritesCccd, OnConnected,
       BinderRuns, OnDisconnected, BinderRemoves, BinderReportsGone, OnCccd, Writing,
       CccdUpdates, Orphaned
  <1>2. CASE CccdReports \/ OnStaticAsk \/ OnAsk \/ ReceiverTakesDevice \/
            ReceiverUnsubscribes \/ ReceiverReportsGone \/ ReceiverReportsOff \/
            AdapterComesOn
    BY <1>2 DEF CccdReports, OnStaticAsk, BinderRuns, OnAsk, ReceiverTakesDevice,
       ReceiverUnsubscribes, Writing, Orphaned, ReceiverReportsGone, ReceiverReportsOff,
       AdapterComesOn
  <1>3. ASSUME NEW r \in Asks,
             CentralAsks(r) \/ AppAnswers(r) \/ TaskResponds(r)
       PROVE  PublishesOwn'
    BY <1>3 DEF CentralAsks, Post, AppAnswers, TaskResponds
  <1>4. ASSUME NEW a \in Adds, AddFindsBusy(a)
       PROVE  PublishesOwn'
    <2>1. AddTypes
      BY AddTypesGiven
    <2>2. QED BY <1>4, <2>1 DEF AddFindsBusy, AddReturns, AddHolds
  <1>5. ASSUME NEW a \in Adds, AddFindsNoServer(a)
       PROVE  PublishesOwn'
    <2>1. AddTypes
      BY AddTypesGiven
    <2>2. QED BY <1>5, <2>1 DEF AddFindsNoServer, AddReturns, AddHolds
  <1>6. ASSUME NEW a \in Adds, AddTakesSlot(a)
       PROVE  PublishesOwn'
    <2>1. AddTypes
      BY AddTypesGiven
    <2>2. QED BY <1>6, <2>1 DEF AddTakesSlot, AddReturns, AddHolds
  <1>7. ASSUME NEW a \in Adds, AddReachesStack(a)
       PROVE  PublishesOwn'
    <2>1. AddTypes
      BY AddTypesGiven
    <2>2. QED BY <1>7, <2>1 DEF AddReachesStack, AddReturns, AddHolds
  <1>8. ASSUME NEW a \in Adds, AddRefused(a)
       PROVE  PublishesOwn'
    <2>1. AddTypes
      BY AddTypesGiven
    <2>2. QED BY <1>8, <2>1 DEF AddRefused, AddReturns, AddHolds
  <1>9. ASSUME NEW a \in Adds, AddTimesOut(a)
       PROVE  PublishesOwn'
    <2>1. AddTypes
      BY AddTypesGiven
    <2>2. QED BY <1>9, <2>1 DEF AddTimesOut, AddReturns, AddHolds
  <1>10. ASSUME NEW a \in Adds, AddFails(a)
        PROVE  PublishesOwn'
    <2>1. AddTypes
      BY AddTypesGiven
    <2>2. QED BY <1>10, <2>1 DEF AddFails, AddReturns, AddHolds
  <1>11. ASSUME NEW a \in Adds, AddPublishes(a)
        PROVE  PublishesOwn'
    <2>1. AddTypes
      BY AddTypesGiven
    <2>2. QED BY <1>11, <2>1 DEF AddPublishes, AddReturns, AddHolds
  <1>12. CASE StackAnswers
    BY <1>12 DEF StackAnswers, Post
  <1>13. CASE OnServiceAdded
    <2>1. AddTypes
      BY AddTypesGiven
    <2>2. /\ Len(callbacks) \in Nat /\ 1 \in 1..Len(callbacks)
          /\ callbacks[1] = Head(callbacks)
          /\ callbacks[1][1] = "added" /\ callbacks[1][2] \in 1..generation
          /\ callbacks[1][3] \in {"success", "failure"} /\ BinderRuns("added")
      BY <1>13, CallbackTaken, CallbackNames DEF OnServiceAdded
    <2>3. callbacks[1][2] = generation /\ callbacks[1][3] = "success" =>
            <<handle, pendingAdd>> \in onStack \/ Resetting
      BY <2>2 DEF AnswersPending, Answers
    <2>4. CASE callbacks[1][2] = generation
      <3>1. /\ UNCHANGED <<handle, addPc, addedTo, onStack, radio, receiverAt>>
            /\ pendingAdd # NoAdd => addStatus'[pendingAdd] = callbacks[1][3]
            /\ \A a \in Adds \ {pendingAdd} : addStatus'[a] = addStatus[a]
        BY <1>13, <2>1, <2>2, <2>4 DEF OnServiceAdded
      <3>2. QED BY <2>1, <2>3, <2>4, <3>1 DEF Resetting
    <2>5. CASE callbacks[1][2] # generation
      BY <1>13, <2>2, <2>5 DEF OnServiceAdded, Resetting
    <2>6. QED BY <2>4, <2>5
  <1>14. CASE AdapterGoesOff
    BY <1>14 DEF AdapterGoesOff, Post
  <1>15. CASE ReceiverResets
    <2>1. AddTypes
      BY AddTypesGiven
    <2>2. QED BY <1>15, <2>1 DEF ReceiverResets, AddHolds
  <1>16. QED BY <1>1, <1>2, <1>3, <1>4, <1>5, <1>6, <1>7, <1>8, <1>9, <1>10, <1>11, <1>12,
                <1>13, <1>14, <1>15 DEF GattServerNext

\* A service is published into the table of the server it is on.
LEMMA TableServedKept ==
  ASSUME HostInv, GattServerNext
  PROVE  TableIsServed'
  <1> USE DEF HostInv, TableIsServed, CentralOnServer, hostVars, stackSide, radioSide,
        peerSide, threads, toldVars, asks
  <1>1. ASSUME NEW a \in Adds,
             AddFindsBusy(a) \/ AddFindsNoServer(a) \/ AddReachesStack(a) \/
             AddRefused(a) \/ AddTimesOut(a) \/ AddFails(a)
       PROVE  TableIsServed'
    BY <1>1 DEF AddFindsBusy, AddReturns, AddFindsNoServer, AddReachesStack, AddRefused,
       AddTimesOut, AddFails
  <1>2. CASE OnServiceAdded \/ CentralConnects \/ CentralDisconnects \/
            CentralWritesCccd \/ OnConnected \/ OnDisconnected \/ BinderRemoves \/
            BinderReportsGone \/ OnCccd
    BY <1>2 DEF OnServiceAdded, BinderRuns, CentralConnects, Post, CentralDisconnects,
       CentralWritesCccd, OnConnected, OnDisconnected, BinderRemoves, BinderReportsGone,
       OnCccd, Writing
  <1>3. CASE CccdUpdates \/ CccdReports \/ OnStaticAsk \/ OnAsk \/
            ReceiverTakesDevice \/ ReceiverUnsubscribes \/ ReceiverReportsGone \/
            ReceiverReportsOff
    BY <1>3 DEF CccdUpdates, Writing, Orphaned, CccdReports, OnStaticAsk, BinderRuns, OnAsk,
       ReceiverTakesDevice, ReceiverUnsubscribes, ReceiverReportsGone, ReceiverReportsOff
  <1>4. ASSUME NEW r \in Asks,
             CentralAsks(r) \/ AppAnswers(r) \/ TaskResponds(r)
       PROVE  TableIsServed'
    BY <1>4 DEF CentralAsks, Post, AppAnswers, TaskResponds
  <1>5. ASSUME NEW a \in Adds, AddTakesSlot(a)
       PROVE  TableIsServed'
    <2>1. \A one \in onStack : one[1] \in 1..generation
      BY DEF GattServerTypeOK, Registrations
    <2>2. ASSUME handle = NoServer, radio, NEW b \in table
          PROVE  FALSE
      <3>1. <<handle, b>> \in onStack
        BY <2>2
      <3>2. <<handle, b>>[1] \in 1..generation
        BY <2>1, <3>1
      <3>3. QED BY <2>2, <3>2 DEF NoServer
    <2>3. QED BY <1>5, <2>2 DEF AddTakesSlot
  <1>6. ASSUME NEW a \in Adds, AddPublishes(a)
       PROVE  TableIsServed'
    <2>1. /\ addPc[a] = "waiting" /\ addStatus[a] = "success"
          /\ UNCHANGED <<handle, onStack, radio, receiverAt>>
      BY <1>6 DEF AddPublishes
    <2>2. handle = addedTo[a] => <<handle, a>> \in onStack \/ Resetting
      BY <2>1 DEF PublishesOwn
    <2>3. table' = table \/ (handle = addedTo[a] /\ table' = table \cup {a})
      BY <1>6 DEF AddPublishes
    <2>4. QED BY <2>1, <2>2, <2>3 DEF Resetting
  <1>7. CASE StackAnswers
    BY <1>7 DEF StackAnswers, Post
  <1>8. CASE AdapterGoesOff
    BY <1>8 DEF AdapterGoesOff, Post
  <1>9. CASE ReceiverResets
    BY <1>9 DEF ReceiverResets
  <1>10. CASE AdapterComesOn
    BY <1>10 DEF AdapterComesOn
  <1>11. QED BY <1>1, <1>2, <1>3, <1>4, <1>5, <1>6, <1>7, <1>8, <1>9, <1>10 DEF
                GattServerNext

\* An answer on its way stays the only one when another callback is taken or posted.
LEMMA AnswersTaken ==
  ASSUME GattServerTypeOK, AnswersPending, NEW kind, BinderRuns(kind),
         UNCHANGED <<hostVars, stackSide, radio, receiverAt>>
  PROVE  AnswersPending'
  <1>1. ASSUME NEW i \in 1..Len(callbacks'), Answers(i)'
        PROVE  i \in Nat /\ i + 1 \in 1..Len(callbacks) /\ Answers(i + 1) /\ callbacks'[i] = callbacks[i + 1]
    BY <1>1, CallbackTaken DEF Answers, hostVars
  <1>2. \A i, j \in 1..Len(callbacks') : Answers(i)' /\ Answers(j)' => i = j
    <2>1. ASSUME NEW i \in 1..Len(callbacks'), NEW j \in 1..Len(callbacks'), Answers(i)',
                 Answers(j)'
          PROVE  i = j
      <3>1. i + 1 = j + 1
        BY <1>1, <2>1 DEF AnswersPending
      <3>2. QED BY <1>1, <2>1, <3>1
    <2>2. QED BY <2>1
  <1>3. QED BY <1>1, <1>2 DEF AnswersPending, Resetting, hostVars, stackSide

\* Posting a callback that answers no addition.
LEMMA AnswersPosted ==
  ASSUME GattServerTypeOK, AnswersPending, NEW cb \in CallbackTypes(generation), Post(cb),
         cb[1] # "added", UNCHANGED hostVars,
         \/ UNCHANGED <<stackSide, radio, receiverAt>>
         \/ registering' = {} /\ Resetting'
  PROVE  AnswersPending'
  <1>1. ASSUME NEW i \in 1..Len(callbacks'), Answers(i)'
        PROVE  i \in 1..Len(callbacks) /\ Answers(i) /\ callbacks'[i] = callbacks[i]
    BY <1>1, CallbackPosted DEF Answers, hostVars
  <1>2. QED BY <1>1 DEF AnswersPending, Resetting, hostVars, stackSide

\* One answer at a time is on its way, for the add that holds the slot.
LEMMA AnswersPendingKept ==
  ASSUME HostInv, GattServerNext
  PROVE  AnswersPending'
  <1> USE GattServerAssumption DEF HostInv, AddTypes, AnswersPending, hostVars, stackSide, radioSide,
        peerSide, threads, toldVars, asks
  <1>1. ASSUME NEW r \in Asks,
             AppAnswers(r) \/ TaskResponds(r)
       PROVE  AnswersPending'
    BY <1>1 DEF AppAnswers, Answers, Resetting, CentralOnServer, TaskResponds
  <1>2. CASE BinderRemoves \/ BinderReportsGone \/ CccdUpdates \/ CccdReports \/
            ReceiverTakesDevice \/ ReceiverUnsubscribes \/ ReceiverReportsGone \/
            ReceiverReportsOff
    BY SMTT(20), <1>2
    DEF BinderRemoves, Answers, Resetting, CentralOnServer, BinderReportsGone,
       CccdUpdates, Writing, Orphaned, CccdReports, ReceiverTakesDevice,
       ReceiverUnsubscribes, ReceiverReportsGone, ReceiverReportsOff
  <1>3. ASSUME NEW a \in Adds, AddFindsBusy(a)
       PROVE  AnswersPending'
    <2>1. AddTypes
      BY AddTypesGiven
    <2>2. QED BY <1>3, <2>1 DEF AddFindsBusy, AddReturns, Resetting, Answers
  <1>4. ASSUME NEW a \in Adds, AddFindsNoServer(a)
       PROVE  AnswersPending'
    <2>1. AddTypes
      BY AddTypesGiven
    <2>2. QED BY <1>4, <2>1 DEF AddFindsNoServer, AddReturns, Resetting, Answers
  <1>5. ASSUME NEW a \in Adds, AddTakesSlot(a)
       PROVE  AnswersPending'
    <2>1. AddTypes
      BY AddTypesGiven
    <2>2. ASSUME NEW i \in 1..Len(callbacks)
          PROVE  callbacks[i][1] = "added" => callbacks[i][2] \in 1..generation
      BY CallbackNamed, CallbackNames
    <2>3. \A i \in 1..Len(callbacks) : ~Answers(i)
      BY <1>5, <2>1 DEF AddTakesSlot
    <2>4. /\ generation' \in {generation, generation + 1} /\ callbacks' = callbacks
          /\ generation \in Nat
      BY <1>5 DEF AddTakesSlot, GattServerTypeOK
    <2>5. \A i \in 1..Len(callbacks') : ~Answers(i)'
      BY <2>2, <2>3, <2>4 DEF Answers
    <2>6. QED BY <2>5
  <1>6. ASSUME NEW a \in Adds, AddReachesStack(a)
       PROVE  AnswersPending'
    <2>1. AddTypes
      BY AddTypesGiven
    <2>2. handle = addedTo[a] => \A i \in 1..Len(callbacks) : ~Answers(i)
      BY <1>6 DEF AddReachesStack, AddHolds
    <2>3. /\ UNCHANGED <<handle, generation, pendingAdd, onStack, radio, receiverAt, callbacks>>
          /\ \A b \in Adds : addPc'[b] = "slot" => addPc[b] = "slot"
          /\ registering' = registering \/ handle = addedTo[a]
      BY <1>6, <2>1 DEF AddReachesStack, AddReturns
    <2>4. QED BY <2>1, <2>2, <2>3 DEF Answers, Resetting
  <1>7. ASSUME NEW a \in Adds, AddRefused(a)
       PROVE  AnswersPending'
    <2>1. AddTypes
      BY AddTypesGiven
    <2>2. pendingAdd = a => \A i \in 1..Len(callbacks) : ~Answers(i)
      BY <1>7 DEF AddRefused
    <2>3. /\ UNCHANGED <<handle, generation, onStack, registering, radio, receiverAt, callbacks>>
          /\ \A b \in Adds : addPc'[b] = "slot" => addPc[b] = "slot"
          /\ pendingAdd' = pendingAdd \/ pendingAdd = a
      BY <1>7, <2>1 DEF AddRefused, AddReturns
    <2>4. QED BY <2>1, <2>2, <2>3 DEF Answers, Resetting
  <1>8. ASSUME NEW a \in Adds, AddTimesOut(a)
       PROVE  AnswersPending'
    <2>1. AddTypes
      BY AddTypesGiven
    <2>2. QED BY <1>8, <2>1 DEF AddTimesOut, AddReturns, Resetting, Answers
  <1>9. ASSUME NEW a \in Adds, AddFails(a)
       PROVE  AnswersPending'
    <2>1. AddTypes
      BY AddTypesGiven
    <2>2. QED BY <1>9, <2>1 DEF AddFails, AddReturns, Resetting, Answers
  <1>10. ASSUME NEW a \in Adds, AddPublishes(a)
        PROVE  AnswersPending'
    <2>1. AddTypes
      BY AddTypesGiven
    <2>2. QED BY <1>10, <2>1 DEF AddPublishes, AddReturns, Resetting, Answers
  <1>11. CASE StackAnswers
    <2>1. PICK one \in registering, ok \in BOOLEAN :
            /\ registering' = registering \ {one}
            /\ onStack' = IF ok THEN onStack \cup {one} ELSE onStack
            /\ one[1] = handle
            /\ IF framework = NoAdd THEN UNCHANGED callbacks
               ELSE Post(<<"added", handle, IF ok THEN "success" ELSE "failure">>)
      BY <1>11 DEF StackAnswers
    <2>2. \A other \in registering : /\ other = <<other[1], other[2]>> /\ other[2] \in Adds
                                     /\ other[1] \in 1..generation
      BY DEF GattServerTypeOK, Registrations
    <2>3. /\ one = <<handle, pendingAdd>> /\ registering' = {} /\ pendingAdd # NoAdd
          /\ addPc[pendingAdd] # "slot"
      BY <2>1, <2>2, GattServerAssumption DEF RegistersPending
    <2>4. handle = generation /\ generation \in Nat
      BY <2>1, <2>2 DEF HandleLives, NoServer, GattServerTypeOK
    <2>5. \A i \in 1..Len(callbacks) : ~Answers(i)
      BY <2>1
    <2>6. UNCHANGED hostVars
      BY <1>11 DEF StackAnswers
    <2>7. CASE UNCHANGED callbacks
      BY <2>5, <2>6, <2>7 DEF Answers
    <2>8. ASSUME Post(<<"added", handle, IF ok THEN "success" ELSE "failure">>)
          PROVE  AnswersPending'
      <3>1. <<"added", handle, IF ok THEN "success" ELSE "failure">> \in CallbackTypes(generation)
        BY <2>1, AnswerTypes
      <3>2. \A i \in 1..Len(callbacks') : Answers(i)' =>
              /\ i = Len(callbacks')
              /\ callbacks'[i] = <<"added", handle, IF ok THEN "success" ELSE "failure">>
        BY <2>5, <2>6, <2>8, <3>1, CallbackPosted DEF Answers
      <3>3. \A i \in 1..Len(callbacks') : Answers(i)' =>
              (callbacks'[i][3] = "success" => <<handle, pendingAdd>> \in onStack')
        BY <2>1, <2>3, <3>2
      <3>4. QED BY <2>3, <2>6, <3>2, <3>3
    <2>9. QED BY <2>1, <2>7, <2>8
  <1>12. CASE OnServiceAdded
    <2>1. /\ Len(callbacks) \in Nat /\ 1 \in 1..Len(callbacks)
          /\ callbacks[1] = Head(callbacks)
          /\ callbacks[1][1] = "added" /\ callbacks[1][2] \in 1..generation
          /\ BinderRuns("added")
      BY <1>12, CallbackTaken, CallbackNames DEF OnServiceAdded
    <2>2. CASE callbacks[1][2] = generation
      <3>1. ASSUME NEW i \in 1..Len(callbacks'), Answers(i)'
            PROVE  FALSE
        <4>1. /\ i \in Nat /\ i + 1 \in 1..Len(callbacks)
              /\ callbacks'[i] = callbacks[i + 1] /\ i >= 1
          BY <2>1, CallbackTaken
        <4>2. generation' = generation
          BY <1>12 DEF OnServiceAdded
        <4>3. Answers(i + 1) /\ Answers(1)
          BY <2>1, <2>2, <3>1, <4>1, <4>2 DEF Answers
        <4>4. i + 1 = 1
          BY <2>1, <4>1, <4>3
        <4>5. QED BY <4>1, <4>4
      <3>2. QED BY <3>1
    <2>3. CASE callbacks[1][2] # generation
      <3>1. UNCHANGED <<hostVars, stackSide, radio, receiverAt>>
        BY <1>12, <2>1, <2>3 DEF OnServiceAdded
      <3>2. QED BY <2>1, <3>1, AnswersTaken
    <2>4. QED BY <2>2, <2>3
  <1>13. CASE CentralConnects
    <2>1. /\ \E cb \in CallbackTypes(generation) : cb[1] # "added" /\ Post(cb)
          /\ UNCHANGED <<hostVars, stackSide, radio, receiverAt>>
      BY <1>13, PostedTypes DEF CentralConnects
    <2>2. QED BY <2>1, AnswersPosted
  <1>14. CASE CentralDisconnects
    <2>1. /\ \E cb \in CallbackTypes(generation) : cb[1] # "added" /\ Post(cb)
          /\ UNCHANGED <<hostVars, stackSide, radio, receiverAt>>
      BY <1>14, PostedTypes DEF CentralDisconnects
    <2>2. QED BY <2>1, AnswersPosted
  <1>15. CASE CentralWritesCccd
    <2>1. /\ \E cb \in CallbackTypes(generation) : cb[1] # "added" /\ Post(cb)
          /\ UNCHANGED <<hostVars, stackSide, radio, receiverAt>>
      BY <1>15, PostedTypes DEF CentralWritesCccd
    <2>2. QED BY <2>1, AnswersPosted
  <1>16. ASSUME NEW r \in Asks, CentralAsks(r)
        PROVE  AnswersPending'
    <2>1. /\ \E cb \in CallbackTypes(generation) : cb[1] # "added" /\ Post(cb)
          /\ UNCHANGED <<hostVars, stackSide, radio, receiverAt>>
      BY <1>16, PostedTypes DEF CentralAsks
    <2>2. QED BY <2>1, AnswersPosted
  <1>17. CASE OnConnected
    <2>1. BinderRuns("up") /\ UNCHANGED <<hostVars, stackSide, radio, receiverAt>>
      BY <1>17 DEF OnConnected
    <2>2. QED BY <2>1, AnswersTaken
  <1>18. CASE OnDisconnected
    <2>1. BinderRuns("down") /\ UNCHANGED <<hostVars, stackSide, radio, receiverAt>>
      BY <1>18 DEF OnDisconnected
    <2>2. QED BY <2>1, AnswersTaken
  <1>19. CASE OnCccd
    <2>1. BinderRuns("cccd") /\ UNCHANGED <<hostVars, stackSide, radio, receiverAt>>
      BY <1>19 DEF OnCccd
    <2>2. QED BY <2>1, AnswersTaken
  <1>20. CASE OnStaticAsk
    <2>1. BinderRuns("ask") /\ UNCHANGED <<hostVars, stackSide, radio, receiverAt>>
      BY <1>20 DEF OnStaticAsk
    <2>2. QED BY <2>1, AnswersTaken
  <1>21. CASE OnAsk
    <2>1. BinderRuns("ask") /\ UNCHANGED <<hostVars, stackSide, radio, receiverAt>>
      BY <1>21 DEF OnAsk
    <2>2. QED BY <2>1, AnswersTaken
  <1>22. CASE AdapterGoesOff
    <2>1. UNCHANGED hostVars /\ registering' = {} /\ Resetting'
      BY <1>22 DEF AdapterGoesOff, Resetting
    <2>2. CASE Post(<<"down">>)
      <3>1. <<"down">> \in CallbackTypes(generation) /\ <<"down">>[1] # "added"
        BY PostedTypes
      <3>2. QED BY <2>1, <2>2, <3>1, AnswersPosted
    <2>3. CASE UNCHANGED callbacks
      BY <2>1, <2>3 DEF Answers
    <2>4. QED BY <1>22, <2>2, <2>3 DEF AdapterGoesOff
  <1>23. CASE ReceiverResets
    <2>1. AddTypes
      BY AddTypesGiven
    <2>2. ASSUME NEW i \in 1..Len(callbacks)
          PROVE  callbacks[i][1] = "added" => callbacks[i][2] \in 1..generation
      BY CallbackNamed, CallbackNames
    <2>3. generation' = generation + 1 /\ callbacks' = callbacks /\ generation \in Nat
      BY <1>23 DEF ReceiverResets, GattServerTypeOK
    <2>4. \A i \in 1..Len(callbacks') : ~Answers(i)'
      BY <2>2, <2>3 DEF Answers
    <2>5. QED BY <2>4
  <1>24. CASE AdapterComesOn
    BY <1>24 DEF AdapterComesOn, Answers, Resetting, CentralOnServer
  <1>25. QED BY <1>1, <1>2, <1>3, <1>4, <1>5, <1>6, <1>7, <1>8, <1>9, <1>10, <1>11, <1>12,
                <1>13, <1>14, <1>15, <1>16, <1>17, <1>18, <1>19, <1>20, <1>21, <1>22, <1>23,
                <1>24 DEF GattServerNext

\* The two invariants of the server, together: the types rest on the second.
ServerInv == RequestsInv /\ HostInv

\* No server, no addition, no request.
LEMMA ServerInit ==
  ASSUME GattServerInit
  PROVE  ServerInv
  <1>1. callbacks = << >> /\ << >> \in Seq(CallbackTypes(generation)) /\ Len(callbacks) = 0
    BY DEF GattServerInit
  <1>2. ServerTypes
    <2>1. /\ addPc \in [Adds -> {"idle", "slot", "waiting", "busy", "unavailable", "rejected",
                                 "timedOut", "ok"}]
          /\ addedTo \in [Adds -> 0..generation]
          /\ addStatus \in [Adds -> {"none", "success", "failure", "abandoned"}]
      BY DEF GattServerInit, NoServer
    <2>2. /\ registering \subseteq Registrations(generation)
          /\ onStack \subseteq Registrations(generation)
      BY DEF GattServerInit
    <2>3. QED BY <1>1, <2>1, <2>2 DEF GattServerInit, ServerTypes, NoServer
  <1>3. LinkTypes
    <2>1. ask \in [Asks -> {"none", "posted", "asked", "answered", "refused", "done"}]
      BY DEF GattServerInit
    <2>2. powerOffs \in 0..MaxOffs /\ linkEvents \in 0..MaxEvents
      BY GattServerAssumption DEF GattServerInit
    <2>3. QED BY <2>1, <2>2 DEF GattServerInit, LinkTypes
  <1>4. /\ CentralOnServer /\ LinkHeard /\ AskedAfterUp /\ AskedOnce /\ AnswerGoesOut
        /\ RequestsAreOwed
    BY <1>1 DEF GattServerInit, CentralOnServer, LinkHeard, AskedAfterUp, AskedOnce,
       AnswerGoesOut,
                RequestsAreOwed
  <1>5. /\ HandleLives /\ AddHolds /\ RegistersPending /\ AnswersPending /\ PublishesOwn
        /\ TableIsServed
    BY <1>1, GattServerAssumption
       DEF GattServerInit, HandleLives, AddHolds, RegistersPending, AnswersPending, PublishesOwn,
           TableIsServed, NoServer
  <1>6. QED BY <1>2, <1>3, <1>4, <1>5, TypesInParts DEF ServerInv, RequestsInv, HostInv

\* The parts together.
LEMMA ServerStep ==
  ASSUME ServerInv, GattServerNext
  PROVE  ServerInv'
  <1>1. ServerTypes /\ LinkTypes
    BY TypesInParts DEF ServerInv, RequestsInv
  <1>2. ServerTypes' /\ LinkTypes'
    BY <1>1, ServerTypesKept, LinkTypesKept DEF ServerInv, RequestsInv, HostInv
  <1>3. GattServerTypeOK'
    BY <1>2 DEF GattServerTypeOK, ServerTypes, LinkTypes
  <1>4. /\ CentralOnServer' /\ LinkHeard' /\ AskedAfterUp' /\ AskedOnce' /\ AnswerGoesOut'
        /\ RequestsAreOwed'
    BY CentralOnServerKept, LinkHeardKept, AskedAfterUpKept, AskedOnceKept,
       AnswerGoesOutKept,
       RequestsOwedKept DEF ServerInv, RequestsInv
  <1>5. /\ HandleLives' /\ AddHolds' /\ RegistersPending' /\ AnswersPending'
        /\ PublishesOwn'
        /\ TableIsServed'
    BY HandleLivesKept, AddHoldsKept, RegistersPendingKept, AnswersPendingKept,
       PublishesOwnKept,
       TableServedKept DEF ServerInv, HostInv
  <1>6. QED BY <1>3, <1>4, <1>5 DEF ServerInv, RequestsInv, HostInv

\* It is an invariant.
LEMMA ServerInvAlways == GattServerSpec => []ServerInv
  <1>1. GattServerInit => ServerInv
    BY ServerInit
  <1>2. ServerInv /\ [GattServerNext]_gattServerVars => ServerInv'
    <2>1. ASSUME ServerInv, UNCHANGED gattServerVars
          PROVE  ServerInv'
      <3>1. UNCHANGED <<hostVars, stackSide, radioSide, peerSide, callbacks, threads, toldVars, asks>>
        BY <2>1 DEF gattServerVars
      <3>2. GattServerTypeOK'
        BY <2>1, <3>1 DEF ServerInv, RequestsInv, GattServerTypeOK, hostVars, stackSide,
           radioSide,
                          peerSide, threads, toldVars, asks
      <3>3. /\ CentralOnServer' /\ LinkHeard' /\ AskedAfterUp' /\ AskedOnce'
            /\ AnswerGoesOut'
            /\ RequestsAreOwed'
        BY <2>1, <3>1 DEF ServerInv, RequestsInv, CentralOnServer, LinkHeard, AskedAfterUp,
           AskedOnce,
             AnswerGoesOut, RequestsAreOwed, NoLossPosted, hostVars, stackSide, radioSide, peerSide,
             threads, asks
      <3>4. /\ HandleLives' /\ AddHolds' /\ RegistersPending' /\ AnswersPending'
            /\ PublishesOwn'
            /\ TableIsServed'
        BY <2>1, <3>1 DEF ServerInv, HostInv, HandleLives, AddHolds, RegistersPending,
           AnswersPending,
             PublishesOwn, TableIsServed, Answers, Resetting, hostVars, stackSide, radioSide, threads
      <3>5. QED BY <3>2, <3>3, <3>4 DEF ServerInv, RequestsInv, HostInv
    <2>2. QED BY <2>1, ServerStep
  <1>3. QED BY <1>1, <1>2, PTL DEF GattServerSpec

\* The types of the GATT server's state.
THEOREM GattServerTypeCorrect == GattServerSpec => []GattServerTypeOK
  <1>1. ServerInv => GattServerTypeOK
    BY DEF ServerInv, HostInv
  <1>2. QED BY <1>1, ServerInvAlways, PTL

\* A service is served only by the server whose stack registered it: a late callback,
\* of a closed server or of an add that gave up, publishes nothing (GattServerHost.kt).
THEOREM TableAlwaysServed == GattServerSpec => []TableIsServed
  <1>1. ServerInv => TableIsServed
    BY DEF ServerInv, HostInv
  <1>2. QED BY <1>1, ServerInvAlways, PTL

\* A central that waits for a response is owed one, whatever its link, the adapter and
\* the application do meanwhile (BlePeripheralManager.kt, jni_hooks.rs).
THEOREM RequestsAlwaysOwed == GattServerSpec => []RequestsAreOwed
  <1>1. ServerInv => RequestsAreOwed
    BY DEF ServerInv, RequestsInv
  <1>2. QED BY <1>1, ServerInvAlways, PTL

(***************************************************************************)
(* The mock link.                                                          *)
(***************************************************************************)

MockInv == MockTypeOK /\ SubscribedIsConnected

\* Whatever takes the connection down takes the subscription.
LEMMA MockStep ==
  ASSUME MockInv, MockNext
  PROVE  MockInv'
  <1> USE MockAssumption DEF MockInv, MockTypeOK, SubscribedIsConnected, mockLink,
        powerVars, requestVars, channelVars
  <1>1. CASE MockConnect
    BY <1>1 DEF MockConnect, Toggle
  <1>2. CASE MockDisconnect
    BY <1>2 DEF MockDisconnect
  <1>3. CASE PowersOff
    <2>1. toggles' \in 0..MaxToggles
      BY <1>3 DEF PowersOff, Toggle
    <2>2. QED BY <1>3, <2>1 DEF PowersOff
  <1>4. CASE PowerTakesDown
    <2>1. \A l \in Listeners : Append(accepted[l], "unpowered") \in Seq(Dials \cup {"unpowered"})
      OBVIOUS
    <2>2. accepted' \in [Listeners -> Seq(Dials \cup {"unpowered"})]
      BY <1>4, <2>1 DEF PowerTakesDown
    <2>3. QED BY <1>4, <2>2 DEF PowerTakesDown
  <1>5. CASE PowersOn
    BY <1>5 DEF PowersOn
  <1>6. CASE AddChecks
    BY <1>6 DEF AddChecks, Toggle
  <1>7. CASE AddServes
    BY <1>7 DEF AddServes
  <1>8. CASE MockNotify
    BY <1>8 DEF MockNotify
  <1>9. CASE AppTakes
    <2>1. Head(inRequests) \in Reads /\ Tail(inRequests) \in Seq(Reads)
      BY <1>9 DEF AppTakes
    <2>2. QED BY <1>9, <2>1 DEF AppTakes
  <1>10. CASE AppCloses
    <2>1. << >> \in Seq(Reads)
      OBVIOUS
    <2>2. QED BY <1>10, <2>1 DEF AppCloses
  <1>11. CASE MockUnsubscribe
    BY <1>11 DEF MockUnsubscribe
  <1>12. ASSUME NEW l \in Listeners, MockListens(l)
        PROVE  MockInv'
    BY <1>12 DEF MockListens
  <1>13. ASSUME NEW r \in Reads, ReadCalled(r)
        PROVE  MockInv'
    BY <1>13 DEF ReadCalled
  <1>14. ASSUME NEW r \in Reads, ReadPolled(r)
        PROVE  MockInv'
    <2>1. Append(inRequests, r) \in Seq(Reads)
      BY <1>14
    <2>2. QED BY <1>14, <2>1 DEF ReadPolled
  <1>15. ASSUME NEW r \in Reads, MockAnswers(r)
        PROVE  MockInv'
    BY <1>15 DEF MockAnswers
  <1>16. ASSUME NEW r \in Reads, ReadReturns(r)
        PROVE  MockInv'
    BY <1>16 DEF ReadReturns
  <1>17. ASSUME NEW s \in Subscribes, MockSubscribe(s)
        PROVE  MockInv'
    BY <1>17 DEF MockSubscribe
  <1>18. ASSUME NEW s \in Subscribes, Forwards(s)
        PROVE  MockInv'
    BY <1>18 DEF Forwards
  <1>19. ASSUME NEW d \in Dials, MockDials(d)
        PROVE  MockInv'
    BY <1>19 DEF MockDials
  <1>20. ASSUME NEW d \in Dials, MockDialed(d)
        PROVE  MockInv'
    <2>1. /\ dialAt[d] \in Listeners
          /\ Append(accepted[dialAt[d]], d) \in Seq(Dials \cup {"unpowered"})
      BY <1>20 DEF MockDialed
    <2>2. accepted' \in [Listeners -> Seq(Dials \cup {"unpowered"})]
      BY <1>20, <2>1 DEF MockDialed
    <2>3. QED BY <1>20, <2>2 DEF MockDialed
  <1>21. QED BY <1>1, <1>2, <1>3, <1>4, <1>5, <1>6, <1>7, <1>8, <1>9, <1>10, <1>11, <1>12,
                <1>13, <1>14, <1>15, <1>16, <1>17, <1>18, <1>19, <1>20 DEF MockNext

\* A subscription is that of a connected central: every path that ends the connection
\* clears it under the same lock (LinkState of testing.rs).
THEOREM SubscribedAlwaysConnected == MockSpec => []SubscribedIsConnected
  <1>1. MockInit => MockInv
    <2>1. << >> \in Seq(Reads) /\ << >> \in Seq(Dials \cup {"unpowered"})
      OBVIOUS
    <2>2. ASSUME MockInit
          PROVE  accepted \in [Listeners -> Seq(Dials \cup {"unpowered"})] /\ toggles \in 0..MaxToggles
      BY <2>1, <2>2, MockAssumption DEF MockInit
    <2>3. ASSUME MockInit
          PROVE  /\ readAt \in [Reads -> {"idle", "checked", "waiting", "held", "answered", "returned"}]
                 /\ subscribeAt \in [Subscribes -> {"idle", "ok", "failed"}]
                 /\ dialAt \in [Dials -> Listeners \cup {Nil}]
                 /\ forwarding \in [Subscribes -> 0..1]
      BY <2>3 DEF MockInit
    <2>4. QED BY <2>1, <2>2, <2>3, MockAssumption DEF MockInit, MockInv, MockTypeOK,
                 SubscribedIsConnected
  <1>2. MockInv /\ [MockNext]_mockVars => MockInv'
    BY MockStep DEF MockInv, MockTypeOK, SubscribedIsConnected, mockVars, mockLink,
       powerVars, requestVars, channelVars
  <1>3. MockInv => SubscribedIsConnected
    BY DEF MockInv
  <1>4. QED BY <1>1, <1>2, <1>3, PTL DEF MockSpec
=============================================================================
