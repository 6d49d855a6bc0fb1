------------------------------ MODULE AppleProofs ------------------------------
(***************************************************************************)
(* Proofs about the CoreBluetooth peripheral and central, for any number   *)
(* of calls, services, operations and connections.                         *)
(***************************************************************************)
EXTENDS ApplePeripheral, AppleCentral, TLAPS

(***************************************************************************)
(* The peripheral.                                                         *)
(***************************************************************************)

\* A request that has not begun is nowhere, one that runs has its key, and the
\* registration it makes is under that key.
Begun ==
  /\ \A i \in DOMAIN turns : turns[i] # Stop => pc[turns[i]] # "idle"
  /\ turn \in {"register", "issue"} =>
       /\ power = "on" /\ running \in Requests /\ pc[running] # "idle" /\ key[running] \in Keys
  /\ turn = "issue" => slot[key[running]] = running
  /\ \A c \in Requests : pc[c] # "idle" => key[c] \in Keys

\* CoreBluetooth and the slots agree: what it owes is registered under its key, and
\* what is registered is owed, about to be asked for, or about to be drained.
SlotsKeyed ==
  /\ \A k \in Keys : slot[k] # None => key[slot[k]] = k /\ pc[slot[k]] # "idle"
  /\ \A c \in owes : key[c] \in Keys /\ slot[key[c]] = c
  /\ \A k \in Keys : slot[k] # None =>
       \/ slot[k] \in owes
       \/ turn = "issue" /\ slot[k] = running
       \/ turn = "drain_slots"
  /\ turn = "drain_slots" => owes = {}

\* Without power nothing that waits for CoreBluetooth outlives the drains.
PowerGone ==
  /\ power # "on" => turn = "drain_slots" \/ listener = None
  /\ power # "on" => turn \in {"drain_slots", "drain_notifies"} \/ ~sub
  /\ turn = "drain" \/ owesReady => power = "on"

\* The lock is held by the caller that was refused, or by the queue that retries,
\* and what a caller was refused is to be retried or failed.
LockHeld ==
  /\ \A n \in Notifies : pc[n] = "refused" => lock = n
  /\ lock = "queue" => turn = "drain"
  /\ lock \in Notifies => owesReady \/ turn \in {"drain", "drain_slots", "drain_notifies"}

\* What the central was reported to have is what `subscribers` says.
SubsCounted == told = (IF sub THEN 1 ELSE 0) /\ (sub => cbSub)

PeripheralInv ==
  TypeOK /\ Begun /\ SlotsKeyed /\ PowerGone /\ LockHeld /\ SubsCounted /\ OwnAnswer
  /\ NotificationsOwed

\* How far the calls of the peripheral get.
CallsAt ==
  [Requests \cup Notifies -> {"idle", "waiting", "gone", "refused", "queued", "done"}]

\* Taking the first turn leaves the others as they were.
LEMMA FirstTurn ==
  ASSUME TypeOK, turns # << >>
  PROVE  /\ Head(turns) \in Requests \cup {Stop} /\ Head(turns) = turns[1] /\ 1 \in DOMAIN turns
         /\ Tail(turns) \in Seq(Requests \cup {Stop})
         /\ \A i \in DOMAIN Tail(turns) :
              i + 1 \in DOMAIN turns /\ Tail(turns)[i] = turns[i + 1]
  <1>1. turns \in Seq(Requests \cup {Stop})
    BY DEF TypeOK
  <1>2. QED BY <1>1

\* A turn that joins does so behind the others.
LEMMA LastTurn ==
  ASSUME TypeOK, NEW t \in Requests \cup {Stop}
  PROVE  /\ Append(turns, t) \in Seq(Requests \cup {Stop})
         /\ \A i \in DOMAIN Append(turns, t) :
              \/ i \in DOMAIN turns /\ Append(turns, t)[i] = turns[i]
              \/ Append(turns, t)[i] = t
  <1>1. turns \in Seq(Requests \cup {Stop})
    BY DEF TypeOK
  <1>2. QED BY <1>1

\* Every step keeps the types.
LEMMA PeripheralTypes ==
  ASSUME TypeOK, Begun, SlotsKeyed, SubsCounted, Next
  PROVE  TypeOK'
  <1> USE ServicesAssumption, NoneAssumption DEF CallsAt, Stop, cbVars, turnVars, slotVars,
        notifyVars, subVars
  <1>1. CASE StopAdvertising
    BY <1>1, LastTurn DEF StopAdvertising, TypeOK
  <1>2. CASE BeginTurn
    <2>1. /\ turns # << >> /\ turns' = Tail(turns)
          /\ UNCHANGED <<power, owes, db, full, owesReady, cbSub>>
          /\ UNCHANGED <<slotVars, notifyVars, subVars>>
      BY <1>2 DEF BeginTurn
    <2>2. Head(turns) \in Requests \cup {Stop} /\ turns' \in Seq(Requests \cup {Stop})
      BY <2>1, FirstTurn
    <2>3. pc' = pc \/ pc' = [pc EXCEPT ![Head(turns)] = "done"]
      BY <1>2 DEF BeginTurn
    <2>4. /\ turn' \in {turn, "register"} /\ advertising' \in {advertising, FALSE}
          /\ running' \in {running} \cup ({Head(turns)} \ {Stop})
      BY <1>2 DEF BeginTurn
    <2>5. pc' \in [Requests \cup Notifies
                     -> {"idle", "waiting", "gone", "refused", "queued", "done"}]
      BY <2>3 DEF TypeOK
    <2>6. turn' \in {"idle", "register", "issue", "drain_slots", "drain_notifies", "drain"}
      BY <2>4 DEF TypeOK
    <2>7. running' \in Requests \cup {None}
      BY <2>2, <2>4 DEF TypeOK
    <2>8. advertising' \in BOOLEAN
      <3>1. advertising \in BOOLEAN
        BY DEF TypeOK
      <3>2. QED BY <2>4, <3>1
    <2>9. UNCHANGED <<key, slot, answeredBy, chars, listener, lock, pending, sub, told>>
      BY <2>1
    <2>10. QED BY <2>1, <2>2, <2>5, <2>6, <2>7, <2>8, <2>9 DEF TypeOK
  <1>3. CASE Register
    BY <1>3 DEF Register, Begun, TypeOK, Keys
  <1>4. CASE Issue
    BY <1>4 DEF Issue, Begun, TypeOK, Keys
  <1>5. CASE PowerDownSlots
    BY <1>5 DEF PowerDownSlots, Told, TypeOK, Keys
  <1>6. CASE PowerDownNotifies
    <2>1. << >> \in Seq(Notifies)
      OBVIOUS
    <2>2. told' \in 0..1
      BY <1>6 DEF PowerDownNotifies, SubsCounted, TypeOK
    <2>3. pc' \in CallsAt
      BY <1>6 DEF PowerDownNotifies, TypeOK
    <2>4. QED BY <1>6, <2>1, <2>2, <2>3 DEF PowerDownNotifies, TypeOK
  <1>7. CASE DidSubscribe
    BY <1>7 DEF DidSubscribe, Free, SubsCounted, TypeOK, Keys
  <1>8. CASE DidUnsubscribe
    <2>1. told' \in 0..1
      BY <1>8 DEF DidUnsubscribe, SubsCounted, TypeOK
    <2>2. QED BY ZenonT(20), <1>8, <2>1 DEF DidUnsubscribe, TypeOK
  <1>9. CASE DidBecomeReady
    BY <1>9 DEF DidBecomeReady, Free, TypeOK, Keys
  <1>10. CASE Drain
    <2>1. pending # << >> => Head(pending) \in Notifies /\ Tail(pending) \in Seq(Notifies)
      BY DEF TypeOK
    <2>2. QED BY <1>10, <2>1 DEF Drain, LockFree, Refused, Accepted, Undeliverable, TypeOK
  <1>11. ASSUME NEW s \in {"on", "off", "reset"}, DidUpdateState(s)
        PROVE  TypeOK'
    BY <1>11 DEF DidUpdateState, Free, TypeOK, Keys
  <1>12. ASSUME NEW c \in Requests, GiveUp(c)
        PROVE  TypeOK'
    BY <1>12 DEF GiveUp, TypeOK, Keys
  <1>13. ASSUME NEW c \in Requests, DidAnswer(c)
        PROVE  TypeOK'
    <2>1. /\ slot' \in [Keys -> Requests \cup {None}]
          /\ answeredBy' \in [Requests -> Requests \cup {None}]
      BY <1>13 DEF DidAnswer, TypeOK, SlotsKeyed
    <2>2. pc' \in CallsAt
      BY <1>13 DEF DidAnswer, Told, TypeOK
    <2>3. db' \subseteq Services /\ chars' \subseteq Services /\ advertising' \in BOOLEAN
      BY <1>13 DEF DidAnswer, CharsAfter, TypeOK
    <2>4. QED BY ZenonT(20), <1>13, <2>1, <2>2, <2>3 DEF DidAnswer, TypeOK
  <1>14. ASSUME NEW c \in Requests, NEW k \in Keys, Request(c, k)
        PROVE  TypeOK'
    <2>1. turns' \in Seq(Requests \cup {Stop})
      <3>1. turns' \in {turns, Append(turns, c)} /\ turns \in Seq(Requests \cup {Stop})
        BY <1>14 DEF Request, TypeOK
      <3>2. Append(turns, c) \in Seq(Requests \cup {Stop})
        BY LastTurn
      <3>3. QED BY <3>1, <3>2
    <2>2. pc' \in CallsAt
      BY <1>14 DEF Request, TypeOK
    <2>3. key' \in [Requests -> Keys \cup {None}]
      BY <1>14 DEF Request, TypeOK
    <2>4. QED BY <1>14, <2>1, <2>2, <2>3 DEF Request, TypeOK
  <1>15. ASSUME NEW n \in Notifies, Notify(n)
        PROVE  TypeOK'
    <2>1. pc' \in CallsAt
      BY <1>15 DEF Notify, TypeOK
    <2>2. full' \in BOOLEAN /\ owesReady' \in BOOLEAN /\ lock' \in Notifies \cup {"queue", None}
      BY <1>15 DEF Notify, TypeOK
    <2>3. QED BY <1>15, <2>1, <2>2 DEF Notify, TypeOK
  <1>16. ASSUME NEW n \in Notifies, Enqueue(n)
        PROVE  TypeOK'
    <2>1. Append(pending, n) \in Seq(Notifies)
      BY DEF TypeOK
    <2>2. QED BY <1>16, <2>1 DEF Enqueue, TypeOK
  <1>17. QED BY <1>1, <1>2, <1>3, <1>4, <1>5, <1>6, <1>7, <1>8, <1>9, <1>10, <1>11, <1>12,
                <1>13, <1>14, <1>15, <1>16 DEF Next

\* What is in the queue has begun, and runs while there is power.
LEMMA TurnsBegun ==
  ASSUME TypeOK, Begun, SlotsKeyed, Next
  PROVE  Begun'
  <1> USE ServicesAssumption, NoneAssumption DEF Stop, cbVars, turnVars, slotVars,
        notifyVars, subVars
  <1>1. CASE StopAdvertising
    <2>1. \A i \in DOMAIN turns' : turns'[i] # Stop => pc[turns'[i]] # "idle"
      BY <1>1, LastTurn DEF StopAdvertising, Begun
    <2>2. QED BY <1>1, <2>1 DEF StopAdvertising, Begun
  <1>2. CASE BeginTurn
    <2>1. turns # << >> /\ turns' = Tail(turns)
      BY <1>2 DEF BeginTurn
    <2>2. \A i \in DOMAIN turns' : turns'[i] # Stop => pc[turns'[i]] # "idle"
      BY <2>1, FirstTurn DEF Begun
    <2>3. \A i \in DOMAIN turns' : turns'[i] # Stop => pc'[turns'[i]] # "idle"
      BY <1>2, <2>1, <2>2, FirstTurn DEF BeginTurn, TypeOK
    <2>4. QED BY <1>2, <2>1, <2>3, FirstTurn DEF BeginTurn, Free, Begun, TypeOK, Keys
  <1>3. CASE Register
    BY <1>3 DEF Register, Begun, TypeOK, Keys
  <1>4. CASE Issue
    BY <1>4 DEF Issue, Begun, TypeOK, Keys
  <1>5. CASE PowerDownSlots
    BY <1>5 DEF PowerDownSlots, Told, Begun, TypeOK, Keys
  <1>6. CASE PowerDownNotifies
    BY <1>6 DEF PowerDownNotifies, Begun, TypeOK, Keys
  <1>7. CASE DidSubscribe
    BY <1>7 DEF DidSubscribe, Free, Begun, TypeOK, Keys
  <1>8. CASE DidUnsubscribe
    BY <1>8 DEF DidUnsubscribe, Free, Begun, TypeOK, Keys
  <1>9. CASE DidBecomeReady
    BY <1>9 DEF DidBecomeReady, Free, Begun, TypeOK, Keys
  <1>10. CASE Drain
    BY <1>10 DEF Drain, LockFree, Refused, Accepted, Undeliverable, Begun, TypeOK, Keys
  <1>11. ASSUME NEW s \in {"on", "off", "reset"}, DidUpdateState(s)
        PROVE  Begun'
    BY <1>11 DEF DidUpdateState, Free, Begun, TypeOK, Keys
  <1>12. ASSUME NEW c \in Requests, GiveUp(c)
        PROVE  Begun'
    BY <1>12 DEF GiveUp, Begun, TypeOK, Keys
  <1>13. ASSUME NEW c \in Requests, DidAnswer(c)
        PROVE  Begun'
    BY <1>13 DEF DidAnswer, Free, Told, CharsAfter, SlotsKeyed, Begun, TypeOK, Keys
  <1>14. ASSUME NEW c \in Requests, NEW k \in Keys, Request(c, k)
        PROVE  Begun'
    <2>1. pc[c] = "idle" /\ key' = [key EXCEPT ![c] = k]
        /\ pc' \in {[pc EXCEPT ![c] = "done"], [pc EXCEPT ![c] = "waiting"]}
        /\ turns' \in {turns, Append(turns, c)} /\ UNCHANGED <<power, turn, running, slot>>
      BY <1>14 DEF Request, cbVars
    <2>2. \A i \in DOMAIN turns' : turns'[i] # Stop => turns'[i] = c \/ pc[turns'[i]] # "idle"
      BY <2>1, LastTurn DEF Begun
    <2>3. pc'[c] # "idle" /\ \A d \in DOMAIN pc : d # c => pc'[d] = pc[d]
      BY <2>1 DEF TypeOK
    <2>4. \A i \in DOMAIN turns' : turns'[i] \in Requests \cup {Stop}
      <3>1. turns' \in Seq(Requests \cup {Stop})
        BY <2>1, LastTurn DEF TypeOK
      <3>2. QED BY <3>1
    <2>5. \A i \in DOMAIN turns' : turns'[i] # Stop => pc'[turns'[i]] # "idle"
      BY <2>2, <2>3, <2>4 DEF TypeOK
    <2>6. QED BY <2>1, <2>3, <2>5 DEF Begun, TypeOK, Keys
  <1>15. ASSUME NEW n \in Notifies, Notify(n)
        PROVE  Begun'
    BY <1>15 DEF Notify, LockFree, Accepted, Refused, Undeliverable, Begun, TypeOK, Keys
  <1>16. ASSUME NEW n \in Notifies, Enqueue(n)
        PROVE  Begun'
    BY <1>16 DEF Enqueue, Begun, TypeOK, Keys
  <1>17. QED BY <1>1, <1>2, <1>3, <1>4, <1>5, <1>6, <1>7, <1>8, <1>9, <1>10, <1>11, <1>12,
                <1>13, <1>14, <1>15, <1>16 DEF Next

\* A registration is made under the key of its request, and taken by the one callback
\* that CoreBluetooth owes for that key.
LEMMA SlotsStayKeyed ==
  ASSUME TypeOK, Begun, SlotsKeyed, PowerGone, OwnAnswer, Next
  PROVE  (SlotsKeyed /\ PowerGone /\ OwnAnswer)'
  <1> USE ServicesAssumption, NoneAssumption DEF Stop, cbVars, turnVars, slotVars,
        notifyVars, subVars, TypeOK, Begun, SlotsKeyed, PowerGone, OwnAnswer, Keys
  <1>1. CASE StopAdvertising
    BY <1>1 DEF StopAdvertising
  <1>2. CASE BeginTurn
    BY <1>2, FirstTurn DEF BeginTurn, Free
  <1>3. CASE Register
    BY <1>3 DEF Register
  <1>4. CASE Issue
    BY <1>4 DEF Issue
  <1>5. CASE PowerDownSlots
    BY <1>5 DEF PowerDownSlots, Told
  <1>6. CASE PowerDownNotifies
    BY <1>6 DEF PowerDownNotifies
  <1>7. CASE DidSubscribe
    BY <1>7 DEF DidSubscribe, Free
  <1>8. CASE DidUnsubscribe
    BY <1>8 DEF DidUnsubscribe, Free
  <1>9. CASE DidBecomeReady
    BY <1>9 DEF DidBecomeReady, Free
  <1>10. CASE Drain
    BY <1>10 DEF Drain, LockFree, Refused, Accepted, Undeliverable
  <1>11. ASSUME NEW s \in {"on", "off", "reset"}, DidUpdateState(s)
        PROVE  (SlotsKeyed /\ PowerGone /\ OwnAnswer)'
    BY <1>11 DEF DidUpdateState, Free
  <1>12. ASSUME NEW c \in Requests, GiveUp(c)
        PROVE  (SlotsKeyed /\ PowerGone /\ OwnAnswer)'
    BY <1>12 DEF GiveUp
  <1>13. ASSUME NEW c \in Requests, DidAnswer(c)
        PROVE  (SlotsKeyed /\ PowerGone /\ OwnAnswer)'
    BY <1>13 DEF DidAnswer, Free, Told, CharsAfter
  <1>14. ASSUME NEW c \in Requests, NEW k \in Keys, Request(c, k)
        PROVE  (SlotsKeyed /\ PowerGone /\ OwnAnswer)'
    BY <1>14 DEF Request
  <1>15. ASSUME NEW n \in Notifies, Notify(n)
        PROVE  (SlotsKeyed /\ PowerGone /\ OwnAnswer)'
    BY <1>15 DEF Notify, LockFree, Accepted, Refused, Undeliverable
  <1>16. ASSUME NEW n \in Notifies, Enqueue(n)
        PROVE  (SlotsKeyed /\ PowerGone /\ OwnAnswer)'
    BY <1>16 DEF Enqueue
  <1>17. QED BY <1>1, <1>2, <1>3, <1>4, <1>5, <1>6, <1>7, <1>8, <1>9, <1>10, <1>11, <1>12,
                <1>13, <1>14, <1>15, <1>16 DEF Next

\* What was refused is queued under the lock that the retry takes.
LEMMA LockStaysHeld ==
  ASSUME TypeOK, PowerGone, LockHeld, SubsCounted, NotificationsOwed, Next
  PROVE  (LockHeld /\ SubsCounted /\ NotificationsOwed)'
  <1> USE ServicesAssumption, NoneAssumption DEF Stop, cbVars, turnVars, slotVars,
        notifyVars, subVars, TypeOK, PowerGone, LockHeld, SubsCounted, NotificationsOwed
  <1>1. CASE StopAdvertising
    BY <1>1 DEF StopAdvertising
  <1>2. CASE BeginTurn
    BY <1>2, FirstTurn DEF BeginTurn, Free
  <1>3. CASE Register
    BY <1>3 DEF Register
  <1>4. CASE Issue
    BY <1>4 DEF Issue
  <1>5. CASE PowerDownSlots
    BY <1>5 DEF PowerDownSlots, Told
  <1>6. CASE PowerDownNotifies
    BY <1>6 DEF PowerDownNotifies
  <1>7. CASE DidSubscribe
    BY <1>7 DEF DidSubscribe, Free
  <1>8. CASE DidUnsubscribe
    BY <1>8 DEF DidUnsubscribe, Free
  <1>9. CASE DidBecomeReady
    BY <1>9 DEF DidBecomeReady, Free
  <1>10. CASE Drain
    BY <1>10 DEF Drain, LockFree, Refused, Accepted, Undeliverable
  <1>11. ASSUME NEW s \in {"on", "off", "reset"}, DidUpdateState(s)
        PROVE  (LockHeld /\ SubsCounted /\ NotificationsOwed)'
    BY <1>11 DEF DidUpdateState, Free
  <1>12. ASSUME NEW c \in Requests, GiveUp(c)
        PROVE  (LockHeld /\ SubsCounted /\ NotificationsOwed)'
    BY <1>12 DEF GiveUp
  <1>13. ASSUME NEW c \in Requests, DidAnswer(c)
        PROVE  (LockHeld /\ SubsCounted /\ NotificationsOwed)'
    BY <1>13 DEF DidAnswer, Free, Told, CharsAfter
  <1>14. ASSUME NEW c \in Requests, NEW k \in Keys, Request(c, k)
        PROVE  (LockHeld /\ SubsCounted /\ NotificationsOwed)'
    BY <1>14 DEF Request
  <1>15. ASSUME NEW n \in Notifies, Notify(n)
        PROVE  (LockHeld /\ SubsCounted /\ NotificationsOwed)'
    BY <1>15 DEF Notify, LockFree, Accepted, Refused, Undeliverable
  <1>16. ASSUME NEW n \in Notifies, Enqueue(n)
        PROVE  (LockHeld /\ SubsCounted /\ NotificationsOwed)'
    BY <1>16 DEF Enqueue
  <1>17. QED BY <1>1, <1>2, <1>3, <1>4, <1>5, <1>6, <1>7, <1>8, <1>9, <1>10, <1>11, <1>12,
                <1>13, <1>14, <1>15, <1>16 DEF Next

\* The initial state has the invariant.
LEMMA PeripheralInit == Init => PeripheralInv
  <1> SUFFICES ASSUME Init PROVE PeripheralInv
    OBVIOUS
  <1> USE ServicesAssumption, NoneAssumption DEF CallsAt
  <1>1. turns \in Seq(Requests \cup {Stop}) /\ pending \in Seq(Notifies)
    BY DEF Init
  <1>2. /\ key \in [Requests -> Keys \cup {None}] /\ slot \in [Keys -> Requests \cup {None}]
        /\ pc \in CallsAt
        /\ answeredBy \in [Requests -> Requests \cup {None}]
    BY DEF Init
  <1>3. TypeOK
    <2>1. /\ power \in {"on", "off", "reset"}
          /\ owes \subseteq Requests /\ db \subseteq Services
          /\ chars \subseteq Services /\ listener \in Requests \cup {None}
          /\ turn \in {"idle", "register", "issue", "drain_slots", "drain_notifies", "drain"}
          /\ running \in Requests \cup {None} /\ lock \in Notifies \cup {"queue", None}
          /\ told \in 0..1
      BY DEF Init
    <2>2. QED BY <1>1, <1>2, <2>1 DEF Init, TypeOK
  <1>4. DOMAIN turns = {}
    BY DEF Init
  <1>5. Begun
    BY <1>4 DEF Init, Begun
  <1>6. QED BY <1>3, <1>5 DEF Init, PeripheralInv, SlotsKeyed, PowerGone, LockHeld,
               SubsCounted, OwnAnswer,
               NotificationsOwed

\* Every step keeps it.
LEMMA PeripheralStep == PeripheralInv /\ [Next]_vars => PeripheralInv'
  <1>1. ASSUME PeripheralInv, Next
        PROVE  PeripheralInv'
    BY <1>1, PeripheralTypes, TurnsBegun, SlotsStayKeyed, LockStaysHeld DEF PeripheralInv
  <1>2. ASSUME PeripheralInv, UNCHANGED vars
        PROVE  PeripheralInv'
    BY <1>2 DEF PeripheralInv, TypeOK, Begun, SlotsKeyed, PowerGone, LockHeld, SubsCounted,
       OwnAnswer,
       NotificationsOwed, vars, cbVars, turnVars, slotVars, notifyVars, subVars
  <1>3. QED BY <1>1, <1>2

\* PeripheralInv holds in every reachable state of apple/peripheral.rs.
THEOREM PeripheralInvAlways == Spec => []PeripheralInv
  BY PeripheralInit, PeripheralStep, PTL DEF Spec

\* The variables of apple/peripheral.rs keep their types.
THEOREM PeripheralTypeCorrect == Spec => []TypeOK
  <1>1. PeripheralInv => TypeOK
    BY DEF PeripheralInv
  <1>2. QED BY <1>1, PeripheralInvAlways, PTL

\* A caller is told the answer of its own request: CallbackSlots registers it under
\* its key in the turn that makes the request, and refuses a second under that key.
THEOREM AnswerAlwaysOwn == Spec => []OwnAnswer
  <1>1. PeripheralInv => OwnAnswer
    BY DEF PeripheralInv
  <1>2. QED BY <1>1, PeripheralInvAlways, PTL

\* However a loss of power falls among the turns, the callbacks and the notifying
\* threads, no slot and no queued notification is left without what will free it.
THEOREM NothingEverStranded == Spec => []NothingStranded
  <1>1. PeripheralInv => NothingStranded
    BY DEF PeripheralInv, NothingStranded, RegistrationsOwed, SlotsKeyed, PowerGone, TypeOK
  <1>2. QED BY <1>1, PeripheralInvAlways, PTL

(***************************************************************************)
(* The central.                                                            *)
(***************************************************************************)

\* What is posted to the queue.
WriteTurnSet == [by : Writers, live : BOOLEAN]

\* The variables of CentralTypeOK in two parts, so that a step opens the one it needs.
HostTypes ==
  /\ link \in 0..MaxLinks /\ links \in 0..MaxLinks /\ trying \in BOOLEAN
  /\ cmds \in Seq({"connect", "cancel"})
  /\ asked \in [Kinds -> Nat] /\ charsDue \in Nat /\ room \in BOOLEAN
  /\ queueStep \in {"idle", "remove", "bump", "fail", "ready"} \cup Writers
  /\ writeTurns \in Seq(WriteTurnSet)

CallTypes ==
  /\ held \in BOOLEAN /\ delegate \in BOOLEAN /\ disconnects \in Nat
  /\ waiter \in [AllKinds -> Connectors \cup Askers \cup {Nobody}] /\ remaining \in Nat
  /\ callPc \in [Calls -> CallSteps] /\ kind \in [Askers -> Kinds \cup {Nobody}]
  /\ conn \in [Writers -> Nat] /\ issuedOn \in [Writers -> 0..MaxLinks]
  /\ notified \subseteq Writers /\ expired \subseteq Writers /\ missed \subseteq Calls
  /\ sent \in [Writers -> Seq(1..MaxLinks)]

\* A request is of some kind.
KindKnown == \A q \in Askers : callPc[q] # "idle" => kind[q] \in Kinds

\* A turn that may run is the one of a write that waits for it, and runs once: what
\* TurnClaim is for.
TurnsClaimed ==
  /\ \A i \in DOMAIN writeTurns :
       writeTurns[i].live => callPc[writeTurns[i].by] = "turn" /\ queueStep # writeTurns[i].by
  /\ \A i, j \in DOMAIN writeTurns :
       writeTurns[i].live /\ writeTurns[j].live /\ writeTurns[i].by = writeTurns[j].by => i = j
  /\ queueStep \in Writers => callPc[queueStep] \in {"turn", "late"}

\* A value that went out is that of a write that is over.
SentIsOver ==
  \A w \in Writers : sent[w] # << >> => callPc[w] \in {"done", "late"} /\ queueStep # w

\* The count a write captured is still the count only while its connection stands, or
\* while the disconnect that ended it has yet to count it out.
CountedConnection ==
  \A w \in Writers :
    /\ conn[w] <= disconnects
    /\ conn[w] = disconnects /\ issuedOn[w] # 0
         => link = issuedOn[w] \/ queueStep \in {"remove", "bump"}

\* NoMissedReady from the moment the writer is told of no room.
ReadyToCome ==
  \A w \in Writers :
    callPc[w] \in {"noroom", "asleep"} /\ w \notin expired /\ w \notin notified
      /\ w \notin missed
      => \/ queueStep \in {"remove", "bump", "fail", "ready"}
         \/ SameConnection(w) /\ link # 0 /\ ~room

CentralInv ==
  /\ HostTypes /\ CallTypes /\ KindKnown /\ TurnsClaimed /\ SentIsOver /\ CountedConnection
  /\ ReadyToCome /\ SentOnce /\ AcceptedIsOwed

\* Telling the calls of S ends those that wait and marks those yet to make their request;
\* a write is never told.
LEMMA ToldCalls ==
  ASSUME CallTypes, NEW S
  PROVE  /\ WithTold(S) \in [Calls -> CallSteps]
         /\ \A c \in Calls :
              \/ WithTold(S)[c] = callPc[c]
              \/ c \in S /\ WithTold(S)[c] = "done" /\ callPc[c] \in {"waiting", "unheard"}
              \/ c \in S /\ WithTold(S)[c] = "told" /\ callPc[c] = "registered"
  <1>1. callPc \in [Calls -> CallSteps]
    BY DEF CallTypes
  <1>2. ASSUME NEW c \in Calls
        PROVE  /\ WithTold(S)[c] \in CallSteps
               /\ \/ WithTold(S)[c] = callPc[c]
                  \/ c \in S /\ WithTold(S)[c] = "done" /\ callPc[c] \in {"waiting", "unheard"}
                  \/ c \in S /\ WithTold(S)[c] = "told" /\ callPc[c] = "registered"
    <2>1. CASE c \in S /\ callPc[c] \in {"waiting", "unheard"}
      BY <2>1 DEF WithTold, CallSteps
    <2>2. CASE c \in S /\ callPc[c] = "registered"
      BY <2>2 DEF WithTold, CallSteps
    <2>3. CASE ~(c \in S /\ callPc[c] \in {"waiting", "unheard", "registered"})
      BY <1>1, <2>3 DEF WithTold
    <2>4. QED BY <2>1, <2>2, <2>3
  <1>3. WithTold(S) \in [Calls -> CallSteps]
    BY <1>2 DEF WithTold
  <1>4. QED BY <1>2, <1>3

\* Telling calls makes none wait and begins none.
LEMMA ToldBegins ==
  ASSUME CallTypes, NEW S, NEW c \in Calls
  PROVE  /\ WithTold(S)[c] = "waiting" => callPc[c] = "waiting"
         /\ WithTold(S)[c] # "idle" => callPc[c] # "idle"
  BY ToldCalls

\* No waiter is a write, or nobody: telling waiters leaves the writes where they are.
LEMMA ToldNoWrite ==
  ASSUME CallTypes, NEW S \in SUBSET (Connectors \cup Askers \cup {Nobody}), NEW w \in Writers
  PROVE  WithTold(S)[w] = callPc[w]
  <1>1. w \in Calls /\ w \notin S
    BY CallsAssumption DEF Calls
  <1>2. QED BY <1>1, ToldCalls

\* The waiter a callback takes is a call of connect() or of an operation, or nobody.
LEMMA WaiterIsCall ==
  ASSUME CallTypes, NEW k \in AllKinds
  PROVE  /\ {waiter[k]} \in SUBSET (Connectors \cup Askers \cup {Nobody})
         /\ {waiter[j] : j \in AllKinds} \in SUBSET (Connectors \cup Askers \cup {Nobody})
  BY DEF CallTypes

\* The rest of a sequence is the sequence moved by one.
LEMMA RestOfSeq ==
  ASSUME NEW S, NEW s \in Seq(S), s # << >>
  PROVE  /\ Head(s) = s[1] /\ Head(s) \in S /\ 1 \in DOMAIN s /\ Tail(s) \in Seq(S)
         /\ \A i \in DOMAIN Tail(s) :
              i \in Nat \ {0} /\ i + 1 \in DOMAIN s /\ Tail(s)[i] = s[i + 1]
  OBVIOUS

\* Taking the first turn leaves the others as they were.
LEMMA FirstWriteTurn ==
  ASSUME HostTypes, writeTurns # << >>
  PROVE  /\ Head(writeTurns) = writeTurns[1] /\ 1 \in DOMAIN writeTurns
         /\ Head(writeTurns) \in WriteTurnSet
         /\ Tail(writeTurns) \in Seq(WriteTurnSet)
         /\ \A i \in DOMAIN Tail(writeTurns) :
              /\ i \in Nat \ {0} /\ i + 1 \in DOMAIN writeTurns
              /\ Tail(writeTurns)[i] = writeTurns[i + 1]
  <1>1. writeTurns \in Seq(WriteTurnSet)
    BY DEF HostTypes
  <1>2. QED BY <1>1, RestOfSeq

\* A turn that is posted joins behind the others.
LEMMA LastWriteTurn ==
  ASSUME HostTypes, NEW t \in WriteTurnSet
  PROVE  /\ Append(writeTurns, t) \in Seq(WriteTurnSet)
         /\ \A i \in DOMAIN Append(writeTurns, t) :
              \/ i \in DOMAIN writeTurns /\ Append(writeTurns, t)[i] = writeTurns[i]
              \/ /\ i = Len(writeTurns) + 1 /\ i \notin DOMAIN writeTurns
                 /\ Append(writeTurns, t)[i] = t
  <1>1. writeTurns \in Seq(WriteTurnSet)
    BY DEF HostTypes
  <1>2. QED BY <1>1

\* Marking a turn dead keeps whose it is.
LEMMA MarkedDead ==
  ASSUME NEW t \in WriteTurnSet
  PROVE  /\ [t EXCEPT !.live = FALSE] \in WriteTurnSet
         /\ [t EXCEPT !.live = FALSE].by = t.by /\ ~[t EXCEPT !.live = FALSE].live
  BY DEF WriteTurnSet

\* TurnClaim::abandon marks the turns of one write, and leaves the rest as they were.
LEMMA AbandonedTurns ==
  ASSUME HostTypes, NEW w \in Writers
  PROVE  /\ Abandoned(w) \in Seq(WriteTurnSet)
         /\ DOMAIN Abandoned(w) = DOMAIN writeTurns
         /\ \A i \in DOMAIN writeTurns :
              /\ Abandoned(w)[i].by = writeTurns[i].by
              /\ Abandoned(w)[i].live => writeTurns[i].live /\ writeTurns[i].by # w
  <1>1. writeTurns \in Seq(WriteTurnSet)
    BY DEF HostTypes
  <1>2. \A i \in DOMAIN writeTurns : writeTurns[i] \in WriteTurnSet
    BY <1>1
  <1>3. DOMAIN writeTurns = 1..Len(writeTurns) /\ Len(writeTurns) \in Nat
    BY <1>1
  <1>4. Abandoned(w) \in [1..Len(writeTurns) -> WriteTurnSet]
    BY <1>2, <1>3, MarkedDead DEF Abandoned
  <1>5. Abandoned(w) \in Seq(WriteTurnSet) /\ DOMAIN Abandoned(w) = DOMAIN writeTurns
    BY <1>3, <1>4
  <1>6. ASSUME NEW i \in DOMAIN writeTurns
        PROVE  /\ Abandoned(w)[i].by = writeTurns[i].by
               /\ Abandoned(w)[i].live => writeTurns[i].live /\ writeTurns[i].by # w
    BY <1>2, MarkedDead DEF Abandoned
  <1>7. QED BY <1>5, <1>6

\* Every step keeps the types of the host's variables.
LEMMA HostTypesKept ==
  ASSUME HostTypes, CallTypes, KindKnown, CentralNext
  PROVE  HostTypes'
  <1> USE CallsAssumption, KindsAssumption, BoundAssumption DEF centralVars, linkVars,
        queueVars, mapVars, writeVars
  <1>1. CASE DidDiscover \/ DidNotify
    BY <1>1 DEF DidDiscover, DidNotify, HostTypes
  <1>2. ASSUME NEW c \in Connectors,
             KnownPeripheral(c) \/ RegisterConnect(c) \/ DropConnect(c)
       PROVE  HostTypes'
    BY <1>2 DEF KnownPeripheral, RegisterConnect, DropConnect, HostTypes
  <1>3. ASSUME NEW q \in Askers,
             RegisterOp(q)
       PROVE  HostTypes'
    BY <1>3 DEF RegisterOp, HostTypes
  <1>4. ASSUME NEW q \in Askers, NEW k \in Kinds,
             LookUp(q, k)
       PROVE  HostTypes'
    BY <1>4 DEF LookUp, HostTypes
  <1>5. ASSUME NEW w \in Writers,
             BeginWrite(w) \/ WriteDeadline(w) \/ Wake(w)
       PROVE  HostTypes'
    BY <1>5 DEF BeginWrite, WriteDeadline, Wake, HostTypes
  <1>6. CASE Disconnect
    <2>1. Append(cmds, "cancel") \in Seq({"connect", "cancel"})
      BY DEF HostTypes
    <2>2. QED BY <1>6, <2>1 DEF Disconnect, HostTypes
  <1>7. CASE DidDiscoverServices
    BY <1>7 DEF DidDiscoverServices, GoesUnheard, Answer, HostTypes
  <1>8. CASE DidDiscoverCharacteristics
    BY <1>8 DEF DidDiscoverCharacteristics, Answer, HostTypes
  <1>9. CASE DidConnect
    <2>1. cmds # << >> => Tail(cmds) \in Seq({"connect", "cancel"})
      BY DEF HostTypes
    <2>2. links < MaxLinks => links + 1 \in 0..MaxLinks
      BY DEF HostTypes
    <2>3. link' \in 0..MaxLinks /\ links' \in 0..MaxLinks
      BY <1>9, <2>2 DEF DidConnect, HostTypes
    <2>4. cmds' \in Seq({"connect", "cancel"})
      BY <1>9, <2>1 DEF DidConnect, HostTypes
    <2>5. trying' \in BOOLEAN /\ room' \in BOOLEAN
      BY <1>9 DEF DidConnect, HostTypes
    <2>6. QED BY <1>9, <2>3, <2>4, <2>5 DEF DidConnect, HostTypes
  <1>10. CASE DidFailToConnect
    BY <1>10 DEF DidFailToConnect, Answer, HostTypes
  <1>11. CASE CmdRun
    <2>1. cmds' \in Seq({"connect", "cancel"})
      BY <1>11 DEF CmdRun, HostTypes
    <2>2. queueStep' \in {"idle", "remove"}
      BY <1>11 DEF CmdRun
    <2>3. QED BY <1>11, <2>1, <2>2 DEF CmdRun, HostTypes
  <1>12. CASE LinkDrop
    <2>1. cmds' \in Seq({"connect", "cancel"})
      <3>1. cmds # << >> => Tail(cmds) \in Seq({"connect", "cancel"})
        BY DEF HostTypes
      <3>2. QED BY <1>12, <3>1 DEF LinkDrop, HostTypes
    <2>2. asked' \in [Kinds -> Nat] /\ link' \in 0..MaxLinks
      BY <1>12 DEF LinkDrop
    <2>3. QED BY <1>12, <2>1, <2>2 DEF LinkDrop, HostTypes
  <1>13. CASE DidDisconnect
    BY <1>13 DEF DidDisconnect, Disconnecting, HostTypes
  <1>14. CASE FailPending
    BY <1>14 DEF FailPending, HostTypes
  <1>15. CASE StartTurn
    BY <1>15, FirstWriteTurn DEF StartTurn, HostTypes, WriteTurnSet
  <1>16. CASE DidBecomeWritable
    BY <1>16 DEF DidBecomeWritable, HostTypes
  <1>17. ASSUME NEW k \in Kinds, DidAnswerOp(k)
        PROVE  HostTypes'
    BY <1>17 DEF DidAnswerOp, GoesUnheard, Answer, HostTypes
  <1>18. ASSUME NEW c \in Connectors, ConnectPeripheral(c)
        PROVE  HostTypes'
    <2>1. Append(cmds, "connect") \in Seq({"connect", "cancel"})
      BY DEF HostTypes
    <2>2. QED BY <1>18, <2>1 DEF ConnectPeripheral, HostTypes
  <1>19. ASSUME NEW c \in Connectors, ConnectTimeout(c)
        PROVE  HostTypes'
    <2>1. Append(cmds, "cancel") \in Seq({"connect", "cancel"})
      BY DEF HostTypes
    <2>2. QED BY <1>19, <2>1 DEF ConnectTimeout, HostTypes
  <1>20. ASSUME NEW q \in Askers, IssueOp(q)
        PROVE  HostTypes'
    BY SMTT(20), <1>20 DEF IssueOp, CallTypes, KindKnown, HostTypes
  <1>21. ASSUME NEW w \in Writers, PostTurn(w)
        PROVE  HostTypes'
    <2>1. [by |-> w, live |-> TRUE] \in WriteTurnSet
      BY DEF WriteTurnSet
    <2>2. QED BY <1>21, <2>1, LastWriteTurn DEF PostTurn, HostTypes
  <1>22. ASSUME NEW w \in Writers, RunTurn(w)
        PROVE  HostTypes'
    BY <1>22 DEF RunTurn, HostTypes
  <1>23. ASSUME NEW w \in Writers, AbandonTurn(w)
        PROVE  HostTypes'
    BY <1>23, AbandonedTurns DEF AbandonTurn, HostTypes
  <1>24. ASSUME NEW w \in Writers, DropWrite(w)
        PROVE  HostTypes'
    BY <1>24, AbandonedTurns DEF DropWrite, HostTypes
  <1>25. QED BY <1>1, <1>2, <1>3, <1>4, <1>5, <1>6, <1>7, <1>8, <1>9, <1>10, <1>11, <1>12,
                <1>13, <1>14, <1>15, <1>16, <1>17, <1>18, <1>19, <1>20, <1>21, <1>22, <1>23,
                <1>24 DEF CentralNext

\* Every step keeps the types of the calls' variables.
LEMMA CallTypesKept ==
  ASSUME HostTypes, CallTypes, KindKnown, CentralNext
  PROVE  CallTypes'
  <1> USE CallsAssumption, KindsAssumption, BoundAssumption DEF centralVars, linkVars,
        queueVars, mapVars, writeVars, Calls, AllKinds
  <1>1. CASE Disconnect \/ CmdRun \/ LinkDrop \/ StartTurn
    BY <1>1 DEF Disconnect, CmdRun, LinkDrop, StartTurn, CallTypes
  <1>2. CASE DidDiscover
    BY <1>2 DEF DidDiscover, CallTypes, CallSteps
  <1>3. CASE DidNotify
    BY <1>3, ToldCalls DEF DidNotify, Answer, CallTypes, CallSteps
  <1>4. CASE DidDiscoverServices
    <2>1. waiter' \in [AllKinds -> Connectors \cup Askers \cup {Nobody}]
      BY <1>4 DEF DidDiscoverServices, GoesUnheard, Answer, CallTypes
    <2>2. callPc' \in [Calls -> CallSteps]
      <3>1. callPc' = callPc \/ callPc' = WithTold({waiter["discover"]})
        BY <1>4 DEF DidDiscoverServices, GoesUnheard, Answer
      <3>2. QED BY <3>1, ToldCalls DEF CallTypes
    <2>3. remaining' \in Nat
      BY <1>4 DEF DidDiscoverServices, CallTypes
    <2>4. missed' \subseteq Calls
      BY <1>4 DEF DidDiscoverServices, GoesUnheard, CallTypes
    <2>5. QED BY <1>4, <2>1, <2>2, <2>3, <2>4 DEF DidDiscoverServices, CallTypes
  <1>5. CASE DidDiscoverCharacteristics
    <2>1. waiter' \in [AllKinds -> Connectors \cup Askers \cup {Nobody}]
      BY <1>5 DEF DidDiscoverCharacteristics, Answer, CallTypes
    <2>2. callPc' \in [Calls -> CallSteps]
      BY <1>5, ToldCalls DEF DidDiscoverCharacteristics, Answer, CallTypes
    <2>3. remaining' \in Nat
      BY <1>5 DEF DidDiscoverCharacteristics, CallTypes
    <2>4. QED BY <1>5, <2>1, <2>2, <2>3 DEF DidDiscoverCharacteristics, CallTypes
  <1>6. CASE DidConnect
    BY <1>6, ToldCalls DEF DidConnect, Answer, CallTypes, CallSteps
  <1>7. CASE DidFailToConnect
    BY <1>7, ToldCalls DEF DidFailToConnect, Answer, CallTypes, CallSteps
  <1>8. CASE DidDisconnect
    <2>1. /\ held' \in {held, FALSE}
          /\ disconnects' = disconnects \/ disconnects' = disconnects + 1
      BY <1>8 DEF DidDisconnect, Disconnecting
    <2>2. notified' \subseteq Writers
      BY <1>8 DEF DidDisconnect, Disconnecting, Listening, CallTypes
    <2>3. UNCHANGED <<waiter, callPc>>
      BY <1>8 DEF DidDisconnect, Disconnecting
    <2>4. held' \in BOOLEAN
      <3>1. held \in BOOLEAN
        BY DEF CallTypes
      <3>2. QED BY <2>1, <3>1
    <2>5. disconnects' \in Nat
      BY <2>1 DEF CallTypes
    <2>6. QED BY <1>8, <2>2, <2>3, <2>4, <2>5 DEF DidDisconnect, CallTypes
  <1>9. CASE FailPending
    BY <1>9, ToldCalls DEF FailPending, CallTypes, CallSteps
  <1>10. CASE DidBecomeWritable
    BY <1>10 DEF DidBecomeWritable, Listening, CallTypes, CallSteps
  <1>11. ASSUME NEW k \in Kinds, DidAnswerOp(k)
        PROVE  CallTypes'
    BY <1>11, ToldCalls DEF DidAnswerOp, GoesUnheard, Answer, CallTypes, CallSteps
  <1>12. ASSUME NEW c \in Connectors, KnownPeripheral(c)
        PROVE  CallTypes'
    BY <1>12 DEF KnownPeripheral, CallTypes, CallSteps
  <1>13. ASSUME NEW c \in Connectors, RegisterConnect(c)
        PROVE  CallTypes'
    <2>1. waiter' \in [AllKinds -> Connectors \cup Askers \cup {Nobody}]
      BY <1>13 DEF RegisterConnect, CallTypes
    <2>2. callPc' \in [Calls -> CallSteps]
      BY <1>13 DEF RegisterConnect, CallTypes, CallSteps
    <2>3. QED BY <1>13, <2>1, <2>2 DEF RegisterConnect, CallTypes
  <1>14. ASSUME NEW c \in Connectors, ConnectPeripheral(c)
        PROVE  CallTypes'
    BY <1>14 DEF ConnectPeripheral, CallTypes, CallSteps
  <1>15. ASSUME NEW c \in Connectors, ConnectTimeout(c)
        PROVE  CallTypes'
    <2>1. waiter' \in [AllKinds -> Connectors \cup Askers \cup {Nobody}]
      BY <1>15 DEF ConnectTimeout, CallTypes
    <2>2. callPc' \in [Calls -> CallSteps]
      <3>1. \E p \in {callPc, WithTold({waiter["connect"]})} :
              \E s \in CallSteps : callPc' = [p EXCEPT ![c] = s]
        BY <1>15 DEF ConnectTimeout, CallSteps
      <3>2. \A p \in {callPc, WithTold({waiter["connect"]})} : p \in [Calls -> CallSteps]
        BY ToldCalls DEF CallTypes
      <3>3. QED BY <3>1, <3>2
    <2>3. QED BY <1>15, <2>1, <2>2 DEF ConnectTimeout, CallTypes
  <1>16. ASSUME NEW c \in Connectors, DropConnect(c)
        PROVE  CallTypes'
    BY <1>16 DEF DropConnect, CallTypes, CallSteps
  <1>17. ASSUME NEW q \in Askers, RegisterOp(q)
        PROVE  CallTypes'
    BY <1>17, ToldCalls DEF RegisterOp, KindKnown, CallTypes, CallSteps
  <1>18. ASSUME NEW q \in Askers, IssueOp(q)
        PROVE  CallTypes'
    BY <1>18 DEF IssueOp, CallTypes, CallSteps
  <1>19. ASSUME NEW q \in Askers, NEW k \in Kinds, LookUp(q, k)
        PROVE  CallTypes'
    BY <1>19 DEF LookUp, CallTypes, CallSteps
  <1>20. ASSUME NEW w \in Writers, BeginWrite(w)
        PROVE  CallTypes'
    BY <1>20 DEF BeginWrite, HostTypes, CallTypes, CallSteps
  <1>21. ASSUME NEW w \in Writers, PostTurn(w)
        PROVE  CallTypes'
    BY <1>21 DEF PostTurn, CallTypes, CallSteps
  <1>22. ASSUME NEW w \in Writers, RunTurn(w)
        PROVE  CallTypes'
    <2>1. callPc' \in [Calls -> CallSteps]
      BY <1>22 DEF RunTurn, AfterTurn, CallTypes, CallSteps
    <2>2. sent[w] \in Seq(1..MaxLinks)
      BY DEF CallTypes
    <2>3. link # 0 => Append(sent[w], link) \in Seq(1..MaxLinks)
      <3>1. link # 0 => link \in 1..MaxLinks
        BY DEF HostTypes
      <3>2. QED BY <2>2, <3>1
    <2>4. sent' \in [Writers -> Seq(1..MaxLinks)]
      <3>1. \/ sent' = sent
            \/ link # 0 /\ sent' = [sent EXCEPT ![w] = Append(sent[w], link)]
        BY Zenon, <1>22 DEF RunTurn
      <3>2. sent \in [Writers -> Seq(1..MaxLinks)]
        BY DEF CallTypes
      <3>3. QED BY <2>3, <3>1, <3>2
    <2>5. /\ UNCHANGED <<held, delegate, disconnects, waiter, remaining, kind>>
          /\ UNCHANGED <<conn, issuedOn, missed, notified, expired>>
      BY <1>22 DEF RunTurn
    <2>6. QED BY <2>1, <2>4, <2>5 DEF CallTypes
  <1>23. ASSUME NEW w \in Writers, WriteDeadline(w)
        PROVE  CallTypes'
    BY <1>23 DEF WriteDeadline, CallTypes, CallSteps
  <1>24. ASSUME NEW w \in Writers, AbandonTurn(w)
        PROVE  CallTypes'
    BY <1>24 DEF AbandonTurn, CallTypes, CallSteps
  <1>25. ASSUME NEW w \in Writers, Wake(w)
        PROVE  CallTypes'
    BY <1>25 DEF Wake, CallTypes, CallSteps
  <1>26. ASSUME NEW w \in Writers, DropWrite(w)
        PROVE  CallTypes'
    BY <1>26 DEF DropWrite, CallTypes, CallSteps
  <1>27. QED BY <1>1, <1>2, <1>3, <1>4, <1>5, <1>6, <1>7, <1>8, <1>9, <1>10, <1>11, <1>12,
                <1>13, <1>14, <1>15, <1>16, <1>17, <1>18, <1>19, <1>20, <1>21, <1>22, <1>23,
                <1>24, <1>25, <1>26 DEF CentralNext

\* A request that CoreBluetooth took is answered, or failed by the disconnect.
LEMMA RequestsOwed ==
  ASSUME HostTypes, CallTypes, KindKnown, AcceptedIsOwed, CentralNext
  PROVE  (KindKnown /\ AcceptedIsOwed)'
  <1> USE CallsAssumption, KindsAssumption, BoundAssumption DEF centralVars, linkVars,
        queueVars, mapVars, writeVars
  <1>1. CASE DidDiscover \/ Disconnect \/ DidBecomeWritable
    BY <1>1 DEF DidDiscover, Disconnect, DidBecomeWritable, KindKnown, AcceptedIsOwed
  <1>2. ASSUME NEW w \in Writers,
             WriteDeadline(w)
       PROVE  (KindKnown /\ AcceptedIsOwed)'
    BY <1>2 DEF WriteDeadline, KindKnown, AcceptedIsOwed
  <1>3. CASE DidNotify
    <2>1. \A d \in Askers :
            /\ callPc'[d] = "waiting" => callPc[d] = "waiting"
            /\ callPc'[d] # "idle" => callPc[d] # "idle"
      BY <1>3, ToldBegins DEF DidNotify, Answer, Calls, CallTypes
    <2>2. KindKnown'
      BY <1>3, <2>1 DEF DidNotify, Answer, KindKnown
    <2>3. ASSUME NEW d \in Askers, callPc'[d] = "waiting", waiter'[kind[d]] = d
          PROVE  /\ callPc[d] = "waiting" /\ kind[d] \in Kinds /\ waiter[kind[d]] = d
                 /\ waiter' # [j \in AllKinds |-> Nobody]
      BY <1>3, <2>1, <2>3 DEF DidNotify, Answer, KindKnown, CallTypes, AllKinds
    <2>4. AcceptedIsOwed'
      BY <1>3, <2>3 DEF DidNotify, Answer, AcceptedIsOwed, CallTypes, HostTypes
    <2>5. QED BY <2>2, <2>4
  <1>4. CASE DidDiscoverServices
    <2>1. \A d \in Askers :
            /\ callPc'[d] = "waiting" => callPc[d] = "waiting"
            /\ callPc'[d] # "idle" => callPc[d] # "idle"
      BY <1>4, ToldBegins DEF DidDiscoverServices, GoesUnheard, Answer, Calls, CallTypes
    <2>2. KindKnown'
      BY <1>4, <2>1 DEF DidDiscoverServices, GoesUnheard, Answer, KindKnown
    <2>3. ASSUME NEW d \in Askers, callPc'[d] = "waiting", waiter'[kind[d]] = d
          PROVE  /\ callPc[d] = "waiting" /\ kind[d] \in Kinds /\ waiter[kind[d]] = d
                 /\ waiter' # [j \in AllKinds |-> Nobody]
      BY <1>4, <2>1, <2>3 DEF DidDiscoverServices, GoesUnheard, Answer, KindKnown, CallTypes,
         AllKinds
    <2>4. missed \subseteq missed'
      BY <1>4 DEF DidDiscoverServices, GoesUnheard
    <2>5. ASSUME NEW d \in Askers, callPc'[d] = "waiting", waiter'[kind[d]] = d,
                 d \notin missed'
          PROVE  \/ queueStep' \in {"remove", "bump", "fail"}
                 \/ asked'[kind[d]] > 0
                 \/ kind[d] = "discover" /\ remaining' > 0 /\ charsDue' >= remaining'
      <3>1. /\ callPc[d] = "waiting" /\ kind[d] \in Kinds /\ waiter[kind[d]] = d
            /\ d # Nobody /\ kind[d] \in AllKinds /\ d \notin missed
        BY <2>4, <2>3, <2>5 DEF AllKinds
      <3>2. CASE kind[d] = "discover"
        <4>1. charsDue' = charsDue + ServiceCount /\ remaining' = ServiceCount
          BY <1>4, <2>5, <3>1, <3>2 DEF DidDiscoverServices, GoesUnheard, Answer, CallTypes
        <4>2. QED BY <3>2, <4>1 DEF HostTypes
      <3>3. CASE kind[d] # "discover"
        <4>1. asked'[kind[d]] = asked[kind[d]] /\ queueStep' = queueStep
          BY <1>4, <3>1, <3>3 DEF DidDiscoverServices, HostTypes
        <4>2. QED BY <3>1, <3>3, <4>1 DEF AcceptedIsOwed
      <3>4. QED BY <3>2, <3>3
    <2>6. kind' = kind
      BY <1>4 DEF DidDiscoverServices
    <2>7. QED BY <2>2, <2>5, <2>6 DEF AcceptedIsOwed
  <1>5. CASE DidDiscoverCharacteristics
    <2>1. \A d \in Askers :
            /\ callPc'[d] = "waiting" => callPc[d] = "waiting"
            /\ callPc'[d] # "idle" => callPc[d] # "idle"
      BY <1>5, ToldBegins DEF DidDiscoverCharacteristics, Answer, Calls, CallTypes
    <2>2. KindKnown'
      BY <1>5, <2>1 DEF DidDiscoverCharacteristics, Answer, KindKnown
    <2>3. ASSUME NEW d \in Askers, callPc'[d] = "waiting", waiter'[kind[d]] = d
          PROVE  /\ callPc[d] = "waiting" /\ kind[d] \in Kinds /\ waiter[kind[d]] = d
                 /\ waiter' # [j \in AllKinds |-> Nobody]
      BY <1>5, <2>1, <2>3 DEF DidDiscoverCharacteristics, Answer, KindKnown, CallTypes,
         AllKinds
    <2>4. missed \subseteq missed'
      BY <1>5 DEF DidDiscoverCharacteristics
    <2>5. ASSUME NEW d \in Askers, callPc'[d] = "waiting", waiter'[kind[d]] = d,
                 d \notin missed'
          PROVE  \/ queueStep' \in {"remove", "bump", "fail"}
                 \/ asked'[kind[d]] > 0
                 \/ kind[d] = "discover" /\ remaining' > 0 /\ charsDue' >= remaining'
      <3>1. /\ callPc[d] = "waiting" /\ kind[d] \in Kinds /\ waiter[kind[d]] = d
            /\ d # Nobody /\ kind[d] \in AllKinds /\ d \notin missed
        BY <2>4, <2>3, <2>5 DEF AllKinds
      <3>2. asked' = asked /\ queueStep' = queueStep
        BY <1>5 DEF DidDiscoverCharacteristics
      <3>3. CASE kind[d] = "discover"
        <4>1. charsDue' = charsDue - 1 /\ waiter["discover"] # Nobody
          BY <1>5, <3>1, <3>3 DEF DidDiscoverCharacteristics
        <4>2. remaining > 1 /\ remaining' = remaining - 1
          BY <1>5, <2>5, <3>1, <3>3, <4>1 DEF DidDiscoverCharacteristics, Answer, CallTypes
        <4>3. QED BY <3>1, <3>2, <3>3, <4>1, <4>2 DEF AcceptedIsOwed, HostTypes, CallTypes
      <3>4. CASE kind[d] # "discover"
        BY <3>1, <3>2, <3>4 DEF AcceptedIsOwed
      <3>5. QED BY <3>3, <3>4
    <2>6. kind' = kind
      BY <1>5 DEF DidDiscoverCharacteristics
    <2>7. QED BY <2>2, <2>5, <2>6 DEF AcceptedIsOwed
  <1>6. CASE DidConnect
    <2>1. \A d \in Askers :
            /\ callPc'[d] = "waiting" => callPc[d] = "waiting"
            /\ callPc'[d] # "idle" => callPc[d] # "idle"
      BY <1>6, ToldBegins DEF DidConnect, Answer, Calls, CallTypes
    <2>2. KindKnown'
      BY <1>6, <2>1 DEF DidConnect, Answer, KindKnown
    <2>3. ASSUME NEW d \in Askers, callPc'[d] = "waiting", waiter'[kind[d]] = d
          PROVE  /\ callPc[d] = "waiting" /\ kind[d] \in Kinds /\ waiter[kind[d]] = d
                 /\ waiter' # [j \in AllKinds |-> Nobody]
      BY <1>6, <2>1, <2>3 DEF DidConnect, Answer, KindKnown, CallTypes, AllKinds
    <2>4. AcceptedIsOwed'
      BY <1>6, <2>3 DEF DidConnect, Answer, AcceptedIsOwed, CallTypes, HostTypes
    <2>5. QED BY <2>2, <2>4
  <1>7. CASE DidFailToConnect
    <2>1. \A d \in Askers :
            /\ callPc'[d] = "waiting" => callPc[d] = "waiting"
            /\ callPc'[d] # "idle" => callPc[d] # "idle"
      BY <1>7, ToldBegins DEF DidFailToConnect, Answer, Calls, CallTypes
    <2>2. KindKnown'
      BY <1>7, <2>1 DEF DidFailToConnect, Answer, KindKnown
    <2>3. ASSUME NEW d \in Askers, callPc'[d] = "waiting", waiter'[kind[d]] = d
          PROVE  /\ callPc[d] = "waiting" /\ kind[d] \in Kinds /\ waiter[kind[d]] = d
                 /\ waiter' # [j \in AllKinds |-> Nobody]
      BY <1>7, <2>1, <2>3 DEF DidFailToConnect, Answer, KindKnown, CallTypes, AllKinds
    <2>4. AcceptedIsOwed'
      BY <1>7, <2>3 DEF DidFailToConnect, Answer, AcceptedIsOwed, CallTypes, HostTypes
    <2>5. QED BY <2>2, <2>4
  <1>8. CASE CmdRun
    BY <1>8 DEF CmdRun, Calls, AllKinds, HostTypes, CallTypes, CallSteps, KindKnown,
       AcceptedIsOwed
  <1>9. CASE LinkDrop
    BY <1>9 DEF LinkDrop, Calls, AllKinds, HostTypes, CallTypes, CallSteps, KindKnown,
       AcceptedIsOwed
  <1>10. CASE DidDisconnect
    <2>1. /\ UNCHANGED <<waiter, callPc, kind, asked, charsDue, remaining, missed>>
          /\ queueStep' \in {"bump", "fail", "idle"}
          /\ queueStep' = "idle" => queueStep = "ready"
      BY <1>10 DEF DidDisconnect, Disconnecting
    <2>2. KindKnown'
      BY <2>1 DEF KindKnown
    <2>3. CASE queueStep' \in {"bump", "fail"}
      BY <2>2, <2>3 DEF AcceptedIsOwed
    <2>4. CASE queueStep' = "idle"
      BY <2>1, <2>2, <2>4 DEF AcceptedIsOwed
    <2>5. QED BY <2>1, <2>3, <2>4
  <1>11. CASE FailPending
    <2>1. \A d \in Askers :
            /\ callPc'[d] = "waiting" => callPc[d] = "waiting"
            /\ callPc'[d] # "idle" => callPc[d] # "idle"
      BY <1>11, ToldBegins DEF FailPending, Calls, CallTypes
    <2>2. KindKnown'
      BY <1>11, <2>1 DEF FailPending, KindKnown
    <2>3. ASSUME NEW d \in Askers, callPc'[d] = "waiting", waiter'[kind[d]] = d
          PROVE  /\ callPc[d] = "waiting" /\ kind[d] \in Kinds /\ waiter[kind[d]] = d
                 /\ waiter' # [j \in AllKinds |-> Nobody]
      BY <1>11, <2>1, <2>3 DEF FailPending, KindKnown, CallTypes, AllKinds
    <2>4. AcceptedIsOwed'
      BY <1>11, <2>3 DEF FailPending, AcceptedIsOwed, CallTypes, HostTypes
    <2>5. QED BY <2>2, <2>4
  <1>12. CASE StartTurn
    BY <1>12 DEF StartTurn, Calls, AllKinds, HostTypes, CallTypes, CallSteps, KindKnown,
       AcceptedIsOwed
  <1>13. ASSUME NEW k \in Kinds, DidAnswerOp(k)
        PROVE  (KindKnown /\ AcceptedIsOwed)'
    <2>1. \A d \in Askers :
            /\ callPc'[d] = "waiting" => callPc[d] = "waiting"
            /\ callPc'[d] # "idle" => callPc[d] # "idle"
      BY <1>13, ToldBegins DEF DidAnswerOp, GoesUnheard, Answer, Calls, CallTypes
    <2>2. KindKnown'
      BY <1>13, <2>1 DEF DidAnswerOp, GoesUnheard, Answer, KindKnown
    <2>3. ASSUME NEW d \in Askers, callPc'[d] = "waiting", waiter'[kind[d]] = d
          PROVE  /\ callPc[d] = "waiting" /\ kind[d] \in Kinds /\ waiter[kind[d]] = d
                 /\ waiter' # [j \in AllKinds |-> Nobody]
      BY <1>13, <2>1, <2>3 DEF DidAnswerOp, GoesUnheard, Answer, KindKnown, CallTypes,
         AllKinds
    <2>4. missed \subseteq missed'
      BY <1>13 DEF DidAnswerOp, GoesUnheard
    <2>5. ASSUME NEW d \in Askers, callPc'[d] = "waiting", waiter'[kind[d]] = d,
                 d \notin missed'
          PROVE  \/ queueStep' \in {"remove", "bump", "fail"}
                 \/ asked'[kind[d]] > 0
                 \/ kind[d] = "discover" /\ remaining' > 0 /\ charsDue' >= remaining'
      <3>1. /\ callPc[d] = "waiting" /\ kind[d] \in Kinds /\ waiter[kind[d]] = d
            /\ d # Nobody /\ kind[d] \in AllKinds /\ d \notin missed
        BY <2>4, <2>3, <2>5 DEF AllKinds
      <3>2. kind[d] # k
        BY <1>13, <2>5, <3>1 DEF DidAnswerOp, GoesUnheard, Answer, CallTypes
      <3>3. asked'[kind[d]] = asked[kind[d]]
        BY <1>13, <3>1, <3>2 DEF DidAnswerOp, HostTypes
      <3>4. QED BY <1>13, <3>1, <3>3 DEF DidAnswerOp, AcceptedIsOwed
    <2>6. kind' = kind
      BY <1>13 DEF DidAnswerOp
    <2>7. QED BY <2>2, <2>5, <2>6 DEF AcceptedIsOwed
  <1>14. ASSUME NEW c \in Connectors, KnownPeripheral(c)
        PROVE  (KindKnown /\ AcceptedIsOwed)'
    BY <1>14 DEF KnownPeripheral, Calls, AllKinds, HostTypes, CallTypes, CallSteps,
       KindKnown, AcceptedIsOwed
  <1>15. ASSUME NEW c \in Connectors, RegisterConnect(c)
        PROVE  (KindKnown /\ AcceptedIsOwed)'
    <2>1. \A d \in Askers :
            /\ callPc'[d] = "waiting" => callPc[d] = "waiting"
            /\ callPc'[d] # "idle" => callPc[d] # "idle"
      BY <1>15 DEF RegisterConnect, Calls, CallTypes
    <2>2. KindKnown'
      BY <1>15, <2>1 DEF RegisterConnect, KindKnown
    <2>3. ASSUME NEW d \in Askers, callPc'[d] = "waiting", waiter'[kind[d]] = d
          PROVE  /\ callPc[d] = "waiting" /\ kind[d] \in Kinds /\ waiter[kind[d]] = d
                 /\ waiter' # [j \in AllKinds |-> Nobody]
      BY <1>15, <2>1, <2>3 DEF RegisterConnect, KindKnown, CallTypes, AllKinds
    <2>4. AcceptedIsOwed'
      BY <1>15, <2>3 DEF RegisterConnect, AcceptedIsOwed, CallTypes, HostTypes
    <2>5. QED BY <2>2, <2>4
  <1>16. ASSUME NEW c \in Connectors, ConnectPeripheral(c)
        PROVE  (KindKnown /\ AcceptedIsOwed)'
    BY <1>16 DEF ConnectPeripheral, Calls, AllKinds, HostTypes, CallTypes, CallSteps,
       KindKnown, AcceptedIsOwed
  <1>17. ASSUME NEW c \in Connectors, ConnectTimeout(c)
        PROVE  (KindKnown /\ AcceptedIsOwed)'
    <2>1. \A d \in Askers :
            /\ callPc'[d] = "waiting" => callPc[d] = "waiting"
            /\ callPc'[d] # "idle" => callPc[d] # "idle"
      <3>1. \E p \in {callPc, WithTold({waiter["connect"]})} :
              \E s \in CallSteps : callPc' = [p EXCEPT ![c] = s]
        BY <1>17 DEF ConnectTimeout, CallSteps
      <3>2. c \notin Askers
        OBVIOUS
      <3>3. \A p \in {callPc, WithTold({waiter["connect"]})} : p \in [Calls -> CallSteps]
        BY ToldCalls DEF CallTypes
      <3>4. QED BY <3>1, <3>2, <3>3, ToldBegins DEF Calls
    <2>2. KindKnown'
      BY <1>17, <2>1 DEF ConnectTimeout, KindKnown
    <2>3. ASSUME NEW d \in Askers, callPc'[d] = "waiting", waiter'[kind[d]] = d
          PROVE  /\ callPc[d] = "waiting" /\ kind[d] \in Kinds /\ waiter[kind[d]] = d
                 /\ waiter' # [j \in AllKinds |-> Nobody]
      BY <1>17, <2>1, <2>3 DEF ConnectTimeout, KindKnown, CallTypes, AllKinds
    <2>4. AcceptedIsOwed'
      BY <1>17, <2>3 DEF ConnectTimeout, AcceptedIsOwed, CallTypes, HostTypes
    <2>5. QED BY <2>2, <2>4
  <1>18. ASSUME NEW c \in Connectors, DropConnect(c)
        PROVE  (KindKnown /\ AcceptedIsOwed)'
    BY <1>18 DEF DropConnect, Calls, AllKinds, HostTypes, CallTypes, CallSteps, KindKnown,
       AcceptedIsOwed
  <1>19. ASSUME NEW q \in Askers, RegisterOp(q)
        PROVE  (KindKnown /\ AcceptedIsOwed)'
    <2>1. \A d \in Askers :
            /\ callPc'[d] = "waiting" => d # q /\ callPc[d] = "waiting"
            /\ callPc'[d] # "idle" => callPc[d] # "idle"
      BY <1>19, ToldBegins DEF RegisterOp, Calls, CallTypes
    <2>2. KindKnown'
      BY <1>19, <2>1 DEF RegisterOp, KindKnown
    <2>3. ASSUME NEW d \in Askers, callPc'[d] = "waiting", waiter'[kind[d]] = d
          PROVE  /\ callPc[d] = "waiting" /\ kind[d] \in Kinds /\ waiter[kind[d]] = d
                 /\ waiter' # [j \in AllKinds |-> Nobody]
      BY <1>19, <2>1, <2>3 DEF RegisterOp, KindKnown, CallTypes, AllKinds
    <2>4. missed \subseteq missed'
      BY <1>19 DEF RegisterOp
    <2>5. ASSUME NEW d \in Askers, callPc'[d] = "waiting", waiter'[kind[d]] = d,
                 d \notin missed'
          PROVE  \/ queueStep' \in {"remove", "bump", "fail"}
                 \/ asked'[kind[d]] > 0
                 \/ kind[d] = "discover" /\ remaining' > 0 /\ charsDue' >= remaining'
      <3>1. /\ callPc[d] = "waiting" /\ kind[d] \in Kinds /\ waiter[kind[d]] = d
            /\ d # q /\ kind[d] \in AllKinds /\ d \notin missed
        BY <2>4, <2>1, <2>3, <2>5 DEF AllKinds
      <3>2. kind[d] # kind[q]
        BY <1>19, <2>5, <3>1 DEF RegisterOp, CallTypes
      <3>3. /\ UNCHANGED <<asked, charsDue, queueStep>>
            /\ kind[d] = "discover" => remaining' = remaining
        BY <1>19, <3>2 DEF RegisterOp
      <3>4. QED BY <3>1, <3>3 DEF AcceptedIsOwed
    <2>6. kind' = kind
      BY <1>19 DEF RegisterOp
    <2>7. QED BY <2>2, <2>5, <2>6 DEF AcceptedIsOwed
  <1>20. ASSUME NEW q \in Askers, IssueOp(q)
        PROVE  (KindKnown /\ AcceptedIsOwed)'
    BY <1>20 DEF IssueOp, Calls, AllKinds, HostTypes, CallTypes, CallSteps, KindKnown,
       AcceptedIsOwed
  <1>21. ASSUME NEW q \in Askers, NEW k \in Kinds, LookUp(q, k)
        PROVE  (KindKnown /\ AcceptedIsOwed)'
    BY <1>21 DEF LookUp, Calls, AllKinds, HostTypes, CallTypes, CallSteps, KindKnown,
       AcceptedIsOwed
  <1>22. ASSUME NEW w \in Writers, BeginWrite(w)
        PROVE  (KindKnown /\ AcceptedIsOwed)'
    BY <1>22 DEF BeginWrite, Calls, AllKinds, HostTypes, CallTypes, CallSteps, KindKnown,
       AcceptedIsOwed
  <1>23. ASSUME NEW w \in Writers, PostTurn(w)
        PROVE  (KindKnown /\ AcceptedIsOwed)'
    BY <1>23 DEF PostTurn, Calls, AllKinds, HostTypes, CallTypes, CallSteps, KindKnown,
       AcceptedIsOwed
  <1>24. ASSUME NEW w \in Writers, RunTurn(w)
        PROVE  (KindKnown /\ AcceptedIsOwed)'
    BY <1>24 DEF RunTurn, AfterTurn, Calls, AllKinds, HostTypes, CallTypes, CallSteps,
       KindKnown, AcceptedIsOwed
  <1>25. ASSUME NEW w \in Writers, AbandonTurn(w)
        PROVE  (KindKnown /\ AcceptedIsOwed)'
    BY <1>25 DEF AbandonTurn, Calls, AllKinds, HostTypes, CallTypes, CallSteps, KindKnown,
       AcceptedIsOwed
  <1>26. ASSUME NEW w \in Writers, Wake(w)
        PROVE  (KindKnown /\ AcceptedIsOwed)'
    BY <1>26 DEF Wake, Calls, AllKinds, HostTypes, CallTypes, CallSteps, KindKnown,
       AcceptedIsOwed
  <1>27. ASSUME NEW w \in Writers, DropWrite(w)
        PROVE  (KindKnown /\ AcceptedIsOwed)'
    BY <1>27 DEF DropWrite, Calls, AllKinds, HostTypes, CallTypes, CallSteps, KindKnown,
       AcceptedIsOwed
  <1>28. QED BY <1>1, <1>2, <1>3, <1>4, <1>5, <1>6, <1>7, <1>8, <1>9, <1>10, <1>11, <1>12,
                <1>13, <1>14, <1>15, <1>16, <1>17, <1>18, <1>19, <1>20, <1>21, <1>22, <1>23,
                <1>24, <1>25, <1>26, <1>27 DEF CentralNext

(***************************************************************************)
(* Writes without response.                                                *)
(***************************************************************************)

\* A step that is nothing to any write.
Elsewhere ==
  /\ \A w \in Writers : callPc'[w] = callPc[w]
  /\ missed \subseteq missed'
  /\ UNCHANGED <<link, room, queueStep, writeTurns, disconnects, conn, issuedOn, notified,
                 expired, sent>>

\* A step of the host or of the queue that takes no turn.
BesideWrites ==
  /\ \A w \in Writers : callPc'[w] = callPc[w]
  /\ UNCHANGED <<writeTurns, conn, issuedOn, expired, sent>>
  /\ \/ DidConnect \/ CmdRun \/ LinkDrop \/ DidDisconnect \/ FailPending \/ DidBecomeWritable

OfWrites ==
  \/ StartTurn
  \/ \E w \in Writers : BeginWrite(w) \/ PostTurn(w) \/ RunTurn(w) \/ WriteDeadline(w)
                        \/ AbandonTurn(w) \/ Wake(w) \/ DropWrite(w)

\* The writes share with the rest the link, the count and the queue.
LEMMA WritesLeftAlone ==
  ASSUME CallTypes, KindKnown, CentralNext
  PROVE  (Elsewhere \/ BesideWrites \/ OfWrites)
  <1> USE CallsAssumption, KindsAssumption, BoundAssumption DEF centralVars, linkVars,
        queueVars, mapVars, writeVars
  <1>1. CASE DidDiscover
    BY <1>1 DEF DidDiscover, CallTypes, Calls, Elsewhere
  <1>2. CASE Disconnect
    BY <1>2 DEF Disconnect, CallTypes, Calls, Elsewhere
  <1>3. CASE DidNotify
    <2>1. \A w \in Writers : callPc'[w] = callPc[w]
      <3>1. callPc' = callPc \/ callPc' = WithTold({waiter["read"]})
        BY <1>3 DEF DidNotify, Answer
      <3>2. "read" \in AllKinds
        BY KindsAssumption DEF AllKinds
      <3>3. QED BY <3>1, <3>2, ToldNoWrite, WaiterIsCall
    <2>2. QED BY <1>3, <2>1 DEF DidNotify, Elsewhere
  <1>4. CASE DidDiscoverServices
    <2>1. \A w \in Writers : callPc'[w] = callPc[w]
      <3>1. callPc' = callPc \/ callPc' = WithTold({waiter["discover"]})
        BY <1>4 DEF DidDiscoverServices, GoesUnheard, Answer
      <3>2. "discover" \in AllKinds
        BY KindsAssumption DEF AllKinds
      <3>3. QED BY <3>1, <3>2, ToldNoWrite, WaiterIsCall
    <2>2. QED BY <1>4, <2>1 DEF DidDiscoverServices, GoesUnheard, Elsewhere
  <1>5. CASE DidDiscoverCharacteristics
    <2>1. \A w \in Writers : callPc'[w] = callPc[w]
      <3>1. callPc' = callPc \/ callPc' = WithTold({waiter["discover"]})
        BY <1>5 DEF DidDiscoverCharacteristics, Answer
      <3>2. "discover" \in AllKinds
        BY KindsAssumption DEF AllKinds
      <3>3. QED BY <3>1, <3>2, ToldNoWrite, WaiterIsCall
    <2>2. QED BY <1>5, <2>1 DEF DidDiscoverCharacteristics, Elsewhere
  <1>6. CASE DidConnect
    <2>1. \A w \in Writers : callPc'[w] = callPc[w]
      <3>1. callPc' = WithTold({waiter["connect"]}) /\ "connect" \in AllKinds
        BY <1>6 DEF DidConnect, Answer, AllKinds
      <3>2. QED BY <3>1, ToldNoWrite, WaiterIsCall
    <2>2. QED BY <1>6, <2>1 DEF DidConnect, BesideWrites
  <1>7. CASE DidFailToConnect
    <2>1. \A w \in Writers : callPc'[w] = callPc[w]
      <3>1. callPc' = callPc \/ callPc' = WithTold({waiter["connect"]})
        BY <1>7 DEF DidFailToConnect, Answer
      <3>2. "connect" \in AllKinds
        BY KindsAssumption DEF AllKinds
      <3>3. QED BY <3>1, <3>2, ToldNoWrite, WaiterIsCall
    <2>2. QED BY <1>7, <2>1 DEF DidFailToConnect, Elsewhere
  <1>8. CASE CmdRun
    BY <1>8 DEF CmdRun, BesideWrites
  <1>9. CASE LinkDrop
    BY <1>9 DEF LinkDrop, BesideWrites
  <1>10. CASE DidDisconnect
    BY <1>10 DEF DidDisconnect, Disconnecting, BesideWrites
  <1>11. CASE FailPending
    <2>1. \A w \in Writers : callPc'[w] = callPc[w]
      <3>1. callPc' = WithTold({waiter[j] : j \in AllKinds}) /\ "connect" \in AllKinds
        BY <1>11 DEF FailPending, AllKinds
      <3>2. QED BY <3>1, ToldNoWrite, WaiterIsCall
    <2>2. QED BY <1>11, <2>1 DEF FailPending, BesideWrites
  <1>12. CASE StartTurn
    BY <1>12 DEF OfWrites
  <1>13. CASE DidBecomeWritable
    BY <1>13 DEF DidBecomeWritable, BesideWrites
  <1>14. ASSUME NEW k \in Kinds, DidAnswerOp(k)
        PROVE  (Elsewhere \/ BesideWrites \/ OfWrites)
    <2>1. \A w \in Writers : callPc'[w] = callPc[w]
      <3>1. callPc' = callPc \/ callPc' = WithTold({waiter[k]})
        BY <1>14 DEF DidAnswerOp, GoesUnheard, Answer
      <3>2. k \in AllKinds
        BY KindsAssumption DEF AllKinds
      <3>3. QED BY <3>1, <3>2, ToldNoWrite, WaiterIsCall
    <2>2. QED BY <1>14, <2>1 DEF DidAnswerOp, GoesUnheard, Elsewhere
  <1>15. ASSUME NEW c \in Connectors, KnownPeripheral(c)
        PROVE  (Elsewhere \/ BesideWrites \/ OfWrites)
    BY <1>15 DEF KnownPeripheral, CallTypes, Calls, Elsewhere
  <1>16. ASSUME NEW c \in Connectors, RegisterConnect(c)
        PROVE  (Elsewhere \/ BesideWrites \/ OfWrites)
    BY <1>16 DEF RegisterConnect, CallTypes, Calls, Elsewhere
  <1>17. ASSUME NEW c \in Connectors, ConnectPeripheral(c)
        PROVE  (Elsewhere \/ BesideWrites \/ OfWrites)
    BY <1>17 DEF ConnectPeripheral, CallTypes, Calls, Elsewhere
  <1>18. ASSUME NEW c \in Connectors, ConnectTimeout(c)
        PROVE  (Elsewhere \/ BesideWrites \/ OfWrites)
    <2>1. \A w \in Writers : callPc'[w] = callPc[w]
      <3>1. \E p \in {callPc, WithTold({waiter["connect"]})} :
              \E s \in CallSteps : callPc' = [p EXCEPT ![c] = s]
        BY <1>18 DEF ConnectTimeout, CallSteps
      <3>2. c \notin Writers /\ "connect" \in AllKinds
        BY DEF AllKinds
      <3>3. \A p \in {callPc, WithTold({waiter["connect"]})} : p \in [Calls -> CallSteps]
        BY ToldCalls DEF CallTypes
      <3>4. QED BY <3>1, <3>2, <3>3, ToldNoWrite, WaiterIsCall DEF Calls
    <2>2. QED BY <1>18, <2>1 DEF ConnectTimeout, Elsewhere
  <1>19. ASSUME NEW c \in Connectors, DropConnect(c)
        PROVE  (Elsewhere \/ BesideWrites \/ OfWrites)
    BY <1>19 DEF DropConnect, CallTypes, Calls, Elsewhere
  <1>20. ASSUME NEW q \in Askers, RegisterOp(q)
        PROVE  (Elsewhere \/ BesideWrites \/ OfWrites)
    <2>1. \A w \in Writers : callPc'[w] = callPc[w]
      <3>1. kind[q] \in AllKinds /\ q \notin Writers
        BY <1>20 DEF RegisterOp, KindKnown, AllKinds
      <3>2. callPc' = [WithTold({waiter[kind[q]]}) EXCEPT ![q] = "registered"]
        BY <1>20 DEF RegisterOp
      <3>3. WithTold({waiter[kind[q]]}) \in [Calls -> CallSteps]
        BY ToldCalls
      <3>4. QED BY <3>1, <3>2, <3>3, ToldNoWrite, WaiterIsCall DEF Calls
    <2>2. QED BY <1>20, <2>1 DEF RegisterOp, Elsewhere
  <1>21. ASSUME NEW q \in Askers, IssueOp(q)
        PROVE  (Elsewhere \/ BesideWrites \/ OfWrites)
    BY <1>21 DEF IssueOp, CallTypes, Calls, Elsewhere
  <1>22. ASSUME NEW q \in Askers, NEW k \in Kinds, LookUp(q, k)
        PROVE  (Elsewhere \/ BesideWrites \/ OfWrites)
    BY <1>22 DEF LookUp, CallTypes, Calls, Elsewhere
  <1>23. ASSUME NEW w \in Writers, BeginWrite(w)
        PROVE  (Elsewhere \/ BesideWrites \/ OfWrites)
    BY <1>23 DEF OfWrites
  <1>24. ASSUME NEW w \in Writers, PostTurn(w)
        PROVE  (Elsewhere \/ BesideWrites \/ OfWrites)
    BY <1>24 DEF OfWrites
  <1>25. ASSUME NEW w \in Writers, RunTurn(w)
        PROVE  (Elsewhere \/ BesideWrites \/ OfWrites)
    BY <1>25 DEF OfWrites
  <1>26. ASSUME NEW w \in Writers, WriteDeadline(w)
        PROVE  (Elsewhere \/ BesideWrites \/ OfWrites)
    BY <1>26 DEF OfWrites
  <1>27. ASSUME NEW w \in Writers, AbandonTurn(w)
        PROVE  (Elsewhere \/ BesideWrites \/ OfWrites)
    BY <1>27 DEF OfWrites
  <1>28. ASSUME NEW w \in Writers, Wake(w)
        PROVE  (Elsewhere \/ BesideWrites \/ OfWrites)
    BY <1>28 DEF OfWrites
  <1>29. ASSUME NEW w \in Writers, DropWrite(w)
        PROVE  (Elsewhere \/ BesideWrites \/ OfWrites)
    BY <1>29 DEF OfWrites
  <1>30. QED BY <1>1, <1>2, <1>3, <1>4, <1>5, <1>6, <1>7, <1>8, <1>9, <1>10, <1>11, <1>12,
                <1>13, <1>14, <1>15, <1>16, <1>17, <1>18, <1>19, <1>20, <1>21, <1>22, <1>23,
                <1>24, <1>25, <1>26, <1>27, <1>28, <1>29 DEF CentralNext

\* A turn is of a write.
LEMMA OtherTurns ==
  ASSUME HostTypes
  PROVE  \A i \in DOMAIN writeTurns : writeTurns[i].by \in Writers
  <1> TAKE i \in DOMAIN writeTurns
  <1>1. writeTurns[i] \in WriteTurnSet
    BY DEF HostTypes
  <1>2. QED BY <1>1 DEF WriteTurnSet

\* A turn runs for the write that waits for it, once.
LEMMA TurnsStayClaimed ==
  ASSUME HostTypes, CallTypes, KindKnown, HostTypes', CallTypes', TurnsClaimed, CentralNext
  PROVE  TurnsClaimed'
  <1> USE CallsAssumption, KindsAssumption, BoundAssumption DEF queueVars, linkVars,
        mapVars, writeVars
  <1>1. CASE Elsewhere
    BY <1>1, OtherTurns DEF Elsewhere, TurnsClaimed
  <1>2. CASE BesideWrites /\ DidConnect
    BY <1>2, OtherTurns DEF BesideWrites, DidConnect, TurnsClaimed
  <1>3. CASE BesideWrites /\ CmdRun
    BY <1>3, OtherTurns DEF BesideWrites, CmdRun, TurnsClaimed
  <1>4. CASE BesideWrites /\ LinkDrop
    BY <1>4, OtherTurns DEF BesideWrites, LinkDrop, TurnsClaimed
  <1>5. CASE BesideWrites /\ DidDisconnect
    BY <1>5, OtherTurns DEF BesideWrites, DidDisconnect, Disconnecting, TurnsClaimed
  <1>6. CASE BesideWrites /\ FailPending
    BY <1>6, OtherTurns DEF BesideWrites, FailPending, TurnsClaimed
  <1>7. CASE BesideWrites /\ DidBecomeWritable
    BY <1>7, OtherTurns DEF BesideWrites, DidBecomeWritable, TurnsClaimed
  <1>8. CASE StartTurn
    <2>1. /\ writeTurns # << >> /\ writeTurns' = Tail(writeTurns)
          /\ queueStep = "idle" /\ callPc' = callPc
      BY <1>8 DEF StartTurn
    <2>2. \A i \in DOMAIN writeTurns' :
            i \in Nat \ {0} /\ i + 1 \in DOMAIN writeTurns /\ writeTurns'[i] = writeTurns[i + 1]
      BY <2>1, FirstWriteTurn
    <2>3. queueStep' = IF writeTurns[1].live THEN writeTurns[1].by ELSE "idle"
      BY <1>8, FirstWriteTurn DEF StartTurn
    <2>4. 1 \in DOMAIN writeTurns /\ writeTurns[1].by \in Writers
      BY <2>1, FirstWriteTurn DEF WriteTurnSet
    <2>5. \A i \in DOMAIN writeTurns' : writeTurns'[i].live =>
            callPc[writeTurns'[i].by] = "turn" /\ writeTurns'[i].by \in Writers
            /\ (writeTurns[1].live => writeTurns'[i].by # writeTurns[1].by)
      <3> TAKE i \in DOMAIN writeTurns'
      <3>1. i + 1 \in DOMAIN writeTurns /\ i + 1 # 1 /\ writeTurns'[i] = writeTurns[i + 1]
        BY <2>2
      <3>2. writeTurns[i + 1] \in WriteTurnSet
        BY <3>1 DEF HostTypes
      <3>3. QED BY <2>4, <3>1, <3>2 DEF TurnsClaimed, WriteTurnSet
    <2>6. \A i, j \in DOMAIN writeTurns' :
            writeTurns'[i].live /\ writeTurns'[j].live /\ writeTurns'[i].by = writeTurns'[j].by
              => i = j
      <3> TAKE i, j \in DOMAIN writeTurns'
      <3>1. /\ i + 1 \in DOMAIN writeTurns /\ writeTurns'[i] = writeTurns[i + 1] /\ i \in Nat
            /\ j + 1 \in DOMAIN writeTurns /\ writeTurns'[j] = writeTurns[j + 1] /\ j \in Nat
        BY <2>2
      <3>2. i + 1 = j + 1 => i = j
        BY <3>1
      <3>3. QED BY <3>1, <3>2 DEF TurnsClaimed
    <2>7. queueStep' \in Writers => callPc[queueStep'] = "turn"
      BY <2>3, <2>4 DEF TurnsClaimed
    <2>8. QED BY <2>1, <2>3, <2>4, <2>5, <2>6, <2>7 DEF TurnsClaimed
  <1>9. ASSUME NEW w \in Writers, BeginWrite(w)
       PROVE  TurnsClaimed'
    <2>1. /\ queueStep' = queueStep /\ writeTurns' = writeTurns
          /\ callPc[w] \notin {"turn", "late"}
          /\ \A v \in Writers : v # w => callPc'[v] = callPc[v]
      BY <1>9 DEF BeginWrite, CallTypes, Calls
    <2>2. QED BY <2>1, OtherTurns DEF TurnsClaimed
  <1>10. ASSUME NEW w \in Writers, PostTurn(w)
       PROVE  TurnsClaimed'
    <2>1. /\ callPc[w] = "arm" /\ callPc' = [callPc EXCEPT ![w] = "turn"]
          /\ queueStep' = queueStep
          /\ writeTurns' = Append(writeTurns, [by |-> w, live |-> TRUE]) /\ w \in Calls
          /\ callPc \in [Calls -> CallSteps]
      BY <1>10 DEF PostTurn, Calls, CallTypes
    <2>2. [by |-> w, live |-> TRUE] \in WriteTurnSet
      BY DEF WriteTurnSet
    <2>3. \A i \in DOMAIN writeTurns' :
            \/ i \in DOMAIN writeTurns /\ writeTurns'[i] = writeTurns[i]
            \/ i = Len(writeTurns) + 1 /\ writeTurns'[i].by = w
      BY <2>1, <2>2, LastWriteTurn
    <2>4. \A i \in DOMAIN writeTurns : writeTurns[i].live =>
            writeTurns[i].by # w /\ writeTurns[i].by \in Writers
      <3> TAKE i \in DOMAIN writeTurns
      <3>1. writeTurns[i] \in WriteTurnSet
        BY DEF HostTypes
      <3>2. QED BY <2>1, <3>1 DEF TurnsClaimed, WriteTurnSet
    <2>5. queueStep # w
      BY <2>1 DEF TurnsClaimed
    <2>6. \A i \in DOMAIN writeTurns' : writeTurns'[i].live =>
            callPc'[writeTurns'[i].by] = "turn" /\ queueStep' # writeTurns'[i].by
      BY <2>1, <2>3, <2>4, <2>5 DEF TurnsClaimed, Calls
    <2>7. \A i, j \in DOMAIN writeTurns' :
            writeTurns'[i].live /\ writeTurns'[j].live /\ writeTurns'[i].by = writeTurns'[j].by
              => i = j
      BY <2>3, <2>4 DEF TurnsClaimed
    <2>8. queueStep' \in Writers => callPc'[queueStep'] \in {"turn", "late"}
      BY <2>1, <2>5 DEF TurnsClaimed, Calls
    <2>9. QED BY <2>6, <2>7, <2>8 DEF TurnsClaimed
  <1>11. ASSUME NEW w \in Writers, RunTurn(w)
       PROVE  TurnsClaimed'
    <2>1. /\ queueStep = w /\ queueStep' = "idle" /\ writeTurns' = writeTurns
          /\ \A v \in Writers : v # w => callPc'[v] = callPc[v]
      BY <1>11 DEF RunTurn, AfterTurn, CallTypes, Calls
    <2>2. QED BY <2>1, OtherTurns DEF TurnsClaimed
  <1>12. ASSUME NEW w \in Writers, WriteDeadline(w)
       PROVE  TurnsClaimed'
    BY <1>12 DEF WriteDeadline, TurnsClaimed
  <1>13. ASSUME NEW w \in Writers, AbandonTurn(w)
       PROVE  TurnsClaimed'
    <2>1. /\ queueStep # w /\ queueStep' = queueStep /\ writeTurns' = Abandoned(w)
          /\ \A v \in Writers : v # w => callPc'[v] = callPc[v]
      BY <1>13 DEF AbandonTurn, CallTypes, Calls
    <2>2. QED BY <2>1, AbandonedTurns, OtherTurns DEF TurnsClaimed
  <1>14. ASSUME NEW w \in Writers, Wake(w)
       PROVE  TurnsClaimed'
    <2>1. /\ queueStep' = queueStep /\ writeTurns' = writeTurns
          /\ callPc[w] \notin {"turn", "late"}
          /\ \A v \in Writers : v # w => callPc'[v] = callPc[v]
      BY <1>14 DEF Wake, CallTypes, Calls
    <2>2. QED BY <2>1, OtherTurns DEF TurnsClaimed
  <1>15. ASSUME NEW w \in Writers, DropWrite(w)
       PROVE  TurnsClaimed'
    <2>1. /\ queueStep' = queueStep /\ writeTurns' = Abandoned(w)
          /\ (queueStep = w => callPc'[w] = "late")
          /\ \A v \in Writers : v # w => callPc'[v] = callPc[v]
      BY <1>15 DEF DropWrite, CallTypes, Calls
    <2>2. QED BY <2>1, AbandonedTurns, OtherTurns DEF TurnsClaimed
  <1>16. QED BY WritesLeftAlone, <1>1, <1>2, <1>3, <1>4, <1>5, <1>6, <1>7, <1>8, <1>9,
                <1>10, <1>11, <1>12, <1>13, <1>14, <1>15 DEF BesideWrites, OfWrites

\* A connection that ends is counted out before anything else runs on the queue.
LEMMA CountsStayTrue ==
  ASSUME HostTypes, CallTypes, KindKnown, HostTypes', CallTypes', CountedConnection,
         CentralNext
  PROVE  CountedConnection'
  <1> USE CallsAssumption, KindsAssumption, BoundAssumption DEF queueVars, linkVars,
        mapVars, writeVars
  <1>1. CASE Elsewhere
    BY <1>1 DEF Elsewhere, CountedConnection, HostTypes, CallTypes
  <1>2. CASE BesideWrites /\ DidConnect
    BY <1>2 DEF BesideWrites, DidConnect, CountedConnection, HostTypes, CallTypes
  <1>3. CASE BesideWrites /\ CmdRun
    BY <1>3 DEF BesideWrites, CmdRun, CountedConnection, HostTypes, CallTypes
  <1>4. CASE BesideWrites /\ LinkDrop
    BY <1>4 DEF BesideWrites, LinkDrop, CountedConnection, HostTypes, CallTypes
  <1>5. CASE BesideWrites /\ DidDisconnect
    BY <1>5 DEF BesideWrites, DidDisconnect, Disconnecting, CountedConnection, HostTypes,
       CallTypes
  <1>6. CASE BesideWrites /\ FailPending
    BY <1>6 DEF BesideWrites, FailPending, CountedConnection, HostTypes, CallTypes
  <1>7. CASE BesideWrites /\ DidBecomeWritable
    BY <1>7 DEF BesideWrites, DidBecomeWritable, CountedConnection, HostTypes, CallTypes
  <1>8. CASE StartTurn
    BY <1>8 DEF StartTurn, CountedConnection, HostTypes, CallTypes
  <1>9. ASSUME NEW w \in Writers, BeginWrite(w)
       PROVE  CountedConnection'
    BY <1>9 DEF BeginWrite, CountedConnection, HostTypes, CallTypes
  <1>10. ASSUME NEW w \in Writers, PostTurn(w)
       PROVE  CountedConnection'
    BY <1>10 DEF PostTurn, CountedConnection, HostTypes, CallTypes
  <1>11. ASSUME NEW w \in Writers, RunTurn(w)
       PROVE  CountedConnection'
    BY <1>11 DEF RunTurn, CountedConnection, HostTypes, CallTypes
  <1>12. ASSUME NEW w \in Writers, WriteDeadline(w)
       PROVE  CountedConnection'
    BY <1>12 DEF WriteDeadline, CountedConnection, HostTypes, CallTypes
  <1>13. ASSUME NEW w \in Writers, AbandonTurn(w)
       PROVE  CountedConnection'
    BY <1>13 DEF AbandonTurn, CountedConnection, HostTypes, CallTypes
  <1>14. ASSUME NEW w \in Writers, Wake(w)
       PROVE  CountedConnection'
    BY <1>14 DEF Wake, CountedConnection, HostTypes, CallTypes
  <1>15. ASSUME NEW w \in Writers, DropWrite(w)
       PROVE  CountedConnection'
    BY <1>15 DEF DropWrite, CountedConnection, HostTypes, CallTypes
  <1>16. QED BY WritesLeftAlone, <1>1, <1>2, <1>3, <1>4, <1>5, <1>6, <1>7, <1>8, <1>9,
                <1>10, <1>11, <1>12, <1>13, <1>14, <1>15 DEF BesideWrites, OfWrites

\* A value goes out in a turn, on the connection whose count the write captured.
LEMMA SentStaysOver ==
  ASSUME HostTypes, CallTypes, KindKnown, HostTypes', CallTypes', TurnsClaimed, SentIsOver,
         CountedConnection, SentOnce, CentralNext
  PROVE  (SentIsOver /\ SentOnce)'
  <1> USE CallsAssumption, KindsAssumption, BoundAssumption DEF queueVars, linkVars,
        mapVars, writeVars
  <1>1. CASE Elsewhere
    BY <1>1 DEF Elsewhere, SentIsOver, SentOnce
  <1>2. CASE BesideWrites /\ DidConnect
    BY <1>2 DEF BesideWrites, DidConnect, SentIsOver, SentOnce, TurnsClaimed
  <1>3. CASE BesideWrites /\ CmdRun
    BY <1>3 DEF BesideWrites, CmdRun, SentIsOver, SentOnce, TurnsClaimed
  <1>4. CASE BesideWrites /\ LinkDrop
    BY <1>4 DEF BesideWrites, LinkDrop, SentIsOver, SentOnce, TurnsClaimed
  <1>5. CASE BesideWrites /\ DidDisconnect
    BY <1>5 DEF BesideWrites, DidDisconnect, Disconnecting, SentIsOver, SentOnce,
       TurnsClaimed
  <1>6. CASE BesideWrites /\ FailPending
    BY <1>6 DEF BesideWrites, FailPending, SentIsOver, SentOnce, TurnsClaimed
  <1>7. CASE BesideWrites /\ DidBecomeWritable
    BY <1>7 DEF BesideWrites, DidBecomeWritable, SentIsOver, SentOnce, TurnsClaimed
  <1>8. CASE StartTurn
    <2>1. UNCHANGED <<callPc, sent, issuedOn>>
      BY <1>8 DEF StartTurn
    <2>2. ASSUME NEW v \in Writers, queueStep' = v
          PROVE  callPc[v] = "turn"
      <3>1. queueStep' = IF writeTurns[1].live THEN writeTurns[1].by ELSE "idle"
        BY <1>8, FirstWriteTurn DEF StartTurn
      <3>2. 1 \in DOMAIN writeTurns
        BY <1>8, FirstWriteTurn DEF StartTurn
      <3>3. QED BY <2>2, <3>1, <3>2 DEF TurnsClaimed
    <2>3. QED BY <2>1, <2>2 DEF SentIsOver, SentOnce
  <1>9. ASSUME NEW w \in Writers, BeginWrite(w)
       PROVE  (SentIsOver /\ SentOnce)'
    <2>1. callPc[w] = "idle" /\ UNCHANGED <<sent, queueStep>>
      BY <1>9 DEF BeginWrite
    <2>2. \A v \in Writers : v # w => callPc'[v] = callPc[v] /\ issuedOn'[v] = issuedOn[v]
      BY <1>9 DEF BeginWrite, CallTypes, Calls
    <2>3. sent[w] = << >> /\ sent[w] \in Seq(1..MaxLinks)
      BY <2>1 DEF SentIsOver, CallTypes
    <2>4. DOMAIN sent[w] = {}
      BY <2>3
    <2>5. QED BY <2>1, <2>2, <2>3, <2>4 DEF SentIsOver, SentOnce
  <1>10. ASSUME NEW w \in Writers, PostTurn(w)
       PROVE  (SentIsOver /\ SentOnce)'
    <2>1. callPc[w] \notin {"done", "late"} /\ UNCHANGED <<sent, queueStep, issuedOn>>
      BY <1>10 DEF PostTurn
    <2>2. \A v \in Writers : v # w => callPc'[v] = callPc[v]
      BY <1>10 DEF PostTurn, CallTypes, Calls
    <2>3. QED BY <2>1, <2>2 DEF SentIsOver, SentOnce
  <1>11. ASSUME NEW w \in Writers, RunTurn(w)
       PROVE  (SentIsOver /\ SentOnce)'
    <2>1. /\ queueStep = w /\ queueStep' = "idle" /\ "idle" \notin Writers
          /\ UNCHANGED <<issuedOn, conn, disconnects>> /\ callPc[w] \in {"turn", "late"}
      BY <1>11 DEF RunTurn, TurnsClaimed
    <2>2. \A v \in Writers : v # w => callPc'[v] = callPc[v] /\ sent'[v] = sent[v]
      BY <1>11 DEF RunTurn, AfterTurn, CallTypes, Calls
    <2>3. sent[w] = << >>
      BY <2>1 DEF SentIsOver
    <2>4. \/ sent'[w] = sent[w]
          \/ sent'[w] = Append(sent[w], link) /\ link # 0 /\ SameConnection(w)
      <3>1. \/ sent' = sent
            \/ /\ sent' = [sent EXCEPT ![w] = Append(sent[w], link)]
               /\ link # 0 /\ SameConnection(w)
        BY <1>11 DEF RunTurn
      <3>2. w \in DOMAIN sent
        BY DEF CallTypes
      <3>3. QED BY <3>1, <3>2
    <2>5. CASE sent'[w] = sent[w]
      BY <2>1, <2>2, <2>3, <2>5 DEF SentIsOver, SentOnce
    <2>6. CASE sent'[w] = Append(sent[w], link) /\ link # 0 /\ SameConnection(w)
      <3>1. sent'[w] = << link >>
        BY <2>3, <2>6
      <3>2. Len(sent'[w]) = 1 /\ DOMAIN sent'[w] = {1} /\ sent'[w][1] = link
        BY <3>1
      <3>3. w \notin {"remove", "bump"} /\ (issuedOn[w] # 0 => link = issuedOn[w])
        BY <2>1, <2>6 DEF CountedConnection, SameConnection
      <3>4. callPc'[w] \in {"done", "late"}
        <4>1. sent[w] # sent'[w]
          BY <2>3, <3>1
        <4>2. callPc' = AfterTurn(w, "done")
          BY <1>11, <4>1 DEF RunTurn
        <4>3. QED BY <2>1, <4>2 DEF AfterTurn, CallTypes, Calls
      <3>5. SentIsOver'
        BY <2>1, <2>2, <3>4 DEF SentIsOver
      <3>6. ASSUME NEW v \in Writers
            PROVE  /\ Len(sent'[v]) <= 1
                   /\ issuedOn'[v] # 0 => \A i \in DOMAIN sent'[v] : sent'[v][i] = issuedOn'[v]
        <4>1. CASE v = w
          <5>1. Len(sent'[v]) <= 1
            <6>1. Len(sent'[v]) = 1
              BY <3>2, <4>1
            <6>2. QED BY <6>1
          <5>2. ASSUME issuedOn'[v] # 0, NEW i \in DOMAIN sent'[v]
                PROVE  sent'[v][i] = issuedOn'[v]
            <6>1. issuedOn'[v] = issuedOn[w] /\ link = issuedOn[w]
              BY <2>1, <3>3, <4>1, <5>2
            <6>2. i = 1 /\ sent'[v][1] = link
              BY <3>2, <4>1
            <6>3. QED BY <6>1, <6>2
          <5>3. QED BY <5>1, <5>2
        <4>2. CASE v # w
          BY <2>1, <2>2, <4>2 DEF SentOnce
        <4>3. QED BY <4>1, <4>2
      <3>7. QED BY <3>5, <3>6 DEF SentOnce
    <2>7. QED BY <2>4, <2>5, <2>6
  <1>12. ASSUME NEW w \in Writers, WriteDeadline(w)
       PROVE  (SentIsOver /\ SentOnce)'
    <2>1. callPc[w] \notin {"done", "late"} /\ UNCHANGED <<sent, queueStep, issuedOn>>
      BY <1>12 DEF WriteDeadline
    <2>2. \A v \in Writers : v # w => callPc'[v] = callPc[v]
      BY <1>12 DEF WriteDeadline, CallTypes, Calls
    <2>3. QED BY <2>1, <2>2 DEF SentIsOver, SentOnce
  <1>13. ASSUME NEW w \in Writers, AbandonTurn(w)
       PROVE  (SentIsOver /\ SentOnce)'
    <2>1. callPc[w] \notin {"done", "late"} /\ UNCHANGED <<sent, queueStep, issuedOn>>
      BY <1>13 DEF AbandonTurn
    <2>2. \A v \in Writers : v # w => callPc'[v] = callPc[v]
      BY <1>13 DEF AbandonTurn, CallTypes, Calls
    <2>3. QED BY <2>1, <2>2 DEF SentIsOver, SentOnce
  <1>14. ASSUME NEW w \in Writers, Wake(w)
       PROVE  (SentIsOver /\ SentOnce)'
    <2>1. callPc[w] \notin {"done", "late"} /\ UNCHANGED <<sent, queueStep, issuedOn>>
      BY <1>14 DEF Wake
    <2>2. \A v \in Writers : v # w => callPc'[v] = callPc[v]
      BY <1>14 DEF Wake, CallTypes, Calls
    <2>3. QED BY <2>1, <2>2 DEF SentIsOver, SentOnce
  <1>15. ASSUME NEW w \in Writers, DropWrite(w)
       PROVE  (SentIsOver /\ SentOnce)'
    <2>1. callPc[w] \notin {"done", "late"} /\ UNCHANGED <<sent, queueStep, issuedOn>>
      BY <1>15 DEF DropWrite
    <2>2. \A v \in Writers : v # w => callPc'[v] = callPc[v]
      BY <1>15 DEF DropWrite, CallTypes, Calls
    <2>3. QED BY <2>1, <2>2 DEF SentIsOver, SentOnce
  <1>16. QED BY WritesLeftAlone, <1>1, <1>2, <1>3, <1>4, <1>5, <1>6, <1>7, <1>8, <1>9,
                <1>10, <1>11, <1>12, <1>13, <1>14, <1>15 DEF BesideWrites, OfWrites

\* A writer that found no room is woken by what makes room, or by the disconnect.
LEMMA ReadinessStaysToCome ==
  ASSUME HostTypes, CallTypes, KindKnown, HostTypes', CallTypes', TurnsClaimed,
         CountedConnection, ReadyToCome, CentralNext
  PROVE  ReadyToCome'
  <1> USE CallsAssumption, KindsAssumption, BoundAssumption DEF queueVars, linkVars,
        mapVars, writeVars
  <1>1. CASE Elsewhere
    BY <1>1 DEF Elsewhere, ReadyToCome, SameConnection, HostTypes, CallTypes, Calls
  <1>2. CASE BesideWrites /\ DidConnect
    BY <1>2 DEF BesideWrites, DidConnect, ReadyToCome, SameConnection, Listening, HostTypes,
       CallTypes
  <1>3. CASE BesideWrites /\ CmdRun
    BY <1>3 DEF BesideWrites, CmdRun, ReadyToCome, SameConnection, Listening, HostTypes,
       CallTypes
  <1>4. CASE BesideWrites /\ LinkDrop
    BY <1>4 DEF BesideWrites, LinkDrop, ReadyToCome, SameConnection, Listening, HostTypes,
       CallTypes
  <1>5. CASE BesideWrites /\ DidDisconnect
    BY <1>5 DEF BesideWrites, DidDisconnect, Disconnecting, ReadyToCome, SameConnection,
       Listening, HostTypes, CallTypes
  <1>6. CASE BesideWrites /\ FailPending
    BY <1>6 DEF BesideWrites, FailPending, ReadyToCome, SameConnection, Listening,
       HostTypes, CallTypes
  <1>7. CASE BesideWrites /\ DidBecomeWritable
    BY <1>7 DEF BesideWrites, DidBecomeWritable, ReadyToCome, SameConnection, Listening,
       HostTypes, CallTypes
  <1>8. CASE StartTurn
    BY <1>8 DEF StartTurn, ReadyToCome, SameConnection, HostTypes, CallTypes, Calls
  <1>9. ASSUME NEW w \in Writers, BeginWrite(w)
       PROVE  ReadyToCome'
    BY <1>9 DEF BeginWrite, ReadyToCome, SameConnection, HostTypes, CallTypes, Calls
  <1>10. ASSUME NEW w \in Writers, PostTurn(w)
       PROVE  ReadyToCome'
    BY <1>10 DEF PostTurn, ReadyToCome, SameConnection, HostTypes, CallTypes, Calls
  <1>11. ASSUME NEW w \in Writers, RunTurn(w)
       PROVE  ReadyToCome'
    BY <1>11 DEF RunTurn, ReadyToCome, SameConnection, HostTypes, CallTypes, Calls,
       AfterTurn
  <1>12. ASSUME NEW w \in Writers, WriteDeadline(w)
       PROVE  ReadyToCome'
    BY <1>12 DEF WriteDeadline, ReadyToCome, SameConnection, HostTypes, CallTypes, Calls
  <1>13. ASSUME NEW w \in Writers, AbandonTurn(w)
       PROVE  ReadyToCome'
    BY <1>13 DEF AbandonTurn, ReadyToCome, SameConnection, HostTypes, CallTypes, Calls
  <1>14. ASSUME NEW w \in Writers, Wake(w)
       PROVE  ReadyToCome'
    BY <1>14 DEF Wake, ReadyToCome, SameConnection, HostTypes, CallTypes, Calls
  <1>15. ASSUME NEW w \in Writers, DropWrite(w)
       PROVE  ReadyToCome'
    BY <1>15 DEF DropWrite, ReadyToCome, SameConnection, HostTypes, CallTypes, Calls
  <1>16. QED BY WritesLeftAlone, <1>1, <1>2, <1>3, <1>4, <1>5, <1>6, <1>7, <1>8, <1>9,
                <1>10, <1>11, <1>12, <1>13, <1>14, <1>15 DEF BesideWrites, OfWrites

\* The initial states have the invariant.
LEMMA CentralStart == CentralInit => CentralInv
  <1> SUFFICES ASSUME CentralInit PROVE CentralInv
    OBVIOUS
  <1> USE CallsAssumption, KindsAssumption, BoundAssumption
  <1>1. /\ << >> \in Seq({"connect", "cancel"})
        /\ << >> \in Seq(WriteTurnSet) /\ << >> \in Seq(1..MaxLinks)
    OBVIOUS
  <1>2. HostTypes
    <2>1. asked \in [Kinds -> Nat] /\ link \in 0..MaxLinks /\ links \in 0..MaxLinks
      BY DEF CentralInit
    <2>2. trying \in BOOLEAN /\ room \in BOOLEAN
      BY DEF CentralInit
    <2>3. QED BY <1>1, <2>1, <2>2 DEF CentralInit, HostTypes
  <1>3. CallTypes
    <2>1. /\ waiter \in [AllKinds -> Connectors \cup Askers \cup {Nobody}]
          /\ callPc \in [Calls -> CallSteps] /\ kind \in [Askers -> Kinds \cup {Nobody}]
      BY DEF CentralInit, CallSteps
    <2>2. conn \in [Writers -> Nat] /\ issuedOn \in [Writers -> 0..MaxLinks]
      BY DEF CentralInit
    <2>3. sent \in [Writers -> Seq(1..MaxLinks)]
      BY <1>1 DEF CentralInit
    <2>4. held \in BOOLEAN
      BY DEF CentralInit
    <2>5. QED BY <2>1, <2>2, <2>3, <2>4 DEF CentralInit, CallTypes
  <1>4. /\ DOMAIN writeTurns = {}
        /\ \A w \in Writers : sent[w] = << >> /\ DOMAIN sent[w] = {} /\ Len(sent[w]) = 0
    BY DEF CentralInit
  <1>5. \A c \in Calls : callPc[c] = "idle"
    BY DEF CentralInit
  <1>6. \A w \in Writers : conn[w] = 0 /\ issuedOn[w] = 0
    BY DEF CentralInit
  <1>7. queueStep = "idle" /\ disconnects = 0
    BY DEF CentralInit
  <1>8. TurnsClaimed /\ SentIsOver /\ CountedConnection /\ SentOnce
    BY <1>4, <1>6, <1>7 DEF TurnsClaimed, SentIsOver, CountedConnection, SentOnce
  <1>9. KindKnown /\ ReadyToCome /\ AcceptedIsOwed
    BY <1>5 DEF KindKnown, ReadyToCome, AcceptedIsOwed, Calls
  <1>10. QED BY <1>2, <1>3, <1>8, <1>9 DEF CentralInv

\* Every step keeps it.
LEMMA CentralStep == CentralInv /\ [CentralNext]_centralVars => CentralInv'
  <1>1. ASSUME CentralInv, CentralNext
        PROVE  CentralInv'
    <2>1. HostTypes' /\ CallTypes'
      BY <1>1, HostTypesKept, CallTypesKept DEF CentralInv
    <2>2. KindKnown' /\ AcceptedIsOwed'
      BY <1>1, RequestsOwed DEF CentralInv
    <2>3. TurnsClaimed' /\ CountedConnection' /\ SentIsOver' /\ SentOnce'
      BY <1>1, <2>1, TurnsStayClaimed, CountsStayTrue, SentStaysOver DEF CentralInv
    <2>4. ReadyToCome'
      BY <1>1, <2>1, ReadinessStaysToCome DEF CentralInv
    <2>5. QED BY <2>1, <2>2, <2>3, <2>4 DEF CentralInv
  <1>2. ASSUME CentralInv, UNCHANGED centralVars
        PROVE  CentralInv'
    <2> USE DEF centralVars, linkVars, queueVars, mapVars, writeVars
    <2>1. HostTypes' /\ CallTypes'
      BY <1>2 DEF CentralInv, HostTypes, CallTypes
    <2>2. KindKnown' /\ AcceptedIsOwed' /\ TurnsClaimed'
      BY <1>2 DEF CentralInv, KindKnown, AcceptedIsOwed, TurnsClaimed
    <2>3. CountedConnection' /\ SentIsOver' /\ SentOnce' /\ ReadyToCome'
      BY <1>2 DEF CentralInv, CountedConnection, SentIsOver, SentOnce, ReadyToCome,
         SameConnection
    <2>4. QED BY <2>1, <2>2, <2>3 DEF CentralInv
  <1>3. QED BY <1>1, <1>2

\* CentralInv holds in every reachable state of apple/central.rs.
THEOREM CentralInvAlways == CentralSpec => []CentralInv
  BY CentralStart, CentralStep, PTL DEF CentralSpec

\* The variables of apple/central.rs keep their types.
THEOREM AppleCentralTypeCorrect == CentralSpec => []CentralTypeOK
  <1>1. CentralInv => CentralTypeOK
    BY DEF CentralInv, HostTypes, CallTypes, CentralTypeOK, WriteTurnSet
  <1>2. QED BY <1>1, CentralInvAlways, PTL

\* A write without response goes out at most once, and on the connection it was issued
\* on: TurnClaim lets one turn of it run, and the turn compares the connection counts.
THEOREM WriteAlwaysSentOnce == CentralSpec => []SentOnce
  <1>1. CentralInv => SentOnce
    BY DEF CentralInv
  <1>2. QED BY <1>1, CentralInvAlways, PTL

\* A writer told of no room created its wait before it asked, so the callback that makes
\* room, or the disconnect, finds it: all but a callback that found no delegate, on a
\* restored device that no connect() has been made to.
THEOREM ReadyNeverMissed == CentralSpec => []NoMissedReady
  <1>1. CentralInv => NoMissedReady
    BY DEF CentralInv, ReadyToCome, NoMissedReady
  <1>2. QED BY <1>1, CentralInvAlways, PTL

\* A request that CoreBluetooth took, and whose waiter still stands, is owed an answer of
\* its kind or the disconnect that fails it, unless its answer came while a restored
\* device had no delegate to take it.
THEOREM AcceptedAlwaysOwed == CentralSpec => []AcceptedIsOwed
  <1>1. CentralInv => AcceptedIsOwed
    BY DEF CentralInv
  <1>2. QED BY <1>1, CentralInvAlways, PTL
===============================================================================
