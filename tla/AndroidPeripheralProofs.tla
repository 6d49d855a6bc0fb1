---------------------- MODULE AndroidPeripheralProofs ----------------------
(***************************************************************************)
(* Proofs about the parts of an Android peripheral: AndroidAdvertising,    *)
(* for any number of starts, stops and renames and any names;              *)
(* AndroidNotify, for any number of sends and connections; AndroidL2cap,   *)
(* for any number of calls, servers, sockets and writes.                   *)
(***************************************************************************)
EXTENDS AndroidAdvertising, AndroidNotify, AndroidL2cap, FiniteSetTheorems, TLAPS

(***************************************************************************)
(* Advertising: the inductive invariant.                                   *)
(***************************************************************************)

\* The types, and the names asked for as they were.
AdTyped == AdvertisingTypeOK /\ wants \in Demands

\* Nothing has happened yet for a start that has not reached Kotlin.
AdFresh ==
  \A s \in Starts : startPc[s] \in {"unborn", "calling"} =>
    /\ air[s] = "off" /\ pending # s /\ callback # s
    /\ s \notin confirmed /\ s \notin failing /\ s \notin reporting /\ s \notin won

\* The stack has not been asked for a start that waits for its name ...
AdAskedOnce ==
  /\ \A s \in Starts : pending = s => air[s] = "off" /\ callback = s
  \* ... and will not be asked again for one that failed.
  /\ \A s \in Starts : s \in failing => air[s] = "off" /\ pending # s

\* When the future of a start has failed, or its failure is being reported, its
\* callback is cleared.
AdCleared ==
  \A s \in Starts : s \in reporting \/ startPc[s] = "failed" => callback # s

\* A start that won keeps the slot, until its guard or a stop goes after it.
AdWonIsOwned ==
  /\ \A s \in Starts : s \in won /\ callback = s =>
       \/ slot.id = s
       \/ startPc[s] \in {"failing", "stopping"}
       \/ \E k \in Stops : stopPc[k] = "taken" /\ stopId[k] = s
  /\ \A s \in Starts : startPc[s] = "succeeded" => s \in won

\* A stop that has not begun names nobody.
AdStopsFresh == \A k \in Stops : stopPc[k] = "idle" => stopId[k] = NoReq

\* Nobody undid what the stack confirmed.
AdUntouched(s) == startPc[s] # "failed" /\ \A k \in Stops : stopId[k] # s

AdConfirmed ==
  \A s \in Starts : AdUntouched(s) =>
    /\ s \in confirmed \/ s \in won => air[s] \in {"on", "lost"}
    /\ s \in won /\ startPc[s] \in {"waiting", "succeeded"}
         => slot = [state |-> "active", id |-> s]

AdvertisingInv ==
  /\ AdTyped /\ AdFresh /\ AdAskedOnce /\ OneHandle /\ AdCleared
  /\ AdWonIsOwned /\ AdStopsFresh /\ AdConfirmed

\* Who asks for what, from the assumption.
LEMMA AdAskers ==
  /\ NoReq \notin Starts /\ NoOne \notin Askers /\ NoName \notin Names
  /\ Starts \subseteq Askers /\ Renames \subseteq Askers /\ Starts \cap Renames = {}
  /\ Starts \subseteq Nat
  /\ \A d \in Demands : d \in [Askers -> Names \cup {NoName}] /\ \A r \in Renames : d[r] # NoName
  <1>1. Starts \subseteq Nat /\ NoReq \notin Starts
    BY AdvertisingAssumption DEF NoReq, Starts
  <1>2. QED BY <1>1, AdvertisingAssumption, Zenon DEF Askers

\* The types after a report, ...
LEMMA AdCompleteTyped ==
  ASSUME AdvertisingTypeOK, NEW s \in Starts, NEW started \in BOOLEAN, Complete(s, started)
  PROVE  /\ slot' \in {Idle} \cup [state : {"starting", "active"}, id : Starts]
         /\ won' \subseteq Starts
  <1>1. CASE slot # [state |-> "starting", id |-> s]
    BY <1>1 DEF AdvertisingTypeOK, Complete
  <1>2. CASE slot = [state |-> "starting", id |-> s]
    <2>1. slot' = [state |-> "active", id |-> s] \/ slot' = Idle
      BY <1>2 DEF Complete
    <2>2. won' \subseteq Starts
      BY <1>2 DEF Complete, AdvertisingTypeOK
    <2>3. QED BY <2>1, <2>2
  <1>3. QED BY <1>1, <1>2

\* ... after the broadcast or the timer let an asker go on, ...
LEMMA AdReadyTyped ==
  ASSUME AdvertisingTypeOK, NEW r, Ready(r)
  PROVE  /\ air' \in [Starts -> {"off", "asked", "on", "lost"}]
         /\ renamePc' \in [Renames -> {"idle", "asked", "renamed"}]
  BY DEF AdvertisingTypeOK, Ready, Ask

\* ... and after a rename was accepted.
LEMMA AdAcceptedTyped ==
  ASSUME AdTyped, NEW r \in Askers, wants[r] # NoName, RequestAccepted(r)
  PROVE  /\ pending' \in Askers \cup {NoOne} /\ inFlight' \in Names \cup {NoName}
         /\ renaming' \in Seq(Names)
         /\ air' \in [Starts -> {"off", "asked", "on", "lost"}]
         /\ renamePc' \in [Renames -> {"idle", "asked", "renamed"}]
  <1> USE DEF AdTyped, AdvertisingTypeOK
  <1>1. inFlight' \in Names \cup {NoName} /\ renaming' \in Seq(Names)
    <2>1. wants[r] \in Names
      OBVIOUS
    <2>2. CASE UNCHANGED <<inFlight, renaming>>
      BY <2>2
    <2>3. CASE inFlight' = wants[r] /\ renaming' = Append(renaming, wants[r])
      BY <2>1, <2>3
    <2>4. QED BY <2>2, <2>3 DEF RequestAccepted, SetName
  <1>2. CASE inFlight' = NoName
    BY <1>1, <1>2, AdReadyTyped DEF RequestAccepted
  <1>3. CASE inFlight' # NoName
    BY <1>1, <1>3 DEF RequestAccepted
  <1>4. QED BY <1>1, <1>2, <1>3

\* Every step keeps the types.
LEMMA AdTypedStep ==
  ASSUME AdTyped, AdvertisingNext
  PROVE  AdTyped'
  <1> USE AdAskers, AdvertisingAssumption DEF AdTyped, AdvertisingTypeOK, SetStart, rustVars,
        renameVars, nameVars, radioVars
  <1>1. ASSUME NEW s \in Starts, StartSteps(s) \/ CallbackSteps(s) \/ RadioSteps(s)
         PROVE  AdTyped'
    <2>1. CASE Begin(s)
      BY <2>1, <1>1 DEF Begin, Idle
    <2>2. CASE StartRefused(s)
      BY <2>2, <1>1 DEF StartRefused
    <2>3. CASE KotlinStarts(s)
      BY <2>3, <1>1 DEF KotlinStarts, Ask
    <2>4. CASE KotlinStartsNamed(s)
      <3>1. RequestAccepted(s) /\ wants[s] # NoName
        BY <2>4 DEF KotlinStartsNamed
      <3>2. QED BY <2>4, <3>1, AdAcceptedTyped DEF KotlinStartsNamed
    <2>5. CASE StackThrows(s)
      BY <2>5, <1>1 DEF StackThrows
    <2>6. CASE StartSucceeds(s)
      BY <2>6, <1>1 DEF StartSucceeds
    <2>7. CASE StartFails(s)
      BY <2>7, <1>1 DEF StartFails
    <2>8. CASE GuardReleases(s)
      BY <2>8, <1>1 DEF GuardReleases, Idle
    <2>9. CASE GuardStops(s)
      BY <2>9, <1>1 DEF GuardStops, KotlinStop
    <2>10. CASE OnStartSuccess(s)
      BY <2>10, AdCompleteTyped DEF OnStartSuccess
    <2>11. CASE FailureClears(s)
      BY <2>11, <1>1 DEF FailureClears
    <2>12. CASE FailureReports(s)
      BY <2>12, AdCompleteTyped DEF FailureReports
    <2>13. CASE StackConfirms(s)
      BY <2>13, <1>1 DEF StackConfirms
    <2>14. CASE StackRefuses(s)
      BY <2>14, <1>1 DEF StackRefuses
    <2>15. QED BY <1>1, <2>1, <2>2, <2>3, <2>4, <2>5, <2>6, <2>7, <2>8, <2>9, <2>10, <2>11,
                  <2>12,
                  <2>13, <2>14 DEF StartSteps, CallbackSteps, RadioSteps
  <1>2. ASSUME NEW k \in Stops, StopSteps(k)
         PROVE  AdTyped'
    <2>1. CASE StopTakes(k)
      BY <2>1, <1>2 DEF StopTakes, Idle
    <2>2. CASE StopStops(k)
      BY <2>2, <1>2 DEF StopStops, KotlinStop
    <2>3. QED BY <1>2, <2>1, <2>2 DEF StopSteps
  <1>3. ASSUME NEW r \in Renames, RenameAsks(r)
         PROVE  AdTyped'
    <2>1. RequestAccepted(r) /\ wants[r] # NoName
      BY <1>3 DEF RenameAsks
    <2>2. QED BY <1>3, <2>1, AdAcceptedTyped DEF RenameAsks
  <1>4. CASE NameChanged
    BY <1>4 DEF NameChanged, Ready, Ask
  <1>5. CASE TimedOut
    BY ZenonT(20), <1>5 DEF TimedOut, Ready, Ask
  <1>6. CASE NameApplied
    BY <1>6 DEF NameApplied
  <1>7. CASE AdapterOff
    <2>1. air' \in [Starts -> {"off", "asked", "on", "lost"}]
      BY <1>7 DEF AdapterOff
    <2>2. offs' \in 0..MaxPowerOffs
      BY <1>7 DEF AdapterOff
    <2>3. renaming' \in Seq(Names) /\ powered' \in BOOLEAN
      <3>1. renaming' = << >> /\ powered' = FALSE
        BY <1>7 DEF AdapterOff
      <3>2. << >> \in Seq(Names)
        OBVIOUS
      <3>3. QED BY <3>1, <3>2
    <2>4. UNCHANGED <<slot, startPc, won, stopPc, stopId, callback, pending, inFlight, renamePc,
                      wants, adapterName, announced, confirmed, failing, reporting>>
      BY <1>7 DEF AdapterOff
    <2>5. QED BY <2>1, <2>2, <2>3, <2>4
  <1>8. CASE PowerOn
    BY <1>8 DEF PowerOn
  <1>9. QED BY <1>1, <1>2, <1>3, <1>4, <1>5, <1>6, <1>7, <1>8 DEF AdvertisingNext

\* ... and leaves alone what has not begun.
LEMMA AdFreshStep ==
  ASSUME AdTyped, AdFresh, OneHandle, AdAskedOnce, AdvertisingNext
  PROVE  AdFresh'
  <1> USE AdAskers DEF AdTyped, AdvertisingTypeOK, AdFresh, OneHandle, AdAskedOnce, SetStart,
        rustVars, renameVars, nameVars, radioVars, OnAir
  <1>1. ASSUME NEW s \in Starts, StartSteps(s) \/ CallbackSteps(s) \/ RadioSteps(s)
         PROVE  AdFresh'
    <2>1. CASE Begin(s)
      BY <2>1, <1>1 DEF Begin, Idle
    <2>2. CASE StartRefused(s)
      BY <2>2, <1>1 DEF StartRefused
    <2>3. CASE KotlinStarts(s)
      BY <2>3, <1>1 DEF KotlinStarts, Ask
    <2>4. CASE KotlinStartsNamed(s)
      BY <2>4, <1>1 DEF KotlinStartsNamed, RequestAccepted, SetName, Ready, Ask, Current
    <2>5. CASE StackThrows(s)
      BY <2>5, <1>1 DEF StackThrows
    <2>6. CASE StartSucceeds(s)
      BY <2>6, <1>1 DEF StartSucceeds
    <2>7. CASE StartFails(s)
      BY <2>7, <1>1 DEF StartFails
    <2>8. CASE GuardReleases(s)
      BY <2>8, <1>1 DEF GuardReleases, Idle
    <2>9. CASE GuardStops(s)
      BY <2>9, <1>1 DEF GuardStops, KotlinStop
    <2>10. CASE OnStartSuccess(s)
      BY <2>10, <1>1 DEF OnStartSuccess, Complete
    <2>11. CASE FailureClears(s)
      BY <2>11, <1>1 DEF FailureClears
    <2>12. CASE FailureReports(s)
      BY <2>12, <1>1 DEF FailureReports, Complete, Idle
    <2>13. CASE StackConfirms(s)
      BY <2>13, <1>1 DEF StackConfirms
    <2>14. CASE StackRefuses(s)
      BY <2>14, <1>1 DEF StackRefuses
    <2>15. QED BY <1>1, <2>1, <2>2, <2>3, <2>4, <2>5, <2>6, <2>7, <2>8, <2>9, <2>10, <2>11,
                  <2>12,
                  <2>13, <2>14 DEF StartSteps, CallbackSteps, RadioSteps
  <1>2. ASSUME NEW k \in Stops, StopSteps(k)
         PROVE  AdFresh'
    <2>1. CASE StopTakes(k)
      BY <2>1, <1>2 DEF StopTakes, Idle
    <2>2. CASE StopStops(k)
      BY <2>2, <1>2 DEF StopStops, KotlinStop
    <2>3. QED BY <1>2, <2>1, <2>2 DEF StopSteps
  <1>3. ASSUME NEW r \in Renames, RenameAsks(r)
         PROVE  AdFresh'
    BY <1>3 DEF RenameAsks, RequestAccepted, SetName, Ready, Ask, Current
  <1>4. CASE NameChanged
    BY <1>4 DEF NameChanged, Ready, Ask
  <1>5. CASE TimedOut
    BY <1>5 DEF TimedOut, Ready, Ask
  <1>6. CASE NameApplied
    BY <1>6 DEF NameApplied
  <1>7. CASE AdapterOff
    BY <1>7 DEF AdapterOff
  <1>8. CASE PowerOn
    BY <1>8 DEF PowerOn
  <1>9. QED BY <1>1, <1>2, <1>3, <1>4, <1>5, <1>6, <1>7, <1>8 DEF AdvertisingNext

\* The stack is asked once for each start.
LEMMA AdAskedOnceStep ==
  ASSUME AdTyped, AdFresh, AdAskedOnce, OneHandle, AdvertisingNext
  PROVE  AdAskedOnce'
  <1> USE AdAskers DEF AdTyped, AdvertisingTypeOK, AdFresh, AdAskedOnce, OneHandle, SetStart,
        rustVars, renameVars, nameVars, radioVars, OnAir
  <1>1. ASSUME NEW s \in Starts, StartSteps(s) \/ CallbackSteps(s) \/ RadioSteps(s)
         PROVE  AdAskedOnce'
    <2>1. CASE Begin(s)
      BY <2>1, <1>1 DEF Begin, Idle
    <2>2. CASE StartRefused(s)
      BY <2>2, <1>1 DEF StartRefused
    <2>3. CASE KotlinStarts(s)
      BY <2>3, <1>1 DEF KotlinStarts, Ask
    <2>4. CASE KotlinStartsNamed(s)
      BY <2>4, <1>1 DEF KotlinStartsNamed, RequestAccepted, SetName, Ready, Ask, Current
    <2>5. CASE StackThrows(s)
      BY <2>5, <1>1 DEF StackThrows
    <2>6. CASE StartSucceeds(s)
      BY <2>6, <1>1 DEF StartSucceeds
    <2>7. CASE StartFails(s)
      BY <2>7, <1>1 DEF StartFails
    <2>8. CASE GuardReleases(s)
      BY <2>8, <1>1 DEF GuardReleases, Idle
    <2>9. CASE GuardStops(s)
      BY <2>9, <1>1 DEF GuardStops, KotlinStop
    <2>10. CASE OnStartSuccess(s)
      BY <2>10, <1>1 DEF OnStartSuccess, Complete
    <2>11. CASE FailureClears(s)
      BY <2>11, <1>1 DEF FailureClears
    <2>12. CASE FailureReports(s)
      BY <2>12, <1>1 DEF FailureReports, Complete, Idle
    <2>13. CASE StackConfirms(s)
      BY <2>13, <1>1 DEF StackConfirms
    <2>14. CASE StackRefuses(s)
      BY <2>14, <1>1 DEF StackRefuses
    <2>15. QED BY <1>1, <2>1, <2>2, <2>3, <2>4, <2>5, <2>6, <2>7, <2>8, <2>9, <2>10, <2>11,
                  <2>12,
                  <2>13, <2>14 DEF StartSteps, CallbackSteps, RadioSteps
  <1>2. ASSUME NEW k \in Stops, StopSteps(k)
         PROVE  AdAskedOnce'
    <2>1. CASE StopTakes(k)
      BY <2>1, <1>2 DEF StopTakes, Idle
    <2>2. CASE StopStops(k)
      BY <2>2, <1>2 DEF StopStops, KotlinStop
    <2>3. QED BY <1>2, <2>1, <2>2 DEF StopSteps
  <1>3. ASSUME NEW r \in Renames, RenameAsks(r)
         PROVE  AdAskedOnce'
    BY <1>3 DEF RenameAsks, RequestAccepted, SetName, Ready, Ask, Current
  <1>4. CASE NameChanged
    BY <1>4 DEF NameChanged, Ready, Ask
  <1>5. CASE TimedOut
    BY <1>5 DEF TimedOut, Ready, Ask
  <1>6. CASE NameApplied
    BY <1>6 DEF NameApplied
  <1>7. CASE AdapterOff
    BY <1>7 DEF AdapterOff
  <1>8. CASE PowerOn
    BY <1>8 DEF PowerOn
  <1>9. QED BY <1>1, <1>2, <1>3, <1>4, <1>5, <1>6, <1>7, <1>8 DEF AdvertisingNext

\* What is on air stays within reach of the callback.
LEMMA OneHandleStep ==
  ASSUME AdTyped, AdFresh, AdAskedOnce, OneHandle, AdCleared, AdvertisingNext
  PROVE  OneHandle'
  <1> USE AdAskers DEF AdTyped, AdvertisingTypeOK, AdFresh, AdAskedOnce, OneHandle, AdCleared,
        SetStart, rustVars, renameVars, nameVars, radioVars, OnAir
  <1>1. ASSUME NEW s \in Starts, StartSteps(s) \/ CallbackSteps(s) \/ RadioSteps(s)
         PROVE  OneHandle'
    <2>1. CASE Begin(s)
      BY <2>1, <1>1 DEF Begin, Idle
    <2>2. CASE StartRefused(s)
      BY <2>2, <1>1 DEF StartRefused
    <2>3. CASE KotlinStarts(s)
      BY <2>3, <1>1 DEF KotlinStarts, Ask
    <2>4. CASE KotlinStartsNamed(s)
      BY <2>4, <1>1 DEF KotlinStartsNamed, RequestAccepted, SetName, Ready, Ask, Current
    <2>5. CASE StackThrows(s)
      BY <2>5, <1>1 DEF StackThrows
    <2>6. CASE StartSucceeds(s)
      BY <2>6, <1>1 DEF StartSucceeds
    <2>7. CASE StartFails(s)
      BY <2>7, <1>1 DEF StartFails
    <2>8. CASE GuardReleases(s)
      BY <2>8, <1>1 DEF GuardReleases, Idle
    <2>9. CASE GuardStops(s)
      BY <2>9, <1>1 DEF GuardStops, KotlinStop
    <2>10. CASE OnStartSuccess(s)
      BY <2>10, <1>1 DEF OnStartSuccess, Complete
    <2>11. CASE FailureClears(s)
      BY <2>11, <1>1 DEF FailureClears
    <2>12. CASE FailureReports(s)
      BY <2>12, <1>1 DEF FailureReports, Complete, Idle
    <2>13. CASE StackConfirms(s)
      BY <2>13, <1>1 DEF StackConfirms
    <2>14. CASE StackRefuses(s)
      BY <2>14, <1>1 DEF StackRefuses
    <2>15. QED BY <1>1, <2>1, <2>2, <2>3, <2>4, <2>5, <2>6, <2>7, <2>8, <2>9, <2>10, <2>11,
                  <2>12,
                  <2>13, <2>14 DEF StartSteps, CallbackSteps, RadioSteps
  <1>2. ASSUME NEW k \in Stops, StopSteps(k)
         PROVE  OneHandle'
    <2>1. CASE StopTakes(k)
      BY <2>1, <1>2 DEF StopTakes, Idle
    <2>2. CASE StopStops(k)
      BY <2>2, <1>2 DEF StopStops, KotlinStop
    <2>3. QED BY <1>2, <2>1, <2>2 DEF StopSteps
  <1>3. ASSUME NEW r \in Renames, RenameAsks(r)
         PROVE  OneHandle'
    BY <1>3 DEF RenameAsks, RequestAccepted, SetName, Ready, Ask, Current
  <1>4. CASE NameChanged
    BY <1>4 DEF NameChanged, Ready, Ask
  <1>5. CASE TimedOut
    BY <1>5 DEF TimedOut, Ready, Ask
  <1>6. CASE NameApplied
    BY <1>6 DEF NameApplied
  <1>7. CASE AdapterOff
    BY <1>7 DEF AdapterOff
  <1>8. CASE PowerOn
    BY <1>8 DEF PowerOn
  <1>9. QED BY <1>1, <1>2, <1>3, <1>4, <1>5, <1>6, <1>7, <1>8 DEF AdvertisingNext

\* A cleared callback stays cleared.
LEMMA AdClearedStep ==
  ASSUME AdTyped, AdFresh, AdCleared, AdvertisingNext
  PROVE  AdCleared'
  <1> USE AdAskers DEF AdTyped, AdvertisingTypeOK, AdFresh, AdCleared, SetStart, rustVars,
        renameVars, nameVars, radioVars
  <1>1. ASSUME NEW s \in Starts, StartSteps(s) \/ CallbackSteps(s) \/ RadioSteps(s)
         PROVE  AdCleared'
    <2>1. CASE Begin(s)
      BY <2>1, <1>1 DEF Begin, Idle
    <2>2. CASE StartRefused(s)
      BY <2>2, <1>1 DEF StartRefused
    <2>3. CASE KotlinStarts(s)
      BY <2>3, <1>1 DEF KotlinStarts, Ask
    <2>4. CASE KotlinStartsNamed(s)
      BY <2>4, <1>1 DEF KotlinStartsNamed, RequestAccepted, SetName, Ready, Ask, Current
    <2>5. CASE StackThrows(s)
      BY <2>5, <1>1 DEF StackThrows
    <2>6. CASE StartSucceeds(s)
      BY <2>6, <1>1 DEF StartSucceeds
    <2>7. CASE StartFails(s)
      BY <2>7, <1>1 DEF StartFails
    <2>8. CASE GuardReleases(s)
      BY <2>8, <1>1 DEF GuardReleases, Idle
    <2>9. CASE GuardStops(s)
      BY <2>9, <1>1 DEF GuardStops, KotlinStop
    <2>10. CASE OnStartSuccess(s)
      BY <2>10, <1>1 DEF OnStartSuccess, Complete
    <2>11. CASE FailureClears(s)
      BY <2>11, <1>1 DEF FailureClears
    <2>12. CASE FailureReports(s)
      BY <2>12, <1>1 DEF FailureReports, Complete, Idle
    <2>13. CASE StackConfirms(s)
      BY <2>13, <1>1 DEF StackConfirms
    <2>14. CASE StackRefuses(s)
      BY <2>14, <1>1 DEF StackRefuses
    <2>15. QED BY <1>1, <2>1, <2>2, <2>3, <2>4, <2>5, <2>6, <2>7, <2>8, <2>9, <2>10, <2>11,
                  <2>12,
                  <2>13, <2>14 DEF StartSteps, CallbackSteps, RadioSteps
  <1>2. ASSUME NEW k \in Stops, StopSteps(k)
         PROVE  AdCleared'
    <2>1. CASE StopTakes(k)
      BY <2>1, <1>2 DEF StopTakes, Idle
    <2>2. CASE StopStops(k)
      BY <2>2, <1>2 DEF StopStops, KotlinStop
    <2>3. QED BY <1>2, <2>1, <2>2 DEF StopSteps
  <1>3. ASSUME NEW r \in Renames, RenameAsks(r)
         PROVE  AdCleared'
    BY <1>3 DEF RenameAsks, RequestAccepted, SetName, Ready, Ask, Current
  <1>4. CASE NameChanged
    BY <1>4 DEF NameChanged, Ready, Ask
  <1>5. CASE TimedOut
    BY <1>5 DEF TimedOut, Ready, Ask
  <1>6. CASE NameApplied
    BY <1>6 DEF NameApplied
  <1>7. CASE AdapterOff
    BY <1>7 DEF AdapterOff, OnAir
  <1>8. CASE PowerOn
    BY <1>8 DEF PowerOn
  <1>9. QED BY <1>1, <1>2, <1>3, <1>4, <1>5, <1>6, <1>7, <1>8 DEF AdvertisingNext

\* The owner of a start that won changes with its slot.
LEMMA AdWonIsOwnedStep ==
  ASSUME AdTyped, AdFresh, AdCleared, AdWonIsOwned, AdStopsFresh, AdvertisingNext
  PROVE  AdWonIsOwned'
  <1> USE AdAskers DEF AdTyped, AdvertisingTypeOK, AdFresh, AdCleared, AdWonIsOwned,
        AdStopsFresh, SetStart, rustVars, renameVars, nameVars, radioVars
  <1>1. ASSUME NEW s \in Starts, StartSteps(s) \/ CallbackSteps(s) \/ RadioSteps(s)
         PROVE  AdWonIsOwned'
    <2>1. CASE Begin(s)
      BY <2>1, <1>1 DEF Begin, Idle
    <2>2. CASE StartRefused(s)
      BY <2>2, <1>1 DEF StartRefused
    <2>3. CASE KotlinStarts(s)
      BY <2>3, <1>1 DEF KotlinStarts, Ask
    <2>4. CASE KotlinStartsNamed(s)
      BY <2>4, <1>1 DEF KotlinStartsNamed, RequestAccepted, SetName, Ready, Ask, Current
    <2>5. CASE StackThrows(s)
      BY <2>5, <1>1 DEF StackThrows
    <2>6. CASE StartSucceeds(s)
      BY <2>6, <1>1 DEF StartSucceeds
    <2>7. CASE StartFails(s)
      BY <2>7, <1>1 DEF StartFails
    <2>8. CASE GuardReleases(s)
      BY <2>8, <1>1 DEF GuardReleases, Idle
    <2>9. CASE GuardStops(s)
      BY <2>9, <1>1 DEF GuardStops, KotlinStop
    <2>10. CASE OnStartSuccess(s)
      BY <2>10, <1>1 DEF OnStartSuccess, Complete
    <2>11. CASE FailureClears(s)
      BY <2>11, <1>1 DEF FailureClears
    <2>12. CASE FailureReports(s)
      BY <2>12, <1>1 DEF FailureReports, Complete, Idle
    <2>13. CASE StackConfirms(s)
      BY <2>13, <1>1 DEF StackConfirms
    <2>14. CASE StackRefuses(s)
      BY <2>14, <1>1 DEF StackRefuses
    <2>15. QED BY <1>1, <2>1, <2>2, <2>3, <2>4, <2>5, <2>6, <2>7, <2>8, <2>9, <2>10, <2>11,
                  <2>12,
                  <2>13, <2>14 DEF StartSteps, CallbackSteps, RadioSteps
  <1>2. ASSUME NEW k \in Stops, StopSteps(k)
         PROVE  AdWonIsOwned'
    <2>1. CASE StopTakes(k)
      BY <2>1, <1>2 DEF StopTakes, Idle
    <2>2. CASE StopStops(k)
      BY <2>2, <1>2 DEF StopStops, KotlinStop
    <2>3. QED BY <1>2, <2>1, <2>2 DEF StopSteps
  <1>3. ASSUME NEW r \in Renames, RenameAsks(r)
         PROVE  AdWonIsOwned'
    BY <1>3 DEF RenameAsks, RequestAccepted, SetName, Ready, Ask, Current
  <1>4. CASE NameChanged
    BY <1>4 DEF NameChanged, Ready, Ask
  <1>5. CASE TimedOut
    BY <1>5 DEF TimedOut, Ready, Ask
  <1>6. CASE NameApplied
    BY <1>6 DEF NameApplied
  <1>7. CASE AdapterOff
    BY <1>7 DEF AdapterOff, OnAir
  <1>8. CASE PowerOn
    BY <1>8 DEF PowerOn
  <1>9. QED BY <1>1, <1>2, <1>3, <1>4, <1>5, <1>6, <1>7, <1>8 DEF AdvertisingNext

\* Stops begin once.
LEMMA AdStopsFreshStep ==
  ASSUME AdTyped, AdStopsFresh, AdvertisingNext
  PROVE  AdStopsFresh'
  <1> USE AdAskers DEF AdTyped, AdvertisingTypeOK, AdStopsFresh, SetStart, rustVars,
        renameVars, nameVars, radioVars, Idle
  <1>1. ASSUME NEW s \in Starts, StartSteps(s) \/ CallbackSteps(s) \/ RadioSteps(s)
         PROVE  AdStopsFresh'
    <2>1. CASE Begin(s)
      BY <2>1, <1>1 DEF Begin
    <2>2. CASE StartRefused(s)
      BY <2>2, <1>1 DEF StartRefused
    <2>3. CASE KotlinStarts(s)
      BY <2>3, <1>1 DEF KotlinStarts, Ask
    <2>4. CASE KotlinStartsNamed(s)
      BY <2>4, <1>1 DEF KotlinStartsNamed, RequestAccepted, SetName, Ready, Ask, Current
    <2>5. CASE StackThrows(s)
      BY <2>5, <1>1 DEF StackThrows
    <2>6. CASE StartSucceeds(s)
      BY <2>6, <1>1 DEF StartSucceeds
    <2>7. CASE StartFails(s)
      BY <2>7, <1>1 DEF StartFails
    <2>8. CASE GuardReleases(s)
      BY <2>8, <1>1 DEF GuardReleases
    <2>9. CASE GuardStops(s)
      BY <2>9, <1>1 DEF GuardStops, KotlinStop
    <2>10. CASE OnStartSuccess(s)
      BY <2>10, <1>1 DEF OnStartSuccess, Complete
    <2>11. CASE FailureClears(s)
      BY <2>11, <1>1 DEF FailureClears
    <2>12. CASE FailureReports(s)
      BY <2>12, <1>1 DEF FailureReports, Complete
    <2>13. CASE StackConfirms(s)
      BY <2>13, <1>1 DEF StackConfirms
    <2>14. CASE StackRefuses(s)
      BY <2>14, <1>1 DEF StackRefuses
    <2>15. QED BY <1>1, <2>1, <2>2, <2>3, <2>4, <2>5, <2>6, <2>7, <2>8, <2>9, <2>10, <2>11,
                  <2>12,
                  <2>13, <2>14 DEF StartSteps, CallbackSteps, RadioSteps
  <1>2. ASSUME NEW k \in Stops, StopSteps(k)
         PROVE  AdStopsFresh'
    <2>1. CASE StopTakes(k)
      BY <2>1, <1>2 DEF StopTakes
    <2>2. CASE StopStops(k)
      BY <2>2, <1>2 DEF StopStops, KotlinStop
    <2>3. QED BY <1>2, <2>1, <2>2 DEF StopSteps
  <1>3. ASSUME NEW r \in Renames, RenameAsks(r)
         PROVE  AdStopsFresh'
    BY <1>3 DEF RenameAsks, RequestAccepted, SetName, Ready, Ask, Current
  <1>4. CASE NameChanged
    BY <1>4 DEF NameChanged, Ready, Ask
  <1>5. CASE TimedOut
    BY <1>5 DEF TimedOut, Ready, Ask
  <1>6. CASE NameApplied
    BY <1>6 DEF NameApplied
  <1>7. CASE AdapterOff
    BY <1>7 DEF AdapterOff, OnAir
  <1>8. CASE PowerOn
    BY <1>8 DEF PowerOn
  <1>9. QED BY <1>1, <1>2, <1>3, <1>4, <1>5, <1>6, <1>7, <1>8 DEF AdvertisingNext

\* Nothing but a guard, a stop or a power-off undoes a confirmed start.
LEMMA AdConfirmedStep ==
  ASSUME AdTyped, AdFresh, AdAskedOnce, AdConfirmed, AdStopsFresh, AdvertisingNext
  PROVE  AdConfirmed'
  <1> USE AdAskers DEF AdTyped, AdvertisingTypeOK, AdFresh, AdAskedOnce, AdConfirmed,
        AdStopsFresh, SetStart, rustVars, renameVars, nameVars, radioVars, AdUntouched
  <1>1. ASSUME NEW s \in Starts, StartSteps(s) \/ CallbackSteps(s) \/ RadioSteps(s)
         PROVE  AdConfirmed'
    <2>1. CASE Begin(s)
      BY <2>1, <1>1 DEF Begin, Idle
    <2>2. CASE StartRefused(s)
      BY <2>2, <1>1 DEF StartRefused
    <2>3. CASE KotlinStarts(s)
      BY <2>3, <1>1 DEF KotlinStarts, Ask
    <2>4. CASE KotlinStartsNamed(s)
      BY <2>4, <1>1 DEF KotlinStartsNamed, RequestAccepted, SetName, Ready, Ask, Current
    <2>5. CASE StackThrows(s)
      BY <2>5, <1>1 DEF StackThrows
    <2>6. CASE StartSucceeds(s)
      BY <2>6, <1>1 DEF StartSucceeds
    <2>7. CASE StartFails(s)
      BY <2>7, <1>1 DEF StartFails
    <2>8. CASE GuardReleases(s)
      BY <2>8, <1>1 DEF GuardReleases, Idle
    <2>9. CASE GuardStops(s)
      BY <2>9, <1>1 DEF GuardStops, KotlinStop
    <2>10. CASE OnStartSuccess(s)
      BY SMTT(20), <2>10, <1>1 DEF OnStartSuccess, Complete
    <2>11. CASE FailureClears(s)
      BY <2>11, <1>1 DEF FailureClears
    <2>12. CASE FailureReports(s)
      BY <2>12, <1>1 DEF FailureReports, Complete, Idle
    <2>13. CASE StackConfirms(s)
      BY <2>13, <1>1 DEF StackConfirms
    <2>14. CASE StackRefuses(s)
      BY <2>14, <1>1 DEF StackRefuses
    <2>15. QED BY <1>1, <2>1, <2>2, <2>3, <2>4, <2>5, <2>6, <2>7, <2>8, <2>9, <2>10, <2>11,
                  <2>12,
                  <2>13, <2>14 DEF StartSteps, CallbackSteps, RadioSteps
  <1>2. ASSUME NEW k \in Stops, StopSteps(k)
         PROVE  AdConfirmed'
    <2>1. CASE StopTakes(k)
      BY <2>1, <1>2 DEF StopTakes, Idle
    <2>2. CASE StopStops(k)
      BY <2>2, <1>2 DEF StopStops, KotlinStop
    <2>3. QED BY <1>2, <2>1, <2>2 DEF StopSteps
  <1>3. ASSUME NEW r \in Renames, RenameAsks(r)
         PROVE  AdConfirmed'
    BY <1>3 DEF RenameAsks, RequestAccepted, SetName, Ready, Ask, Current
  <1>4. CASE NameChanged
    BY <1>4 DEF NameChanged, Ready, Ask
  <1>5. CASE TimedOut
    BY <1>5 DEF TimedOut, Ready, Ask
  <1>6. CASE NameApplied
    BY <1>6 DEF NameApplied
  <1>7. CASE AdapterOff
    BY <1>7 DEF AdapterOff, OnAir
  <1>8. CASE PowerOn
    BY <1>8 DEF PowerOn
  <1>9. QED BY <1>1, <1>2, <1>3, <1>4, <1>5, <1>6, <1>7, <1>8 DEF AdvertisingNext

\* Nothing has been asked for yet.
LEMMA AdInvInitially == AdvertisingInit => AdvertisingInv
  BY AdAskers, AdvertisingAssumption
  DEF AdvertisingInit, AdvertisingInv, AdTyped, AdvertisingTypeOK, AdFresh, AdAskedOnce,
      OneHandle, OnAir, AdCleared, AdWonIsOwned, AdStopsFresh, AdConfirmed, AdUntouched, Idle

\* The parts together.
LEMMA AdInvStep == AdvertisingInv /\ [AdvertisingNext]_advertisingVars => AdvertisingInv'
  <1> SUFFICES ASSUME AdvertisingInv, [AdvertisingNext]_advertisingVars PROVE AdvertisingInv'
    OBVIOUS
  <1>1. CASE AdvertisingNext
    BY <1>1, AdTypedStep, AdFreshStep, AdAskedOnceStep, OneHandleStep, AdClearedStep,
       AdWonIsOwnedStep, AdStopsFreshStep, AdConfirmedStep
    DEF AdvertisingInv
  <1>2. CASE UNCHANGED advertisingVars
    BY <1>2 DEF AdvertisingInv, AdTyped, AdvertisingTypeOK, AdFresh, AdAskedOnce, OneHandle,
                OnAir, AdCleared, AdWonIsOwned, AdStopsFresh, AdConfirmed, AdUntouched,
                advertisingVars, rustVars, renameVars, nameVars, radioVars
  <1>3. QED BY <1>1, <1>2

\* It is an invariant.
LEMMA AdInvAlways == AdvertisingSpec => []AdvertisingInv
  BY AdInvInitially, AdInvStep, PTL DEF AdvertisingSpec

(***************************************************************************)
(* Advertising: the theorems.                                              *)
(***************************************************************************)

\* Every variable of advertising and of the adapter rename keeps its type.
THEOREM AdvertisingTypeCorrect == AdvertisingSpec => []AdvertisingTypeOK
  <1>1. AdvertisingInv => AdvertisingTypeOK
    BY DEF AdvertisingInv, AdTyped
  <1>2. QED BY <1>1, AdInvAlways, PTL

\* No advertisement, nor a start that waits for its name, is ever out of reach of the
\* one callback that Kotlin keeps: what the stack advertises can be stopped.
THEOREM AlwaysOneHandle == AdvertisingSpec => []OneHandle
  <1>1. AdvertisingInv => OneHandle
    BY DEF AdvertisingInv
  <1>2. QED BY <1>1, AdInvAlways, PTL

\* The callback that Kotlin keeps always has somebody in Rust who will clear it: the
\* slot, a start that has not returned, or a stop on its way, for any number of
\* starts that are refused, dropped, timed out or stopped in any order.
THEOREM CallbackNeverStranded == AdvertisingSpec => []NoneStranded
  <1>1. AdvertisingInv => NoneStranded
    <2> SUFFICES ASSUME AdvertisingInv, callback # NoReq PROVE NoneStranded
      BY DEF NoneStranded
    <2>1. callback \in Starts
      BY DEF AdvertisingInv, AdTyped, AdvertisingTypeOK
    <2>2. startPc[callback] \in {"unborn", "calling", "waiting", "failing", "stopping",
                                "succeeded", "failed"}
      BY <2>1 DEF AdvertisingInv, AdTyped, AdvertisingTypeOK
    <2>3. startPc[callback] \notin {"unborn", "failed"}
      BY <2>1 DEF AdvertisingInv, AdFresh, AdCleared
    <2>4. CASE startPc[callback] = "succeeded"
      BY <2>1, <2>4 DEF AdvertisingInv, AdWonIsOwned, NoneStranded
    <2>5. QED BY <2>2, <2>3, <2>4 DEF NoneStranded
  <1>2. QED BY <1>1, AdInvAlways, PTL

\* A start that returned Ok and that no stop went after owns the slot, and is on air
\* unless a power-off ended it, whatever late callbacks, timers and guards of other
\* starts do.
THEOREM OkAlwaysOnAir == AdvertisingSpec => []OkMeansOnAir
  <1>1. AdvertisingInv => OkMeansOnAir
    BY DEF AdvertisingInv, OkMeansOnAir, AdWonIsOwned, AdConfirmed, AdUntouched
  <1>2. QED BY <1>1, AdInvAlways, PTL

(***************************************************************************)
(* Notifications: the inductive invariant.                                 *)
(***************************************************************************)

Busy == {s \in Sends : sendPc[s] # "idle"}

\* The types; each send makes one gate at most.
NotifyTyped == TypeOK /\ gatesMade <= Cardinality(Busy)

\* A send in line, or let through, holds the device's gate; so does the registered
\* one.  Nobody holds another gate.
OneGate ==
  /\ \A s \in Sends : gateOf[s] # NoGate => gateOf[s] = device
  /\ \A s \in Sends : sendPc[s] \in {"entering", "queued", "permitted"} => gateOf[s] # NoGate
  /\ \A s \in Sends : sendPc[s] = "permitted" => permit[gateOf[s]] = s
  /\ flight # None => gateOf[flight] # NoGate /\ permit[gateOf[flight]] = flight

FlightBegan ==
  flight # None =>
    sendPc[flight] \in {"registered", "found", "waiting", "declined", "abandoning", "done"}

\* A link that is lost will be reported, if Kotlin knows the device or is about to.
LossAhead(queue, known) ==
  /\ known => \E j \in 1..Len(queue) : queue[j] = "disconnected"
  /\ \A i \in 1..Len(queue) : queue[i] = "connected" =>
       \E j \in 1..Len(queue) : i < j /\ queue[j] = "disconnected"

LossFollows == link \/ receiver = "due" \/ LossAhead(inbox, connected)

\* A send that found its device keeps the gate while Kotlin has the device, and until
\* its removal is reported.
FoundIsConnected ==
  flight # None /\ sendPc[flight] \in {"found", "waiting", "abandoning", "done"} =>
    connected \/ binder = "reporting" \/ receiver = "reporting"

\* Unless a disconnect strayed: the registered send is the only one that the stack
\* has been given, or is being given, ...
WithStack(t) == owed = t \/ \E i \in 1..Len(inbox) : inbox[i] = t

OneHandedOver ==
  /\ \A s \in Sends : sendPc[s] \in {"registered", "found"} => flight = s
  /\ \A t \in Sends : WithStack(t) =>
       flight = t /\ sendPc[t] \in {"waiting", "abandoning", "done"}
  \* ... and it is called back for once.
  /\ \A i \in 1..Len(inbox) : inbox[i] \in Sends => owed = None
  /\ \A i, j \in 1..Len(inbox) : inbox[i] \in Sends /\ inbox[j] \in Sends => i = j

NotifyInv ==
  /\ NotifyTyped /\ OneGate /\ FlightBegan /\ LossFollows /\ FoundIsConnected
  /\ (owed # None => link) /\ GateIsOwed
  /\ strays = {} => OneHandedOver

\* The sends can be counted, and no gate is the missing one.
LEMMA SendsFinite == IsFiniteSet(Sends) /\ Cardinality(Sends) \in Nat /\ NoGate \notin Gates
  BY SendsAssumption, FS_CardinalityType DEF NoGate, Gates

\* A place in line that is given up leaves a line.
LEMMA LeaveLineTyped ==
  ASSUME NEW q \in Seq(Sends), NEW s
  PROVE  LeaveLine(q, s) \in Seq(Sends)
  <1> DEFINE places == {i \in 1..Len(q) : q[i] = s}
             i == CHOOSE j \in places : TRUE
  <1>1. CASE places = {}
    BY <1>1 DEF LeaveLine
  <1>2. CASE places # {}
    <2>1. i \in 1..Len(q)
      BY <1>2
    <2>2. LeaveLine(q, s) = SubSeq(q, 1, i - 1) \o SubSeq(q, i + 1, Len(q))
      BY <1>2 DEF LeaveLine
    <2> HIDE DEF i
    <2>3. SubSeq(q, 1, i - 1) \in Seq(Sends) /\ SubSeq(q, i + 1, Len(q)) \in Seq(Sends)
      BY <2>1
    <2>4. QED BY <2>2, <2>3
  <1>3. QED BY <1>1, <1>2

\* The permit that a send lets go is passed on; no other moves.
LEMMA LetGoKeeps ==
  ASSUME TypeOK, NEW s \in Sends, gateOf[s] # NoGate, LetGo(s)
  PROVE  /\ gateOf' = [gateOf EXCEPT ![s] = NoGate]
         /\ permit' \in [Gates -> Sends \cup {None}] /\ line' \in [Gates -> Seq(Sends)]
         /\ \A g \in Gates : permit[g] # s => permit'[g] = permit[g]
  <1> DEFINE g == gateOf[s]
  <1>1. g \in Gates /\ gateOf' = [gateOf EXCEPT ![s] = NoGate]
    BY DEF TypeOK, LetGo
  <1>2. line[g] \in Seq(Sends)
    BY <1>1 DEF TypeOK
  <1>3. CASE permit[g] # s
    <2>1. line' = [line EXCEPT ![g] = LeaveLine(line[g], s)] /\ permit' = permit
      BY <1>3 DEF LetGo
    <2>2. QED BY <1>1, <1>2, <2>1, LeaveLineTyped DEF TypeOK
  <1>4. CASE permit[g] = s /\ line[g] = << >>
    BY <1>1, <1>4 DEF LetGo, TypeOK
  <1>5. CASE permit[g] = s /\ line[g] # << >>
    <2>1. Head(line[g]) \in Sends /\ Tail(line[g]) \in Seq(Sends)
      BY <1>2, <1>5
    <2>2. /\ permit' = [permit EXCEPT ![g] = Head(line[g])]
          /\ line' = [line EXCEPT ![g] = Tail(line[g])]
      BY <1>5 DEF LetGo
    <2>3. QED BY <1>1, <1>5, <2>1, <2>2 DEF TypeOK
  <1>6. QED BY <1>3, <1>4, <1>5

\* The registered send is resolved or cleared, and the gate opened.
GateParts ==
  /\ gateOf \in [Sends -> Gates \cup {NoGate}] /\ device \in Gates \cup {NoGate}
  /\ permit \in [Gates -> Sends \cup {None}] /\ line \in [Gates -> Seq(Sends)]
  /\ flight \in Sends \cup {None} /\ waiter \in BOOLEAN
  /\ result \in [Sends -> Sends \cup {None, Gone}]

\* Completing the flight keeps the entry of the device well formed.
LEMMA CompleteTyped ==
  ASSUME TypeOK, OneGate, NEW value \in Sends \cup {Gone}, CompleteFlight(value)
  PROVE  GateParts' /\ flight' = None /\ gatesMade' = gatesMade
  <1>1. flight' = None /\ waiter' = FALSE /\ gatesMade' = gatesMade
    BY DEF CompleteFlight
  <1>2. device' \in Gates \cup {NoGate}
    BY DEF CompleteFlight, ForgetIfIdle, TypeOK
  <1>3. CASE flight = None
    BY <1>1, <1>2, <1>3 DEF CompleteFlight, TypeOK, GateParts
  <1>4. CASE flight # None
    <2>1. flight \in Sends /\ gateOf[flight] # NoGate /\ LetGo(flight)
      BY <1>4 DEF CompleteFlight, TypeOK, OneGate
    <2>2. result' \in [Sends -> Sends \cup {None, Gone}]
      BY <1>4 DEF CompleteFlight, TypeOK
    <2>3. QED BY <1>1, <1>2, <2>1, <2>2, LetGoKeeps DEF TypeOK, GateParts
  <1>5. QED BY <1>3, <1>4

\* A gate that a send lets go: the others keep theirs.
LEMMA GateLetGo ==
  ASSUME TypeOK, OneGate, NEW x \in Sends, gateOf[x] # NoGate, LetGo(x),
         device' = device \/ ForgetIfIdle,
         sendPc'[x] \notin {"entering", "queued", "permitted"},
         \A s \in Sends : s # x => sendPc'[s] = sendPc[s],
         flight' = flight \/ flight' = None, flight' # x
  PROVE  OneGate'
  <1>1. /\ gateOf' = [gateOf EXCEPT ![x] = NoGate]
        /\ \A g \in Gates : permit[g] # x => permit'[g] = permit[g]
    BY LetGoKeeps
  <1>2. \A s \in Sends : gateOf'[s] # NoGate => device' = device
    BY <1>1 DEF OneGate, TypeOK, ForgetIfIdle
  <1>3. \A s \in Sends : s # x /\ gateOf[s] # NoGate => gateOf[s] \in Gates
    BY DEF TypeOK
  <1>4. ASSUME NEW s \in Sends, s # x, gateOf[s] # NoGate
        PROVE  gateOf'[s] = gateOf[s] /\ (permit[gateOf[s]] = s => permit'[gateOf[s]] = s)
    BY <1>1, <1>3, <1>4 DEF TypeOK
  <1>5. QED BY <1>1, <1>2, <1>4 DEF OneGate, TypeOK

\* Completing the flight passes its permit on or back: one gate, one permit.
LEMMA CompleteKeepsGate ==
  ASSUME TypeOK, OneGate, FlightBegan, NEW value \in Sends \cup {Gone},
         CompleteFlight(value), UNCHANGED sendPc
  PROVE  OneGate'
  <1>1. CASE flight = None
    BY <1>1 DEF CompleteFlight, ForgetIfIdle, OneGate, TypeOK
  <1>2. CASE flight # None
    BY <1>2, GateLetGo DEF CompleteFlight, OneGate, FlightBegan, TypeOK
  <1>3. QED BY <1>1, <1>2

\* A send that begins was not counted yet.
LEMMA BusyGrows ==
  ASSUME NotifyTyped, NEW s \in Sends, sendPc[s] = "idle", NEW pc, pc # "idle",
         sendPc' = [sendPc EXCEPT ![s] = pc]
  PROVE  /\ Cardinality(Busy) + 1 <= Cardinality(Sends)
         /\ Cardinality(Busy') = Cardinality(Busy) + 1
  <1>1. IsFiniteSet(Sends) /\ IsFiniteSet(Busy) /\ Cardinality(Busy) \in Nat
    BY SendsFinite, FS_Subset, FS_CardinalityType DEF Busy
  <1>2. Busy' = Busy \cup {s} /\ s \notin Busy
    BY DEF Busy, NotifyTyped, TypeOK
  <1>3. Cardinality(Busy \cup {s}) = Cardinality(Busy) + 1
    BY <1>1, <1>2, FS_AddElement
  <1>4. Cardinality(Busy \cup {s}) <= Cardinality(Sends)
    BY <1>1, FS_Subset DEF Busy
  <1>5. QED BY <1>2, <1>3, <1>4

\* A send that has begun goes on counting for the gates made.
LEMMA BusyStays ==
  ASSUME NotifyTyped, NEW s \in Sends, sendPc[s] # "idle", NEW pc, pc # "idle",
         sendPc' = [sendPc EXCEPT ![s] = pc]
  PROVE  Busy' = Busy
  BY DEF Busy, NotifyTyped, TypeOK

\* The entry of a device that has one keeps its gate; a new one is in bounds.
LEMMA EnsureTyped ==
  ASSUME NotifyTyped, Cardinality(Busy) + 1 <= Cardinality(Sends), EnsureDevice
  PROVE  /\ device' \in Gates /\ gatesMade' \in 0..Cardinality(Sends)
         /\ gatesMade' <= gatesMade + 1
  <1>1. Cardinality(Sends) \in Nat /\ Cardinality(Busy) \in Nat /\ gatesMade \in Nat
    BY SendsFinite, FS_Subset, FS_CardinalityType DEF Busy, NotifyTyped, TypeOK
  <1>2. QED BY <1>1, SendsFinite DEF EnsureDevice, NotifyTyped, TypeOK, Gates

\* Every step keeps the types.
LEMMA NotifyTypesStep ==
  ASSUME NotifyTyped, TypeOK, OneGate, Next
  PROVE  TypeOK'
  <1> USE SendsFinite, SendsAssumption DEF TypeOK, GateParts, vars, SetSend, gateVars,
        stackVars, kotlinVars
  <1>1. ASSUME NEW s \in Sends, SendSteps(s)
        PROVE  TypeOK'
    <2>1. CASE Enter(s)
      BY <2>1, BusyGrows, EnsureTyped DEF Enter
    <2>2. CASE Acquire(s)
      BY <2>2 DEF Acquire
    <2>3. CASE Queue(s)
      <3>1. gateOf[s] \in Gates
        BY <2>3 DEF Queue, OneGate
      <3>2. Append(line[gateOf[s]], s) \in Seq(Sends)
        BY <3>1
      <3>3. line' \in [Gates -> Seq(Sends)]
        BY <2>3, <3>1, <3>2 DEF Queue
      <3>4. QED BY <2>3, <3>3 DEF Queue
    <2>4. CASE Granted(s)
      BY <2>4 DEF Granted
    <2>5. CASE GateTimesOut(s)
      <3>1. gateOf[s] # NoGate /\ LetGo(s)
        BY <2>5 DEF GateTimesOut, OneGate
      <3>2. QED BY <2>5, <3>1, LetGoKeeps DEF GateTimesOut
    <2>6. CASE Leave(s)
      BY <2>6 DEF Leave, ForgetIfIdle
    <2>7. CASE DroppedInLine(s)
      <3>1. gateOf[s] # NoGate /\ LetGo(s)
        BY <2>7 DEF DroppedInLine, OneGate
      <3>2. QED BY <2>7, <3>1, LetGoKeeps DEF DroppedInLine
    <2>8. CASE Register(s)
      <3>1. device # NoGate
        BY <2>8 DEF Register, OneGate
      <3>2. QED BY <2>8, <3>1 DEF Register, EnsureDevice
    <2>9. CASE FindDevice(s)
      BY <2>9 DEF FindDevice
    <2>10. CASE StackTakes(s)
      BY <2>10 DEF StackTakes
    <2>11. CASE HandOffDeclined(s)
      BY <2>11 DEF HandOffDeclined
    <2>12. CASE Withdraw(s)
      <3>1. CASE flight = s
        <4>1. gateOf[s] # NoGate /\ LetGo(s)
          BY <2>12, <3>1 DEF Withdraw, OneGate
        <4>2. QED BY <2>12, <3>1, <4>1, LetGoKeeps DEF Withdraw, ForgetIfIdle
      <3>2. CASE flight # s
        BY <2>12, <3>2 DEF Withdraw, ForgetIfIdle
      <3>3. QED BY <3>1, <3>2
    <2>13. CASE Resolved(s)
      BY <2>13 DEF Resolved
    <2>14. CASE GiveUp(s)
      BY <2>14 DEF GiveUp
    <2>15. CASE Abandon(s)
      BY <2>15 DEF Abandon
    <2>16. QED BY <1>1, <2>1, <2>2, <2>3, <2>4, <2>5, <2>6, <2>7, <2>8, <2>9, <2>10, <2>11,
                  <2>12, <2>13, <2>14, <2>15 DEF SendSteps
  <1>2. CASE LinkUp
    BY <1>2 DEF LinkUp
  <1>3. CASE LinkDown
    <2>1. Append(inbox, "disconnected") \in Seq(Sends \cup {"connected", "disconnected"})
      OBVIOUS
    <2>2. QED BY <1>3, <2>1 DEF LinkDown
  <1>4. CASE PowerOff
    <2>1. Append(inbox, "disconnected") \in Seq(Sends \cup {"connected", "disconnected"})
      OBVIOUS
    <2>2. QED BY <1>4, <2>1 DEF PowerOff
  <1>5. CASE Confirm
    BY <1>5 DEF Confirm
  <1>6. CASE ConnectedCallback
    BY <1>6 DEF ConnectedCallback, BinderFree
  <1>7. CASE DisconnectedCallback
    <2>1. Tail(inbox) \in Seq(Sends \cup {"connected", "disconnected"})
      BY <1>7 DEF DisconnectedCallback, BinderFree
    <2>2. binder' \in {"idle", "reporting"}
      BY <1>7 DEF DisconnectedCallback
    <2>3. QED BY <1>7, <2>1, <2>2 DEF DisconnectedCallback
  <1>8. CASE BinderReports
    <2>1. GateParts' /\ flight' = None /\ gatesMade' = gatesMade
      BY <1>8, CompleteTyped DEF BinderReports, DisconnectGate
    <2>2. QED BY <1>8, <2>1 DEF BinderReports, DisconnectGate
  <1>9. CASE NotificationSent
    <2>1. Head(inbox) \in Sends \cup {Gone}
      BY <1>9 DEF NotificationSent
    <2>2. GateParts' /\ flight' = None /\ gatesMade' = gatesMade
      BY <1>9, <2>1, CompleteTyped DEF NotificationSent
    <2>3. QED BY <1>9, <2>2 DEF NotificationSent, BinderFree
  <1>10. CASE ReceiverRemoves
    BY <1>10 DEF ReceiverRemoves
  <1>11. CASE ReceiverReports
    <2>1. GateParts' /\ flight' = None /\ gatesMade' = gatesMade
      BY <1>11, CompleteTyped DEF ReceiverReports, DisconnectGate
    <2>2. QED BY <1>11, <2>1 DEF ReceiverReports, DisconnectGate
  <1>12. QED BY <1>1, <1>2, <1>3, <1>4, <1>5, <1>6, <1>7, <1>8, <1>9, <1>10, <1>11 DEF Next,
                StackSteps, BinderSteps, ReceiverSteps

\* ... and makes a gate for a send that begins, or none.
LEMMA BusyStep ==
  ASSUME NotifyTyped, TypeOK, TypeOK', OneGate, Next
  PROVE  (gatesMade <= Cardinality(Busy))'
  <1> USE DEF NotifyTyped, vars, SetSend, gateVars, stackVars, kotlinVars
  <1>1. ASSUME NEW s \in Sends, SendSteps(s)
        PROVE  (gatesMade <= Cardinality(Busy))'
    <2>1. CASE Enter(s)
      <3>1. /\ Cardinality(Busy') = Cardinality(Busy) + 1
            /\ Cardinality(Busy) + 1 <= Cardinality(Sends)
        BY <2>1, BusyGrows DEF Enter
      <3>2. gatesMade' <= gatesMade + 1
        BY <2>1, <3>1, EnsureTyped DEF Enter
      <3>3. Cardinality(Busy) \in Nat /\ gatesMade \in Nat /\ gatesMade' \in Nat
        BY SendsFinite, FS_Subset, FS_CardinalityType DEF Busy, TypeOK
      <3>4. QED BY <3>1, <3>2, <3>3
    <2>2. CASE Acquire(s)
      <3>1. Busy' = Busy /\ gatesMade' = gatesMade
        BY <2>2, BusyStays DEF Acquire
      <3>2. QED BY <3>1
    <2>3. CASE Queue(s)
      <3>1. Busy' = Busy /\ gatesMade' = gatesMade
        BY <2>3, BusyStays DEF Queue
      <3>2. QED BY <3>1
    <2>4. CASE Granted(s)
      <3>1. Busy' = Busy /\ gatesMade' = gatesMade
        BY <2>4, BusyStays DEF Granted
      <3>2. QED BY <3>1
    <2>5. CASE GateTimesOut(s)
      <3>1. Busy' = Busy /\ gatesMade' = gatesMade
        BY <2>5, BusyStays DEF GateTimesOut
      <3>2. QED BY <3>1
    <2>6. CASE Leave(s)
      <3>1. Busy' = Busy /\ gatesMade' = gatesMade
        BY <2>6, BusyStays DEF Leave
      <3>2. QED BY <3>1
    <2>7. CASE DroppedInLine(s)
      <3>1. Busy' = Busy /\ gatesMade' = gatesMade
        BY <2>7, BusyStays DEF DroppedInLine
      <3>2. QED BY <3>1
    <2>8. CASE Register(s)
      <3>1. device # NoGate
        BY <2>8 DEF Register, OneGate, TypeOK
      <3>2. Busy' = Busy
        BY <2>8, BusyStays DEF Register
      <3>3. gatesMade' = gatesMade
        BY <2>8, <3>1 DEF Register, EnsureDevice
      <3>4. QED BY <3>2, <3>3
    <2>9. CASE FindDevice(s)
      <3>1. Busy' = Busy /\ gatesMade' = gatesMade
        BY <2>9, BusyStays DEF FindDevice
      <3>2. QED BY <3>1
    <2>10. CASE StackTakes(s)
      <3>1. Busy' = Busy /\ gatesMade' = gatesMade
        BY <2>10, BusyStays DEF StackTakes
      <3>2. QED BY <3>1
    <2>11. CASE HandOffDeclined(s)
      <3>1. Busy' = Busy /\ gatesMade' = gatesMade
        BY <2>11, BusyStays DEF HandOffDeclined
      <3>2. QED BY <3>1
    <2>12. CASE Withdraw(s)
      <3>1. Busy' = Busy /\ gatesMade' = gatesMade
        BY <2>12, BusyStays DEF Withdraw
      <3>2. QED BY <3>1
    <2>13. CASE Resolved(s)
      <3>1. Busy' = Busy /\ gatesMade' = gatesMade
        BY <2>13, BusyStays DEF Resolved
      <3>2. QED BY <3>1
    <2>14. CASE GiveUp(s)
      <3>1. Busy' = Busy /\ gatesMade' = gatesMade
        BY <2>14, BusyStays DEF GiveUp
      <3>2. QED BY <3>1
    <2>15. CASE Abandon(s)
      <3>1. Busy' = Busy /\ gatesMade' = gatesMade
        BY <2>15, BusyStays DEF Abandon
      <3>2. QED BY <3>1
    <2>16. QED BY <1>1, <2>1, <2>2, <2>3, <2>4, <2>5, <2>6, <2>7, <2>8, <2>9, <2>10, <2>11,
                  <2>12, <2>13, <2>14, <2>15 DEF SendSteps
  <1>2. CASE LinkUp
    <2>1. Busy' = Busy /\ gatesMade' = gatesMade
      BY <1>2 DEF LinkUp, Busy
    <2>2. QED BY <2>1
  <1>3. CASE LinkDown
    <2>1. Busy' = Busy /\ gatesMade' = gatesMade
      BY <1>3 DEF LinkDown, Busy
    <2>2. QED BY <2>1
  <1>4. CASE PowerOff
    <2>1. Busy' = Busy /\ gatesMade' = gatesMade
      BY <1>4 DEF PowerOff, Busy
    <2>2. QED BY <2>1
  <1>5. CASE Confirm
    <2>1. Busy' = Busy /\ gatesMade' = gatesMade
      BY <1>5 DEF Confirm, Busy
    <2>2. QED BY <2>1
  <1>6. CASE ConnectedCallback
    <2>1. Busy' = Busy /\ gatesMade' = gatesMade
      BY <1>6 DEF ConnectedCallback, Busy
    <2>2. QED BY <2>1
  <1>7. CASE DisconnectedCallback
    <2>1. Busy' = Busy /\ gatesMade' = gatesMade
      BY <1>7 DEF DisconnectedCallback, Busy
    <2>2. QED BY <2>1
  <1>8. CASE BinderReports
    <2>1. Busy' = Busy /\ gatesMade' = gatesMade
      BY <1>8 DEF BinderReports, DisconnectGate, CompleteFlight, Busy
    <2>2. QED BY <2>1
  <1>9. CASE NotificationSent
    <2>1. Busy' = Busy /\ gatesMade' = gatesMade
      BY <1>9 DEF NotificationSent, CompleteFlight, Busy
    <2>2. QED BY <2>1
  <1>10. CASE ReceiverRemoves
    <2>1. Busy' = Busy /\ gatesMade' = gatesMade
      BY <1>10 DEF ReceiverRemoves, Busy
    <2>2. QED BY <2>1
  <1>11. CASE ReceiverReports
    <2>1. Busy' = Busy /\ gatesMade' = gatesMade
      BY <1>11 DEF ReceiverReports, DisconnectGate, CompleteFlight, Busy
    <2>2. QED BY <2>1
  <1>12. QED BY <1>1, <1>2, <1>3, <1>4, <1>5, <1>6, <1>7, <1>8, <1>9, <1>10, <1>11 DEF Next,
                StackSteps, BinderSteps, ReceiverSteps

\* One gate is in use at a time.
LEMMA OneGateStep ==
  ASSUME TypeOK, OneGate, FlightBegan, Next
  PROVE  OneGate'
  <1> USE DEF vars, SetSend, gateVars, stackVars, kotlinVars
  <1>1. ASSUME NEW s \in Sends, SendSteps(s)
        PROVE  OneGate'
    <2>1. CASE Enter(s)
      <3>1. flight # s
        BY <2>1, SendsAssumption DEF Enter, FlightBegan
      <3>2. CASE device = NoGate
        BY <2>1, <3>1, <3>2 DEF Enter, EnsureDevice, OneGate, TypeOK, NoGate
      <3>3. CASE device # NoGate
        BY <2>1, <3>1, <3>3 DEF Enter, EnsureDevice, OneGate, TypeOK
      <3>4. QED BY <3>2, <3>3
    <2>2. CASE Acquire(s)
      BY <2>2, SendsAssumption DEF Acquire, OneGate, TypeOK
    <2>3. CASE Queue(s)
      BY <2>3 DEF Queue, OneGate, TypeOK
    <2>4. CASE Granted(s)
      BY <2>4 DEF Granted, OneGate, TypeOK
    <2>5. CASE GateTimesOut(s)
      <3>1. gateOf[s] # NoGate /\ LetGo(s) /\ flight # s
        BY <2>5, SendsAssumption DEF GateTimesOut, OneGate, FlightBegan, TypeOK
      <3>2. QED BY <2>5, <3>1, GateLetGo DEF GateTimesOut, TypeOK
    <2>6. CASE Leave(s)
      BY <2>6 DEF Leave, ForgetIfIdle, OneGate, TypeOK
    <2>7. CASE DroppedInLine(s)
      <3>1. gateOf[s] # NoGate /\ LetGo(s) /\ flight # s
        BY <2>7, SendsAssumption DEF DroppedInLine, OneGate, FlightBegan, TypeOK
      <3>2. QED BY <2>7, <3>1, GateLetGo DEF DroppedInLine, TypeOK
    <2>8. CASE Register(s)
      <3>1. gateOf[s] = device /\ device # NoGate /\ permit[device] = s
        BY <2>8 DEF Register, OneGate
      <3>2. QED BY <2>8, <3>1 DEF Register, EnsureDevice, OneGate, TypeOK
    <2>9. CASE FindDevice(s)
      BY <2>9 DEF FindDevice, OneGate, TypeOK
    <2>10. CASE StackTakes(s)
      BY <2>10 DEF StackTakes, OneGate, TypeOK
    <2>11. CASE HandOffDeclined(s)
      BY <2>11 DEF HandOffDeclined, OneGate, TypeOK
    <2>12. CASE Withdraw(s)
      <3>1. CASE flight = s
        <4>1. gateOf[s] # NoGate /\ LetGo(s) /\ ForgetIfIdle /\ flight' = None /\ s # None
          BY <2>12, <3>1, SendsAssumption DEF Withdraw, OneGate
        <4>2. QED BY <2>12, <4>1, GateLetGo DEF Withdraw, TypeOK
      <3>2. CASE flight # s
        BY <2>12, <3>2 DEF Withdraw, ForgetIfIdle, OneGate, TypeOK
      <3>3. QED BY <3>1, <3>2
    <2>13. CASE Resolved(s)
      BY <2>13 DEF Resolved, OneGate, TypeOK
    <2>14. CASE GiveUp(s)
      BY <2>14 DEF GiveUp, OneGate, TypeOK
    <2>15. CASE Abandon(s)
      BY <2>15 DEF Abandon, OneGate, TypeOK
    <2>16. QED BY <1>1, <2>1, <2>2, <2>3, <2>4, <2>5, <2>6, <2>7, <2>8, <2>9, <2>10, <2>11,
                  <2>12, <2>13, <2>14, <2>15 DEF SendSteps
  <1>2. CASE LinkUp
    BY <1>2 DEF LinkUp, OneGate, TypeOK
  <1>3. CASE LinkDown
    BY <1>3 DEF LinkDown, OneGate, TypeOK
  <1>4. CASE PowerOff
    BY <1>4 DEF PowerOff, OneGate, TypeOK
  <1>5. CASE Confirm
    BY <1>5 DEF Confirm, OneGate, TypeOK
  <1>6. CASE ConnectedCallback
    BY <1>6 DEF ConnectedCallback, BinderFree, OneGate, TypeOK
  <1>7. CASE DisconnectedCallback
    BY <1>7 DEF DisconnectedCallback, BinderFree, OneGate, TypeOK
  <1>8. CASE BinderReports
    BY <1>8, CompleteKeepsGate DEF BinderReports, DisconnectGate
  <1>9. CASE NotificationSent
    <2>1. Head(inbox) \in Sends \cup {Gone}
      BY <1>9 DEF NotificationSent
    <2>2. QED BY <1>9, <2>1, CompleteKeepsGate DEF NotificationSent
  <1>10. CASE ReceiverRemoves
    BY <1>10 DEF ReceiverRemoves, OneGate, TypeOK
  <1>11. CASE ReceiverReports
    BY <1>11, CompleteKeepsGate DEF ReceiverReports, DisconnectGate
  <1>12. QED BY <1>1, <1>2, <1>3, <1>4, <1>5, <1>6, <1>7, <1>8, <1>9, <1>10, <1>11 DEF Next,
                StackSteps, BinderSteps, ReceiverSteps

\* What the binder thread takes from its inbox, and what is posted to it.
LEMMA InboxTail ==
  ASSUME TypeOK, inbox # <<>>, inbox' = Tail(inbox)
  PROVE  /\ Len(inbox) \in Nat /\ Len(inbox') \in Nat /\ Len(inbox) = Len(inbox') + 1
         /\ \A i \in 1..Len(inbox') : i + 1 \in 1..Len(inbox) /\ inbox'[i] = inbox[i + 1]
         /\ \A i \in 1..Len(inbox) : i # 1 => i - 1 \in 1..Len(inbox') /\ inbox'[i - 1] = inbox[i]
         /\ 1 \in 1..Len(inbox) /\ inbox[1] = Head(inbox)
  BY DEF TypeOK

\* What a callback posted to the binder thread leaves where it was.
LEMMA InboxPost ==
  ASSUME TypeOK, NEW m \in Sends \cup {"connected", "disconnected"}, inbox' = Append(inbox, m)
  PROVE  /\ Len(inbox) \in Nat /\ Len(inbox') = Len(inbox) + 1
         /\ \A i \in 1..Len(inbox) : i \in 1..Len(inbox') /\ inbox'[i] = inbox[i]
         /\ \A i \in 1..Len(inbox') : i # Len(inbox') => i \in 1..Len(inbox)
         /\ Len(inbox') \in 1..Len(inbox') /\ inbox'[Len(inbox')] = m
  BY DEF TypeOK

\* A send is registered only after it was let through.
LEMMA FlightBeganStep ==
  ASSUME TypeOK, FlightBegan, Next
  PROVE  FlightBegan'
  <1> USE DEF vars, SetSend, gateVars, stackVars, kotlinVars
  <1>1. ASSUME NEW s \in Sends, SendSteps(s)
        PROVE  FlightBegan'
    <2>1. CASE Enter(s)
      BY <2>1, SendsAssumption DEF Enter, FlightBegan, TypeOK
    <2>2. CASE Acquire(s)
      BY <2>2, SendsAssumption DEF Acquire, FlightBegan, TypeOK
    <2>3. CASE Queue(s)
      BY <2>3, SendsAssumption DEF Queue, FlightBegan, TypeOK
    <2>4. CASE Granted(s)
      BY <2>4, SendsAssumption DEF Granted, FlightBegan, TypeOK
    <2>5. CASE GateTimesOut(s)
      BY <2>5, SendsAssumption DEF GateTimesOut, FlightBegan, TypeOK
    <2>6. CASE Leave(s)
      BY <2>6, SendsAssumption DEF Leave, FlightBegan, TypeOK
    <2>7. CASE DroppedInLine(s)
      BY <2>7, SendsAssumption DEF DroppedInLine, FlightBegan, TypeOK
    <2>8. CASE Register(s)
      BY <2>8, SendsAssumption DEF Register, FlightBegan, TypeOK
    <2>9. CASE FindDevice(s)
      BY <2>9, SendsAssumption DEF FindDevice, FlightBegan, TypeOK
    <2>10. CASE StackTakes(s)
      BY <2>10, SendsAssumption DEF StackTakes, FlightBegan, TypeOK
    <2>11. CASE HandOffDeclined(s)
      BY <2>11, SendsAssumption DEF HandOffDeclined, FlightBegan, TypeOK
    <2>12. CASE Withdraw(s)
      BY <2>12, SendsAssumption DEF Withdraw, FlightBegan, TypeOK
    <2>13. CASE Resolved(s)
      BY <2>13, SendsAssumption DEF Resolved, FlightBegan, TypeOK
    <2>14. CASE GiveUp(s)
      BY <2>14, SendsAssumption DEF GiveUp, FlightBegan, TypeOK
    <2>15. CASE Abandon(s)
      BY <2>15, SendsAssumption DEF Abandon, FlightBegan, TypeOK
    <2>16. QED BY <1>1, <2>1, <2>2, <2>3, <2>4, <2>5, <2>6, <2>7, <2>8, <2>9, <2>10, <2>11,
                  <2>12, <2>13, <2>14, <2>15 DEF SendSteps
  <1>2. CASE LinkUp
    BY <1>2, SendsAssumption DEF LinkUp, FlightBegan, TypeOK
  <1>3. CASE LinkDown
    BY <1>3, SendsAssumption DEF LinkDown, FlightBegan, TypeOK
  <1>4. CASE PowerOff
    BY <1>4, SendsAssumption DEF PowerOff, FlightBegan, TypeOK
  <1>5. CASE Confirm
    BY <1>5, SendsAssumption DEF Confirm, FlightBegan, TypeOK
  <1>6. CASE ConnectedCallback
    BY <1>6, SendsAssumption DEF ConnectedCallback, BinderFree, FlightBegan, TypeOK
  <1>7. CASE DisconnectedCallback
    BY <1>7, SendsAssumption DEF DisconnectedCallback, BinderFree, FlightBegan, TypeOK
  <1>8. CASE BinderReports
    BY <1>8, SendsAssumption DEF BinderReports, DisconnectGate, CompleteFlight, FlightBegan,
       TypeOK
  <1>9. CASE NotificationSent
    BY <1>9, SendsAssumption DEF NotificationSent, BinderFree, CompleteFlight, FlightBegan,
       TypeOK
  <1>10. CASE ReceiverRemoves
    BY <1>10, SendsAssumption DEF ReceiverRemoves, FlightBegan, TypeOK
  <1>11. CASE ReceiverReports
    BY <1>11, SendsAssumption DEF ReceiverReports, DisconnectGate, CompleteFlight,
       FlightBegan, TypeOK
  <1>12. QED BY <1>1, <1>2, <1>3, <1>4, <1>5, <1>6, <1>7, <1>8, <1>9, <1>10, <1>11 DEF Next,
                StackSteps, BinderSteps, ReceiverSteps

\* The stack forgets what it took from a device that is gone.
LEMMA OwedStep ==
  ASSUME TypeOK, owed # None => link, Next
  PROVE  (owed # None => link)'
  <1> USE DEF vars, SetSend, gateVars, stackVars, kotlinVars
  <1>1. ASSUME NEW s \in Sends, SendSteps(s)
        PROVE  (owed # None => link)'
    <2>1. CASE Enter(s)
      BY <2>1, SendsAssumption DEF Enter, TypeOK
    <2>2. CASE Acquire(s)
      BY <2>2, SendsAssumption DEF Acquire, TypeOK
    <2>3. CASE Queue(s)
      BY <2>3, SendsAssumption DEF Queue, TypeOK
    <2>4. CASE Granted(s)
      BY <2>4, SendsAssumption DEF Granted, TypeOK
    <2>5. CASE GateTimesOut(s)
      BY <2>5, SendsAssumption DEF GateTimesOut, TypeOK
    <2>6. CASE Leave(s)
      BY <2>6, SendsAssumption DEF Leave, TypeOK
    <2>7. CASE DroppedInLine(s)
      BY <2>7, SendsAssumption DEF DroppedInLine, TypeOK
    <2>8. CASE Register(s)
      BY <2>8, SendsAssumption DEF Register, TypeOK
    <2>9. CASE FindDevice(s)
      BY <2>9, SendsAssumption DEF FindDevice, TypeOK
    <2>10. CASE StackTakes(s)
      BY <2>10, SendsAssumption DEF StackTakes, TypeOK
    <2>11. CASE HandOffDeclined(s)
      BY <2>11, SendsAssumption DEF HandOffDeclined, TypeOK
    <2>12. CASE Withdraw(s)
      BY <2>12, SendsAssumption DEF Withdraw, TypeOK
    <2>13. CASE Resolved(s)
      BY <2>13, SendsAssumption DEF Resolved, TypeOK
    <2>14. CASE GiveUp(s)
      BY <2>14, SendsAssumption DEF GiveUp, TypeOK
    <2>15. CASE Abandon(s)
      BY <2>15, SendsAssumption DEF Abandon, TypeOK
    <2>16. QED BY <1>1, <2>1, <2>2, <2>3, <2>4, <2>5, <2>6, <2>7, <2>8, <2>9, <2>10, <2>11,
                  <2>12, <2>13, <2>14, <2>15 DEF SendSteps
  <1>2. CASE LinkUp
    BY <1>2, SendsAssumption DEF LinkUp, TypeOK
  <1>3. CASE LinkDown
    BY <1>3, SendsAssumption DEF LinkDown, TypeOK
  <1>4. CASE PowerOff
    BY <1>4, SendsAssumption DEF PowerOff, TypeOK
  <1>5. CASE Confirm
    BY <1>5, SendsAssumption DEF Confirm, TypeOK
  <1>6. CASE ConnectedCallback
    BY <1>6, SendsAssumption DEF ConnectedCallback, BinderFree, TypeOK
  <1>7. CASE DisconnectedCallback
    BY <1>7, SendsAssumption DEF DisconnectedCallback, BinderFree, TypeOK
  <1>8. CASE BinderReports
    BY <1>8, SendsAssumption DEF BinderReports, DisconnectGate, CompleteFlight, TypeOK
  <1>9. CASE NotificationSent
    BY <1>9, SendsAssumption DEF NotificationSent, BinderFree, CompleteFlight, TypeOK
  <1>10. CASE ReceiverRemoves
    BY <1>10, SendsAssumption DEF ReceiverRemoves, TypeOK
  <1>11. CASE ReceiverReports
    BY <1>11, SendsAssumption DEF ReceiverReports, DisconnectGate, CompleteFlight, TypeOK
  <1>12. QED BY <1>1, <1>2, <1>3, <1>4, <1>5, <1>6, <1>7, <1>8, <1>9, <1>10, <1>11 DEF Next,
                StackSteps, BinderSteps, ReceiverSteps

\* The loss stays ahead when the oldest callback is taken.
LEMMA LossStaysAhead ==
  ASSUME NEW q \in Seq(Sends \cup {"connected", "disconnected"}), q # <<>>,
         NEW known \in BOOLEAN, LossAhead(q, known)
  PROVE  /\ LossAhead(Tail(q), FALSE)
         /\ Head(q) = "connected" => LossAhead(Tail(q), TRUE)
         /\ Head(q) # "disconnected" => LossAhead(Tail(q), known)
  <1> DEFINE rest == Tail(q)
  <1>1. /\ Len(q) \in Nat /\ Len(rest) = Len(q) - 1
        /\ \A i \in 1..Len(rest) : i + 1 \in 1..Len(q) /\ rest[i] = q[i + 1]
        /\ \A j \in 1..Len(q) : j # 1 => j - 1 \in 1..Len(rest) /\ rest[j - 1] = q[j]
        /\ 1 \in 1..Len(q) /\ q[1] = Head(q)
    OBVIOUS
  <1> HIDE DEF rest
  <1>2. ASSUME NEW i \in 1..Len(rest), rest[i] = "connected"
        PROVE  \E j \in 1..Len(rest) : i < j /\ rest[j] = "disconnected"
    <2>1. PICK j \in 1..Len(q) : i + 1 < j /\ q[j] = "disconnected"
      BY <1>1, <1>2 DEF LossAhead
    <2>2. j - 1 \in 1..Len(rest) /\ rest[j - 1] = "disconnected" /\ i < j - 1
      BY <1>1, <2>1
    <2>3. QED BY <2>2
  <1>3. LossAhead(rest, FALSE)
    BY <1>2 DEF LossAhead
  <1>4. ASSUME Head(q) = "connected"
        PROVE  LossAhead(rest, TRUE)
    <2>1. PICK j \in 1..Len(q) : 1 < j /\ q[j] = "disconnected"
      BY <1>1, <1>4 DEF LossAhead
    <2>2. j - 1 \in 1..Len(rest) /\ rest[j - 1] = "disconnected"
      BY <1>1, <2>1
    <2>3. QED BY <1>2, <2>2 DEF LossAhead
  <1>5. ASSUME Head(q) # "disconnected", known
        PROVE  LossAhead(rest, known)
    <2>1. PICK j \in 1..Len(q) : q[j] = "disconnected"
      BY <1>5 DEF LossAhead
    <2>2. j - 1 \in 1..Len(rest) /\ rest[j - 1] = "disconnected"
      BY <1>1, <1>5, <2>1
    <2>3. QED BY <1>2, <2>2 DEF LossAhead
  <1>6. ASSUME ~known
        PROVE  LossAhead(rest, known)
    BY <1>2, <1>6 DEF LossAhead
  <1>7. QED BY <1>3, <1>4, <1>5, <1>6 DEF rest

\* A loss that is not reported yet stays ahead of the binder thread, or of the receiver.
LEMMA LossStep ==
  ASSUME TypeOK, owed # None => link, LossFollows, Next
  PROVE  LossFollows'
  <1> USE DEF vars, SetSend, gateVars, stackVars, kotlinVars
  <1>1. ASSUME NEW s \in Sends, SendSteps(s)
        PROVE  LossFollows'
    <2>1. CASE Enter(s)
      BY <2>1 DEF Enter, LossFollows
    <2>2. CASE Acquire(s)
      BY <2>2 DEF Acquire, LossFollows
    <2>3. CASE Queue(s)
      BY <2>3 DEF Queue, LossFollows
    <2>4. CASE Granted(s)
      BY <2>4 DEF Granted, LossFollows
    <2>5. CASE GateTimesOut(s)
      BY <2>5 DEF GateTimesOut, LossFollows
    <2>6. CASE Leave(s)
      BY <2>6 DEF Leave, LossFollows
    <2>7. CASE DroppedInLine(s)
      BY <2>7 DEF DroppedInLine, LossFollows
    <2>8. CASE Register(s)
      BY <2>8 DEF Register, LossFollows
    <2>9. CASE FindDevice(s)
      BY <2>9 DEF FindDevice, LossFollows
    <2>10. CASE StackTakes(s)
      BY <2>10 DEF StackTakes, LossFollows
    <2>11. CASE HandOffDeclined(s)
      BY <2>11 DEF HandOffDeclined, LossFollows
    <2>12. CASE Withdraw(s)
      BY <2>12 DEF Withdraw, LossFollows
    <2>13. CASE Resolved(s)
      BY <2>13 DEF Resolved, LossFollows
    <2>14. CASE GiveUp(s)
      BY <2>14 DEF GiveUp, LossFollows
    <2>15. CASE Abandon(s)
      BY <2>15 DEF Abandon, LossFollows
    <2>16. QED BY <1>1, <2>1, <2>2, <2>3, <2>4, <2>5, <2>6, <2>7, <2>8, <2>9, <2>10, <2>11,
                  <2>12, <2>13, <2>14, <2>15 DEF SendSteps
  <1>2. CASE LinkUp
    BY <1>2 DEF LinkUp, LossFollows
  <1>3. CASE LinkDown
    <2>1. LossAhead(inbox', connected)
      BY <1>3, InboxPost DEF LinkDown, LossAhead
    <2>2. QED BY <1>3, <2>1 DEF LinkDown, LossFollows
  <1>4. CASE PowerOff
    BY <1>4 DEF PowerOff, LossFollows
  <1>5. CASE Confirm
    BY <1>5 DEF Confirm, LossFollows, TypeOK
  <1>6. CASE ConnectedCallback
    <2>1. inbox # <<>> /\ inbox' = Tail(inbox) /\ Head(inbox) = "connected" /\ connected' = TRUE
      BY <1>6 DEF ConnectedCallback, BinderFree
    <2>2. QED BY <1>6, <2>1, LossStaysAhead DEF ConnectedCallback, LossFollows, TypeOK
  <1>7. CASE DisconnectedCallback
    <2>1. inbox # <<>> /\ inbox' = Tail(inbox) /\ connected' = FALSE
      BY <1>7 DEF DisconnectedCallback, BinderFree
    <2>2. QED BY <1>7, <2>1, LossStaysAhead DEF DisconnectedCallback, LossFollows, TypeOK
  <1>8. CASE BinderReports
    BY <1>8 DEF BinderReports, DisconnectGate, CompleteFlight, LossFollows
  <1>9. CASE NotificationSent
    <2>1. inbox # <<>> /\ inbox' = Tail(inbox) /\ Head(inbox) # "disconnected"
      BY <1>9, SendsAssumption DEF NotificationSent, BinderFree
    <2>2. QED BY <1>9, <2>1, LossStaysAhead DEF NotificationSent, LossFollows, TypeOK
  <1>10. CASE ReceiverRemoves
    BY <1>10 DEF ReceiverRemoves, LossFollows, LossAhead
  <1>11. CASE ReceiverReports
    BY <1>11 DEF ReceiverReports, DisconnectGate, CompleteFlight, LossFollows
  <1>12. QED BY <1>1, <1>2, <1>3, <1>4, <1>5, <1>6, <1>7, <1>8, <1>9, <1>10, <1>11 DEF Next,
                StackSteps, BinderSteps, ReceiverSteps

\* Kotlin has the device, or will report it gone.
LEMMA FoundStep ==
  ASSUME TypeOK, FlightBegan, FoundIsConnected, Next
  PROVE  FoundIsConnected'
  <1> USE DEF vars, SetSend, gateVars, stackVars, kotlinVars
  <1>1. ASSUME NEW s \in Sends, SendSteps(s)
        PROVE  FoundIsConnected'
    <2>1. CASE Enter(s)
      BY <2>1, SendsAssumption DEF Enter, FoundIsConnected, FlightBegan, TypeOK
    <2>2. CASE Acquire(s)
      BY <2>2, SendsAssumption DEF Acquire, FoundIsConnected, FlightBegan, TypeOK
    <2>3. CASE Queue(s)
      BY <2>3, SendsAssumption DEF Queue, FoundIsConnected, FlightBegan, TypeOK
    <2>4. CASE Granted(s)
      BY <2>4, SendsAssumption DEF Granted, FoundIsConnected, FlightBegan, TypeOK
    <2>5. CASE GateTimesOut(s)
      BY <2>5, SendsAssumption DEF GateTimesOut, FoundIsConnected, FlightBegan, TypeOK
    <2>6. CASE Leave(s)
      BY <2>6, SendsAssumption DEF Leave, FoundIsConnected, FlightBegan, TypeOK
    <2>7. CASE DroppedInLine(s)
      BY <2>7, SendsAssumption DEF DroppedInLine, FoundIsConnected, FlightBegan, TypeOK
    <2>8. CASE Register(s)
      BY <2>8, SendsAssumption DEF Register, FoundIsConnected, FlightBegan, TypeOK
    <2>9. CASE FindDevice(s)
      BY <2>9, SendsAssumption DEF FindDevice, FoundIsConnected, FlightBegan, TypeOK
    <2>10. CASE StackTakes(s)
      BY <2>10, SendsAssumption DEF StackTakes, FoundIsConnected, FlightBegan, TypeOK
    <2>11. CASE HandOffDeclined(s)
      BY <2>11, SendsAssumption DEF HandOffDeclined, FoundIsConnected, FlightBegan, TypeOK
    <2>12. CASE Withdraw(s)
      BY <2>12, SendsAssumption DEF Withdraw, FoundIsConnected, FlightBegan, TypeOK
    <2>13. CASE Resolved(s)
      BY <2>13, SendsAssumption DEF Resolved, FoundIsConnected, FlightBegan, TypeOK
    <2>14. CASE GiveUp(s)
      BY <2>14, SendsAssumption DEF GiveUp, FoundIsConnected, FlightBegan, TypeOK
    <2>15. CASE Abandon(s)
      BY <2>15, SendsAssumption DEF Abandon, FoundIsConnected, FlightBegan, TypeOK
    <2>16. QED BY <1>1, <2>1, <2>2, <2>3, <2>4, <2>5, <2>6, <2>7, <2>8, <2>9, <2>10, <2>11,
                  <2>12, <2>13, <2>14, <2>15 DEF SendSteps
  <1>2. CASE LinkUp
    BY <1>2, SendsAssumption DEF LinkUp, FoundIsConnected, FlightBegan, TypeOK
  <1>3. CASE LinkDown
    BY <1>3, SendsAssumption DEF LinkDown, FoundIsConnected, FlightBegan, TypeOK
  <1>4. CASE PowerOff
    BY <1>4, SendsAssumption DEF PowerOff, FoundIsConnected, FlightBegan, TypeOK
  <1>5. CASE Confirm
    BY <1>5, SendsAssumption DEF Confirm, FoundIsConnected, FlightBegan, TypeOK
  <1>6. CASE ConnectedCallback
    BY <1>6, SendsAssumption DEF ConnectedCallback, BinderFree, FoundIsConnected,
       FlightBegan, TypeOK
  <1>7. CASE DisconnectedCallback
    BY <1>7, SendsAssumption DEF DisconnectedCallback, BinderFree, FoundIsConnected,
       FlightBegan, TypeOK
  <1>8. CASE BinderReports
    BY <1>8, SendsAssumption DEF BinderReports, DisconnectGate, CompleteFlight,
       FoundIsConnected, FlightBegan, TypeOK
  <1>9. CASE NotificationSent
    BY <1>9, SendsAssumption DEF NotificationSent, BinderFree, CompleteFlight,
       FoundIsConnected, FlightBegan, TypeOK
  <1>10. CASE ReceiverRemoves
    BY <1>10, SendsAssumption DEF ReceiverRemoves, FoundIsConnected, FlightBegan, TypeOK
  <1>11. CASE ReceiverReports
    BY <1>11, SendsAssumption DEF ReceiverReports, DisconnectGate, CompleteFlight,
       FoundIsConnected, FlightBegan, TypeOK
  <1>12. QED BY <1>1, <1>2, <1>3, <1>4, <1>5, <1>6, <1>7, <1>8, <1>9, <1>10, <1>11 DEF Next,
                StackSteps, BinderSteps, ReceiverSteps

\* Reports on their way stay so when something is posted, or when the binder thread
\* takes a connection.
LEMMA ReportsRemain ==
  ASSUME TypeOK, binder' = binder, receiver' = receiver \/ receiver' # "idle",
         NEW m \in Sends \cup {"connected", "disconnected"},
         \/ inbox' = Append(inbox, m) /\ (owed' = owed \/ m \in Sends \cup {"disconnected"})
         \/ inbox # <<>> /\ inbox' = Tail(inbox) /\ Head(inbox) = "connected" /\ owed' = owed,
         ReportIsComing
  PROVE  ReportIsComing'
  <1>1. CASE inbox' = Append(inbox, m) /\ (owed' = owed \/ m \in Sends \cup {"disconnected"})
    BY <1>1, InboxPost DEF ReportIsComing
  <1>2. CASE inbox # <<>> /\ inbox' = Tail(inbox) /\ Head(inbox) = "connected" /\ owed' = owed
    <2>1. CASE owed # None \/ binder = "reporting" \/ receiver # "idle"
      BY <1>2, <2>1 DEF ReportIsComing
    <2>2. CASE \E i \in 1..Len(inbox) : inbox[i] \in Sends \cup {"disconnected"}
      <3>1. PICK i \in 1..Len(inbox) : inbox[i] \in Sends \cup {"disconnected"}
        BY <2>2
      <3>2. i - 1 \in 1..Len(inbox') /\ inbox'[i - 1] \in Sends \cup {"disconnected"}
        BY <1>2, <3>1, InboxTail, SendsAssumption
      <3>3. QED BY <3>2 DEF ReportIsComing
    <2>3. QED BY <2>1, <2>2 DEF ReportIsComing
  <1>3. QED BY <1>1, <1>2

\* A gate that is kept has something to come that frees it.
LEMMA GateOwedStep ==
  ASSUME TypeOK, FlightBegan, LossFollows, FoundIsConnected, GateIsOwed, Next
  PROVE  GateIsOwed'
  <1> USE DEF vars, SetSend, gateVars, stackVars, kotlinVars
  <1>1. ASSUME NEW s \in Sends, SendSteps(s)
        PROVE  GateIsOwed'
    <2>1. CASE Enter(s)
      BY <2>1, SendsAssumption DEF Enter, GateIsOwed, ReportIsComing, FlightBegan, TypeOK
    <2>2. CASE Acquire(s)
      BY <2>2, SendsAssumption DEF Acquire, GateIsOwed, ReportIsComing, FlightBegan, TypeOK
    <2>3. CASE Queue(s)
      BY <2>3, SendsAssumption DEF Queue, GateIsOwed, ReportIsComing, FlightBegan, TypeOK
    <2>4. CASE Granted(s)
      BY <2>4, SendsAssumption DEF Granted, GateIsOwed, ReportIsComing, FlightBegan, TypeOK
    <2>5. CASE GateTimesOut(s)
      BY <2>5, SendsAssumption DEF GateTimesOut, GateIsOwed, ReportIsComing, FlightBegan,
         TypeOK
    <2>6. CASE Leave(s)
      BY <2>6, SendsAssumption DEF Leave, GateIsOwed, ReportIsComing, FlightBegan, TypeOK
    <2>7. CASE DroppedInLine(s)
      BY <2>7, SendsAssumption DEF DroppedInLine, GateIsOwed, ReportIsComing, FlightBegan,
         TypeOK
    <2>8. CASE Register(s)
      BY <2>8, SendsAssumption DEF Register, GateIsOwed, ReportIsComing, FlightBegan, TypeOK
    <2>9. CASE FindDevice(s)
      BY <2>9, SendsAssumption DEF FindDevice, GateIsOwed, ReportIsComing, FlightBegan,
         TypeOK
    <2>10. CASE StackTakes(s)
      <3>1. CASE flight = s
        <4>1. CASE link
          BY <2>10, <4>1, SendsAssumption DEF StackTakes, GateIsOwed, ReportIsComing
        <4>2. CASE ~link /\ (receiver = "due" \/ binder = "reporting" \/ receiver = "reporting")
          BY <2>10, <4>2 DEF StackTakes, GateIsOwed, ReportIsComing
        <4>3. CASE ~link /\ receiver # "due" /\ connected
          BY <2>10, <4>3 DEF StackTakes, GateIsOwed, ReportIsComing, LossFollows, LossAhead
        <4>4. connected \/ binder = "reporting" \/ receiver = "reporting"
          BY <2>10, <3>1, SendsAssumption DEF StackTakes, FoundIsConnected
        <4>5. QED BY <4>1, <4>2, <4>3, <4>4 DEF TypeOK
      <3>2. CASE flight # s
        BY <2>10, <3>2, SendsAssumption DEF StackTakes, GateIsOwed, ReportIsComing, TypeOK
      <3>3. QED BY <3>1, <3>2
    <2>11. CASE HandOffDeclined(s)
      BY <2>11, SendsAssumption DEF HandOffDeclined, GateIsOwed, ReportIsComing,
         FlightBegan, TypeOK
    <2>12. CASE Withdraw(s)
      BY <2>12, SendsAssumption DEF Withdraw, GateIsOwed, ReportIsComing, FlightBegan,
         TypeOK
    <2>13. CASE Resolved(s)
      BY <2>13, SendsAssumption DEF Resolved, GateIsOwed, ReportIsComing, FlightBegan,
         TypeOK
    <2>14. CASE GiveUp(s)
      BY <2>14, SendsAssumption DEF GiveUp, GateIsOwed, ReportIsComing, FlightBegan, TypeOK
    <2>15. CASE Abandon(s)
      BY <2>15, SendsAssumption DEF Abandon, GateIsOwed, ReportIsComing, FlightBegan, TypeOK
    <2>16. QED BY <1>1, <2>1, <2>2, <2>3, <2>4, <2>5, <2>6, <2>7, <2>8, <2>9, <2>10, <2>11,
                  <2>12, <2>13, <2>14, <2>15 DEF SendSteps
  <1>2. CASE LinkUp
    BY <1>2, ReportsRemain DEF LinkUp, GateIsOwed
  <1>3. CASE LinkDown
    <2>1. ReportIsComing'
      BY <1>3, InboxPost DEF LinkDown, ReportIsComing
    <2>2. QED BY <2>1 DEF GateIsOwed
  <1>4. CASE PowerOff
    BY <1>4 DEF PowerOff, GateIsOwed, ReportIsComing
  <1>5. CASE Confirm
    <2>1. ReportIsComing'
      BY <1>5, InboxPost DEF Confirm, ReportIsComing, TypeOK
    <2>2. QED BY <2>1 DEF GateIsOwed
  <1>6. CASE ConnectedCallback
    BY <1>6, ReportsRemain DEF ConnectedCallback, BinderFree, GateIsOwed
  <1>7. CASE DisconnectedCallback
    <2>1. CASE connected
      BY <1>7, <2>1 DEF DisconnectedCallback, GateIsOwed, ReportIsComing
    <2>2. CASE ~connected
      BY <1>7, <2>2 DEF DisconnectedCallback, BinderFree, GateIsOwed, ReportIsComing,
         FoundIsConnected
    <2>3. QED BY <2>1, <2>2
  <1>8. CASE BinderReports
    BY <1>8 DEF BinderReports, DisconnectGate, CompleteFlight, GateIsOwed
  <1>9. CASE NotificationSent
    BY <1>9 DEF NotificationSent, CompleteFlight, GateIsOwed
  <1>10. CASE ReceiverRemoves
    <2>1. CASE connected
      BY <1>10, <2>1 DEF ReceiverRemoves, GateIsOwed, ReportIsComing
    <2>2. CASE ~connected
      BY <1>10, <2>2 DEF ReceiverRemoves, GateIsOwed, ReportIsComing, FoundIsConnected
    <2>3. QED BY <2>1, <2>2
  <1>11. CASE ReceiverReports
    BY <1>11 DEF ReceiverReports, DisconnectGate, CompleteFlight, GateIsOwed
  <1>12. QED BY <1>1, <1>2, <1>3, <1>4, <1>5, <1>6, <1>7, <1>8, <1>9, <1>10, <1>11 DEF Next,
                StackSteps, BinderSteps, ReceiverSteps

\* A callback that does not name a send changes nothing for the sends, whether it is
\* taken or posted.
LEMMA HandedTail ==
  ASSUME TypeOK, OneHandedOver, inbox # <<>>, inbox' = Tail(inbox),
         UNCHANGED <<owed, flight, sendPc>>
  PROVE  OneHandedOver'
  <1>1. \A t \in Sends : WithStack(t)' => WithStack(t)
    BY InboxTail DEF WithStack
  <1>2. \A i, j \in 1..Len(inbox') : inbox'[i] \in Sends /\ inbox'[j] \in Sends
         => i = j /\ owed = None
    <2> TAKE i, j \in 1..Len(inbox')
    <2>1. /\ i \in Nat /\ j \in Nat /\ i + 1 \in 1..Len(inbox) /\ j + 1 \in 1..Len(inbox)
          /\ inbox'[i] = inbox[i + 1] /\ inbox'[j] = inbox[j + 1]
      BY InboxTail
    <2>2. HAVE inbox'[i] \in Sends /\ inbox'[j] \in Sends
    <2>3. i + 1 = j + 1 /\ owed = None
      BY <2>1, <2>2 DEF OneHandedOver
    <2>4. QED BY <2>1, <2>3
  <1>3. QED BY <1>1, <1>2 DEF OneHandedOver

\* A connection, lost or found, posted to the binder thread hands nothing over.
LEMMA HandedPost ==
  ASSUME TypeOK, OneHandedOver, inbox' = inbox \/ inbox' = Append(inbox, "connected")
           \/ inbox' = Append(inbox, "disconnected"),
         owed' = owed \/ owed' = None, UNCHANGED <<flight, sendPc>>
  PROVE  OneHandedOver'
  <1>1. \A i \in 1..Len(inbox') : inbox'[i] \in Sends => i \in 1..Len(inbox) /\ inbox'[i] = inbox[i]
    BY InboxPost, SendsAssumption
  <1>2. \A t \in Sends : WithStack(t)' => WithStack(t)
    BY <1>1, SendsAssumption DEF WithStack
  <1>3. QED BY <1>1, <1>2 DEF OneHandedOver

\* The registered send is let go when the stack has nothing of it.
LEMMA HandedNone ==
  ASSUME TypeOK, OneHandedOver, FlightBegan, NEW f \in Sends, flight = f,
         sendPc'[f] \notin {"registered", "found"}, ~WithStack(f),
         \A t \in Sends : t # f => sendPc'[t] = sendPc[t],
         UNCHANGED <<owed, inbox>>
  PROVE  OneHandedOver'
  <1>1. \A t \in Sends : ~WithStack(t)
    BY DEF OneHandedOver
  <1>2. QED BY <1>1 DEF OneHandedOver, WithStack

\* A disconnect seen by Rust clears the flight with the entry.
LEMMA HandedClear ==
  ASSUME TypeOK, OneHandedOver, FlightBegan, DisconnectGate, strays' = {},
         UNCHANGED <<sendPc, owed, inbox>>
  PROVE  OneHandedOver'
  <1>1. flight' = None
    BY DEF DisconnectGate, CompleteFlight
  <1>2. CASE flight = None
    BY <1>1, <1>2 DEF OneHandedOver, WithStack
  <1>3. CASE flight # None
    <2>1. ~MayCallBack(flight) /\ flight \in Sends
      BY <1>3 DEF DisconnectGate, TypeOK
    <2>2. sendPc[flight] \notin {"registered", "found"} /\ ~WithStack(flight)
      BY <2>1 DEF MayCallBack, WithStack
    <2>3. QED BY <2>1, <2>2, HandedNone
  <1>4. QED BY <1>2, <1>3

\* A disconnect that strayed is not forgotten.
LEMMA StraysGrow ==
  ASSUME Next
  PROVE  strays \subseteq strays'
  BY DEF Next, SendSteps, StackSteps, BinderSteps, ReceiverSteps, DisconnectGate, Enter,
     Acquire, Queue, Granted, GateTimesOut, Leave, DroppedInLine, Register, FindDevice,
     StackTakes, HandOffDeclined, Withdraw, Resolved, GiveUp, Abandon, LinkUp, LinkDown,
     PowerOff, Confirm, ConnectedCallback, DisconnectedCallback, BinderReports,
     NotificationSent, ReceiverRemoves, ReceiverReports

\* Unless a disconnect strays, the stack has the registered send or none.
LEMMA HandedStep ==
  ASSUME TypeOK, OneGate, FlightBegan, OneHandedOver, strays' = {}, Next
  PROVE  OneHandedOver'
  <1> USE DEF vars, SetSend, gateVars, stackVars, kotlinVars
  <1>1. ASSUME NEW s \in Sends, SendSteps(s)
        PROVE  OneHandedOver'
    <2>1. CASE Enter(s)
      BY <2>1, SendsAssumption DEF Enter, OneHandedOver, WithStack, TypeOK
    <2>2. CASE Acquire(s)
      BY <2>2, SendsAssumption DEF Acquire, OneHandedOver, WithStack, TypeOK
    <2>3. CASE Queue(s)
      BY <2>3, SendsAssumption DEF Queue, OneHandedOver, WithStack, TypeOK
    <2>4. CASE Granted(s)
      BY <2>4, SendsAssumption DEF Granted, OneHandedOver, WithStack, TypeOK
    <2>5. CASE GateTimesOut(s)
      BY <2>5, SendsAssumption DEF GateTimesOut, OneHandedOver, WithStack, TypeOK
    <2>6. CASE Leave(s)
      BY <2>6, SendsAssumption DEF Leave, OneHandedOver, WithStack, TypeOK
    <2>7. CASE DroppedInLine(s)
      BY <2>7, SendsAssumption DEF DroppedInLine, OneHandedOver, WithStack, TypeOK
    <2>8. CASE Register(s)
      <3>1. flight = None
        BY <2>8 DEF Register, OneGate, FlightBegan, TypeOK
      <3>2. QED BY <2>8, <3>1, SendsAssumption DEF Register, OneHandedOver, WithStack,
                   TypeOK
    <2>9. CASE FindDevice(s)
      BY <2>9, SendsAssumption DEF FindDevice, OneHandedOver, WithStack, TypeOK
    <2>10. CASE StackTakes(s)
      <3>1. flight = s /\ \A t \in Sends : ~WithStack(t)
        BY <2>10 DEF StackTakes, OneHandedOver
      <3>2. QED BY <2>10, <3>1, SendsAssumption DEF StackTakes, OneHandedOver, WithStack,
                   TypeOK
    <2>11. CASE HandOffDeclined(s)
      BY <2>11, SendsAssumption DEF HandOffDeclined, OneHandedOver, WithStack, TypeOK
    <2>12. CASE Withdraw(s)
      <3>1. CASE flight = s
        <4>1. ~WithStack(s)
          BY <2>12 DEF Withdraw, OneHandedOver
        <4>2. QED BY <2>12, <3>1, <4>1, HandedNone DEF Withdraw, TypeOK
      <3>2. CASE flight # s
        BY <2>12, <3>2, SendsAssumption DEF Withdraw, OneHandedOver, WithStack, TypeOK
      <3>3. QED BY <3>1, <3>2
    <2>13. CASE Resolved(s)
      BY <2>13, SendsAssumption DEF Resolved, OneHandedOver, WithStack, TypeOK
    <2>14. CASE GiveUp(s)
      BY <2>14, SendsAssumption DEF GiveUp, OneHandedOver, WithStack, TypeOK
    <2>15. CASE Abandon(s)
      BY <2>15, SendsAssumption DEF Abandon, OneHandedOver, WithStack, TypeOK
    <2>16. QED BY <1>1, <2>1, <2>2, <2>3, <2>4, <2>5, <2>6, <2>7, <2>8, <2>9, <2>10, <2>11,
                  <2>12, <2>13, <2>14, <2>15 DEF SendSteps
  <1>2. CASE LinkUp
    BY <1>2, HandedPost DEF LinkUp
  <1>3. CASE LinkDown
    BY <1>3, HandedPost DEF LinkDown
  <1>4. CASE PowerOff
    BY <1>4, HandedPost DEF PowerOff
  <1>5. CASE Confirm
    <2>1. owed \in Sends /\ flight = owed /\ sendPc[owed] \in {"waiting", "abandoning", "done"}
      BY <1>5 DEF Confirm, OneHandedOver, WithStack, TypeOK
    <2>2. \A i \in 1..Len(inbox) : inbox[i] \notin Sends
      BY <1>5 DEF Confirm, OneHandedOver
    <2>3. \A i \in 1..Len(inbox') : inbox'[i] \in Sends => i = Len(inbox') /\ inbox'[i] = owed
      BY <1>5, <2>1, <2>2, InboxPost DEF Confirm
    <2>4. \A t \in Sends : WithStack(t)' => t = owed
      BY <1>5, <2>3, SendsAssumption DEF Confirm, WithStack
    <2>5. owed' = None /\ UNCHANGED <<flight, sendPc>>
      BY <1>5 DEF Confirm
    <2>6. QED BY <2>1, <2>3, <2>4, <2>5 DEF OneHandedOver
  <1>6. CASE ConnectedCallback
    BY <1>6, HandedTail DEF ConnectedCallback, BinderFree
  <1>7. CASE DisconnectedCallback
    BY <1>7, HandedTail DEF DisconnectedCallback, BinderFree
  <1>8. CASE BinderReports
    BY <1>8, HandedClear DEF BinderReports
  <1>9. CASE NotificationSent
    <2>1. /\ inbox # <<>> /\ inbox' = Tail(inbox) /\ Head(inbox) \in Sends
          /\ flight' = None /\ UNCHANGED <<owed, sendPc>>
      BY <1>9 DEF NotificationSent, BinderFree, CompleteFlight
    <2>2. WithStack(Head(inbox)) /\ owed = None
      BY <2>1, InboxTail DEF WithStack, OneHandedOver
    <2>3. \A i \in 1..Len(inbox') : inbox'[i] \notin Sends
      <3>1. SUFFICES ASSUME NEW i \in 1..Len(inbox'), inbox'[i] \in Sends PROVE FALSE
        OBVIOUS
      <3>2. i \in Nat /\ i + 1 \in 1..Len(inbox) /\ inbox[i + 1] \in Sends
        BY <2>1, <3>1, InboxTail
      <3>3. i + 1 = 1
        BY <2>1, <3>2, InboxTail DEF OneHandedOver
      <3>4. i >= 1
        BY <3>1
      <3>5. QED BY <3>2, <3>3, <3>4
    <2>4. flight = Head(inbox) /\ sendPc[flight] \in {"waiting", "abandoning", "done"}
      BY <2>1, <2>2 DEF OneHandedOver
    <2>5. QED BY <2>1, <2>2, <2>3, <2>4, SendsAssumption DEF OneHandedOver, WithStack
  <1>10. CASE ReceiverRemoves
    BY <1>10, SendsAssumption DEF ReceiverRemoves, OneHandedOver, WithStack, TypeOK
  <1>11. CASE ReceiverReports
    BY <1>11, HandedClear DEF ReceiverReports
  <1>12. QED BY <1>1, <1>2, <1>3, <1>4, <1>5, <1>6, <1>7, <1>8, <1>9, <1>10, <1>11 DEF Next,
                StackSteps, BinderSteps, ReceiverSteps

\* No gate, no send, no connection.
LEMMA NotifyInvInit == Init => NotifyInv
  <1> SUFFICES ASSUME Init PROVE NotifyInv
    OBVIOUS
  <1>1. gatesMade = 0 /\ inbox = <<>> /\ Busy = {} /\ Cardinality({}) = 0
    BY FS_EmptySet DEF Init, Busy
  <1>2. << >> \in Seq(Sends) /\ << >> \in Seq(Sends \cup {"connected", "disconnected"})
    OBVIOUS
  <1>3. NotifyTyped
    <2>1. TypeOK
      <3>1. /\ line \in [Gates -> Seq(Sends)]
            /\ inbox \in Seq(Sends \cup {"connected", "disconnected"})
        BY <1>1, <1>2 DEF Init
      <3>2. /\ gateOf \in [Sends -> Gates \cup {NoGate}] /\ permit \in [Gates -> Sends \cup {None}]
            /\ result \in [Sends -> Sends \cup {None, Gone}]
        BY DEF Init
      <3>3. gatesMade \in 0..Cardinality(Sends) /\ links \in 0..MaxLinks
        BY <1>1, SendsFinite, SendsAssumption DEF Init
      <3>4. QED BY <3>1, <3>2, <3>3 DEF Init, TypeOK
    <2>2. gatesMade <= Cardinality(Busy)
      BY <1>1
    <2>3. QED BY <2>1, <2>2 DEF NotifyTyped
  <1>4. OneGate /\ FlightBegan /\ FoundIsConnected /\ GateIsOwed /\ owed = None
    BY DEF Init, OneGate, FlightBegan, FoundIsConnected, GateIsOwed
  <1>5. LossFollows
    BY <1>1 DEF Init, LossFollows, LossAhead
  <1>6. OneHandedOver
    BY <1>1, SendsAssumption DEF Init, OneHandedOver, WithStack
  <1>7. QED BY <1>3, <1>4, <1>5, <1>6 DEF NotifyInv

\* The parts together.
LEMMA NotifyInvStep == NotifyInv /\ [Next]_vars => NotifyInv'
  <1>1. ASSUME NotifyInv, Next
        PROVE  NotifyInv'
    <2> USE <1>1
    <2>1. TypeOK /\ NotifyTyped /\ OneGate /\ FlightBegan
      BY DEF NotifyInv, NotifyTyped
    <2>2. TypeOK'
      BY <2>1, NotifyTypesStep
    <2>3. NotifyTyped'
      BY <2>1, <2>2, BusyStep DEF NotifyTyped
    <2>4. OneGate' /\ FlightBegan'
      BY <2>1, OneGateStep, FlightBeganStep
    <2>5. (owed # None => link)' /\ LossFollows' /\ FoundIsConnected' /\ GateIsOwed'
      BY <2>1, OwedStep, LossStep, FoundStep, GateOwedStep DEF NotifyInv
    <2>6. strays' = {} => OneHandedOver'
      <3>1. HAVE strays' = {}
      <3>2. strays = {}
        BY <3>1, StraysGrow
      <3>3. OneHandedOver
        BY <3>2 DEF NotifyInv
      <3>4. QED BY <2>1, <3>1, <3>3, HandedStep
    <2>7. QED BY <2>3, <2>4, <2>5, <2>6 DEF NotifyInv
  <1>2. ASSUME NotifyInv, UNCHANGED vars
        PROVE  NotifyInv'
    BY <1>2 DEF NotifyInv, NotifyTyped, TypeOK, Busy, OneGate, FlightBegan, LossFollows,
       LossAhead,
                FoundIsConnected, GateIsOwed, ReportIsComing, OneHandedOver, WithStack, vars,
                gateVars, kotlinVars, stackVars
  <1>3. QED BY <1>1, <1>2

\* While nothing strayed, the stack has nothing of a device when it is given a value.
LEMMA NotifyNoSecond ==
  ASSUME NotifyInv, NEW s \in Sends, sendPc[s] = "found"
  PROVE  owed = None \/ strays # {}
  BY DEF NotifyInv, NotifyTyped, TypeOK, OneHandedOver, WithStack

\* NotifyInv holds in every reachable state.
THEOREM NotifyInvAlways == Spec => []NotifyInv
  BY NotifyInvInit, NotifyInvStep, PTL DEF Spec

\* The variables keep their types; in particular one gate for each send is enough,
\* however often the device's entry is forgotten (NotifyGates in notify_gate.rs).
THEOREM NotifyTypeCorrect == Spec => []TypeOK
  <1>1. NotifyInv => TypeOK
    BY DEF NotifyInv, NotifyTyped
  <1>2. QED BY <1>1, NotifyInvAlways, PTL

\* A gate kept by a send that was handed over is still owed a callback or a report of
\* the disconnect (begin, complete, abandon and disconnect of notify_gate.rs with the
\* handlers of BlePeripheralManager.kt).
THEOREM GateAlwaysOwed == Spec => []GateIsOwed
  <1>1. NotifyInv => GateIsOwed
    BY DEF NotifyInv
  <1>2. QED BY <1>1, NotifyInvAlways, PTL

\* The stack is not given a second value while it has one, unless a disconnect freed
\* the gate of a send on its way to it (notify_gate.rs).
THEOREM NeverASecond == Spec => NeverSecond
  <1>1. NotifyInv => [\A s \in Sends : (sendPc[s] = "found" /\ sendPc'[s] = "waiting")
                        => owed = None \/ strays # {}]_vars
    BY NotifyNoSecond
  <1>2. QED BY <1>1, NotifyInvAlways, PTL DEF NeverSecond

(***************************************************************************)
(* L2CAP channels: the inductive invariant.                                *)
(***************************************************************************)

\* What a socket may be; the chan of L2capTypeOK.
Chans ==
  [table : BOOLEAN, far : {"none", "up", "ended", "broken"},
   reader : {"none", "reading", "handing", "ended", "threw", "failed", "over"},
   closing : {"no", "closing", "reporting", "removing", "over"},
   cause : {"none", "closed", "failed"}, reason : {"none", "closed", "failed"},
   entry : BOOLEAN, inTask : {"none", "receiving", "over"},
   outTask : {"none", "reading", "writing", "closing", "over"},
   app : {"none", "held", "shut", "closed", "dropped"},
   wrote : 0..MaxWrites, toSend : 0..MaxWrites, lost : BOOLEAN,
   timer : {"none", "running", "fired"}, seen : {"none", "clean", "failed"}]

\* A socket without a channel has nothing that belongs to one.
Bare(c) ==
  /\ c.reader = "none" /\ c.closing = "no" /\ c.cause = "none" /\ c.reason = "none"
  /\ ~c.entry /\ c.inTask = "none" /\ c.outTask = "none"
  /\ c.wrote = 0 /\ c.toSend = 0 /\ ~c.lost /\ c.timer = "none" /\ c.seen = "none"

\* A channel: its tasks run, and the sender of its queue is kept until it is removed.
Whole(c) ==
  /\ c.far # "none" /\ c.reader # "none" /\ c.inTask # "none" /\ c.outTask # "none"
  /\ c.entry <=> c.closing # "over"
  /\ c.table <=> c.closing = "no"
  /\ c.toSend <= c.wrote

\* How far a socket is closed, and what is known by then.
Closes(c) ==
  /\ c.closing # "no" => c.cause # "none"
  /\ c.closing \in {"removing", "over"} => c.reason # "none"
  /\ c.inTask = "over" => c.app = "dropped" \/ c.closing = "over"
  /\ c.outTask \in {"closing", "over"} => c.closing # "no"
  /\ c.timer # "none" => c.app \in {"closed", "dropped"}
  /\ c.seen = "clean" => c.reason = "closed"

\* A failure means that the other end is gone, ...
Fails(c) ==
  /\ c.reader = "threw" => c.far = "broken" \/ c.closing \notin {"no", "closing"}
  /\ c.reader = "failed" => c.far = "broken"
  /\ c.reader = "ended" => c.far # "up" \/ c.closing # "no"
  /\ "failed" \in {c.cause, c.reason} => c.far \in {"ended", "broken"}

\* ... and a socket that is closed while the other end is there has written all, or
\* the linger time has passed.
Delivers(c) ==
  /\ c.closing # "no" => c.far # "up" \/ c.timer = "fired" \/ c.outTask \in {"closing", "over"}
  /\ c.lost => c.far # "up" \/ c.timer = "fired"

SocketOK(c) ==
  /\ c.table => c.far # "none"
  /\ c.app = "none" => Bare(c)
  /\ c.app # "none" => Whole(c)
  /\ Closes(c) /\ Fails(c) /\ Delivers(c)

\* What a step on a socket makes of it.
ChangedWell(c, d) ==
  /\ d \in Chans /\ SocketOK(d)
  /\ d.app = "none" <=> c.app = "none"
  /\ c.app = "none" => d.table = c.table
  /\ c.far # "none"

AllSocketsOK == \A k \in Sockets : SocketOK(chan[k])

\* What a call of open_l2cap_channel() has come to, and its socket.
DialsOK ==
  \A o \in Opens :
    /\ openPc[o] \in {"idle", "set"} => dial[o] = "none"
    /\ dial[o] \in {"none", "connecting"} => chan[o] = Closed
    /\ dial[o] = "registered" => chan[o].table /\ chan[o].app = "none"

\* An answer is a channel.
AnswersOK == \A o \in Opens : answer[o] \in Sockets => chan[answer[o]].app # "none"

\* The types of the calls.
CallsTyped ==
  /\ openPc \in [Opens -> {"idle", "set", "waiting", "done"}]
  /\ answer \in [Opens -> Sockets \cup {Refused, Unclaimed}]
  /\ dial \in [Opens -> {"none", "connecting", "registered", "over"}]
  /\ pendingOpen \in Opens \cup {Unclaimed}

ServersTyped ==
  /\ listenPc \in [Listens -> {"idle", "set", "asking", "waiting", "listening", "over"}]
  /\ psm \in [Listens -> Listens \cup {Refused, Unclaimed}]
  /\ pendingServer \in Listens \cup {Unclaimed} /\ acceptTo \in Listens \cup {Unclaimed}
  /\ servers \subseteq Listens

L2capInv ==
  /\ CallsTyped /\ ServersTyped /\ chan \in [Sockets -> Chans]
  /\ AllSocketsOK /\ DialsOK /\ AnswersOK

\* The read loop closes the socket when it ends, ...
LEMMA ReaderClosesOK ==
  ASSUME NEW c \in Chans, SocketOK(c), c.reader \in {"ended", "failed"},
         NEW d
  PROVE  d = [TakenOut(c, IF c.reader = "failed" THEN "failed" ELSE "closed")
                    EXCEPT !.reader = "over"]
           => ChangedWell(c, d)
  <1>0. SUFFICES ASSUME d = [TakenOut(c, IF c.reader = "failed" THEN "failed" ELSE "closed")
                    EXCEPT !.reader = "over"]
                 PROVE  ChangedWell(c, d)
    OBVIOUS
  <1>1. CASE c.table /\ c.reader = "failed"
    <2>1. d = [c EXCEPT !.table = FALSE, !.cause = "failed", !.closing = "closing",
                   !.reader = "over"]
      BY <1>0, <1>1 DEF TakenOut
    <2>2. d \in Chans
      BY <1>1, <2>1 DEF Chans
    <2>3. SocketOK(d)
      BY <1>1, <2>1 DEF Chans, SocketOK, Bare, Whole, Closes, Fails, Delivers
    <2>4. /\ d.app = "none" <=> c.app = "none"
          /\ c.app = "none" => d.table = c.table
          /\ c.far # "none"
      BY <1>1, <2>1 DEF Chans, SocketOK, Bare, Whole
    <2>5. QED BY <2>2, <2>3, <2>4 DEF ChangedWell
  <1>2. CASE c.table /\ c.reader # "failed"
    <2>1. d = [c EXCEPT !.table = FALSE, !.cause = "closed", !.closing = "closing",
                   !.reader = "over"]
      BY <1>0, <1>2 DEF TakenOut
    <2>2. d \in Chans
      BY ZenonT(20), <1>2, <2>1 DEF Chans
    <2>3. SocketOK(d)
      BY <1>2, <2>1 DEF Chans, SocketOK, Bare, Whole, Closes, Fails, Delivers
    <2>4. /\ d.app = "none" <=> c.app = "none"
          /\ c.app = "none" => d.table = c.table
          /\ c.far # "none"
      BY <1>2, <2>1 DEF Chans, SocketOK, Bare, Whole
    <2>5. QED BY <2>2, <2>3, <2>4 DEF ChangedWell
  <1>3. CASE ~c.table
    <2>1. d = [c EXCEPT !.reader = "over"]
      BY <1>0, <1>3 DEF TakenOut
    <2>2. d \in Chans
      BY <1>3, <2>1 DEF Chans
    <2>3. SocketOK(d)
      BY <1>3, <2>1 DEF Chans, SocketOK, Bare, Whole, Closes, Fails, Delivers
    <2>4. /\ d.app = "none" <=> c.app = "none"
          /\ c.app = "none" => d.table = c.table
          /\ c.far # "none"
      BY <1>3, <2>1 DEF Chans, SocketOK, Bare, Whole
    <2>5. QED BY <2>2, <2>3, <2>4 DEF ChangedWell
  <1>4. QED BY <1>1, <1>2, <1>3

\* ... a write does that fails, ...
LEMMA WriteFailsOK ==
  ASSUME NEW c \in Chans, SocketOK(c), c.outTask = "writing" /\ (~c.table \/ c.far # "up"),
         NEW d
  PROVE  d = [TakenOut(c, "failed") EXCEPT !.outTask = "reading", !.lost = TRUE]
           => ChangedWell(c, d)
  <1>0. SUFFICES ASSUME d = [TakenOut(c, "failed") EXCEPT !.outTask = "reading", !.lost = TRUE]
                 PROVE  ChangedWell(c, d)
    OBVIOUS
  <1>1. CASE c.table
    <2>1. d = [c EXCEPT !.table = FALSE, !.cause = "failed", !.closing = "closing",
                   !.outTask = "reading", !.lost = TRUE]
      BY <1>0, <1>1 DEF TakenOut
    <2>2. d \in Chans
      BY <1>1, <2>1 DEF Chans
    <2>3. SocketOK(d)
      BY <1>1, <2>1 DEF Chans, SocketOK, Bare, Whole, Closes, Fails, Delivers
    <2>4. /\ d.app = "none" <=> c.app = "none"
          /\ c.app = "none" => d.table = c.table
          /\ c.far # "none"
      BY <1>1, <2>1 DEF Chans, SocketOK, Bare, Whole
    <2>5. QED BY <2>2, <2>3, <2>4 DEF ChangedWell
  <1>2. CASE ~c.table
    <2>1. d = [c EXCEPT !.outTask = "reading", !.lost = TRUE]
      BY <1>0, <1>2 DEF TakenOut
    <2>2. d \in Chans
      BY <1>2, <2>1 DEF Chans
    <2>3. SocketOK(d)
      BY <1>2, <2>1 DEF Chans, SocketOK, Bare, Whole, Closes, Fails, Delivers
    <2>4. /\ d.app = "none" <=> c.app = "none"
          /\ c.app = "none" => d.table = c.table
          /\ c.far # "none"
      BY <1>2, <2>1 DEF Chans, SocketOK, Bare, Whole
    <2>5. QED BY <2>2, <2>3, <2>4 DEF ChangedWell
  <1>3. QED BY <1>1, <1>2

\* ... the outbound task when all is written, ...
LEMMA OutTaskClosesOK ==
  ASSUME NEW c \in Chans, SocketOK(c), c.outTask = "reading",
         c.app \in {"shut", "closed", "dropped"},
         NEW d
  PROVE  d = [TakenOut(c, "closed")
                    EXCEPT !.outTask = IF c.table THEN "closing" ELSE "over"]
           => ChangedWell(c, d)
  <1>0. SUFFICES ASSUME d = [TakenOut(c, "closed")
                    EXCEPT !.outTask = IF c.table THEN "closing" ELSE "over"]
                 PROVE  ChangedWell(c, d)
    OBVIOUS
  <1>1. CASE c.table
    <2>1. d = [c EXCEPT !.table = FALSE, !.cause = "closed", !.closing = "closing",
                   !.outTask = "closing"]
      BY <1>0, <1>1 DEF TakenOut
    <2>2. d \in Chans
      BY <1>1, <2>1 DEF Chans
    <2>3. SocketOK(d)
      BY <1>1, <2>1 DEF Chans, SocketOK, Bare, Whole, Closes, Fails, Delivers
    <2>4. /\ d.app = "none" <=> c.app = "none"
          /\ c.app = "none" => d.table = c.table
          /\ c.far # "none"
      BY <1>1, <2>1 DEF Chans, SocketOK, Bare, Whole
    <2>5. QED BY <2>2, <2>3, <2>4 DEF ChangedWell
  <1>2. CASE ~c.table
    <2>1. d = [c EXCEPT !.outTask = "over"]
      BY <1>0, <1>2 DEF TakenOut
    <2>2. d \in Chans
      BY <1>2, <2>1 DEF Chans
    <2>3. SocketOK(d)
      BY <1>2, <2>1 DEF Chans, SocketOK, Bare, Whole, Closes, Fails, Delivers
    <2>4. /\ d.app = "none" <=> c.app = "none"
          /\ c.app = "none" => d.table = c.table
          /\ c.far # "none"
      BY <1>2, <2>1 DEF Chans, SocketOK, Bare, Whole
    <2>5. QED BY <2>2, <2>3, <2>4 DEF ChangedWell
  <1>3. QED BY <1>1, <1>2

\* ... and the linger timer.
LEMMA TimerFiresOK ==
  ASSUME NEW c \in Chans, SocketOK(c), c.timer = "running",
         NEW d
  PROVE  d = [TakenOut(c, "closed") EXCEPT !.timer = "fired"]
           => ChangedWell(c, d)
  <1>0. SUFFICES ASSUME d = [TakenOut(c, "closed") EXCEPT !.timer = "fired"]
                 PROVE  ChangedWell(c, d)
    OBVIOUS
  <1>1. CASE c.table
    <2>1. d = [c EXCEPT !.table = FALSE, !.cause = "closed", !.closing = "closing",
                   !.timer = "fired"]
      BY <1>0, <1>1 DEF TakenOut
    <2>2. d \in Chans
      BY <1>1, <2>1 DEF Chans
    <2>3. SocketOK(d)
      BY <1>1, <2>1 DEF Chans, SocketOK, Bare, Whole, Closes, Fails, Delivers
    <2>4. /\ d.app = "none" <=> c.app = "none"
          /\ c.app = "none" => d.table = c.table
          /\ c.far # "none"
      BY <1>1, <2>1 DEF Chans, SocketOK, Bare, Whole
    <2>5. QED BY <2>2, <2>3, <2>4 DEF ChangedWell
  <1>2. CASE ~c.table
    <2>1. d = [c EXCEPT !.timer = "fired"]
      BY <1>0, <1>2 DEF TakenOut
    <2>2. d \in Chans
      BY <1>2, <2>1 DEF Chans
    <2>3. SocketOK(d)
      BY <1>2, <2>1 DEF Chans, SocketOK, Bare, Whole, Closes, Fails, Delivers
    <2>4. /\ d.app = "none" <=> c.app = "none"
          /\ c.app = "none" => d.table = c.table
          /\ c.far # "none"
      BY <1>2, <2>1 DEF Chans, SocketOK, Bare, Whole
    <2>5. QED BY <2>2, <2>3, <2>4 DEF ChangedWell
  <1>3. QED BY <1>1, <1>2

\* The hook starts the timer, on a close ...
LEMMA CloseChannelOK ==
  ASSUME NEW c \in Chans, SocketOK(c), c.app \in {"held", "shut"},
         NEW d
  PROVE  d = [Hooked(c) EXCEPT !.app = "closed",
                    !.reason = IF c.reason = "none" THEN "closed" ELSE c.reason]
           => ChangedWell(c, d)
  <1>0. SUFFICES ASSUME d = [Hooked(c) EXCEPT !.app = "closed",
                    !.reason = IF c.reason = "none" THEN "closed" ELSE c.reason]
                 PROVE  ChangedWell(c, d)
    OBVIOUS
  <1>1. CASE c.reason = "none"
    <2>1. d = [c EXCEPT !.timer = "running", !.app = "closed", !.reason = "closed"]
      BY <1>0, <1>1 DEF Hooked
    <2>2. d \in Chans
      <3> DEFINE e == [c EXCEPT !.timer = "running"]
                 f == [e EXCEPT !.app = "closed"]
      <3>1. e \in Chans
        BY DEF Chans
      <3>2. d = [f EXCEPT !.reason = "closed"]
        BY <2>1
      <3> HIDE DEF e
      <3>3. f \in Chans
        BY <3>1 DEF Chans
      <3> HIDE DEF f
      <3>4. QED BY <3>2, <3>3 DEF Chans
    <2>3. SocketOK(d)
      BY <1>1, <2>1 DEF Chans, SocketOK, Bare, Whole, Closes, Fails, Delivers
    <2>4. /\ d.app = "none" <=> c.app = "none"
          /\ c.app = "none" => d.table = c.table
          /\ c.far # "none"
      BY <1>1, <2>1 DEF Chans, SocketOK, Bare, Whole
    <2>5. QED BY <2>2, <2>3, <2>4 DEF ChangedWell
  <1>2. CASE c.reason # "none"
    <2>1. d = [c EXCEPT !.timer = "running", !.app = "closed"]
      BY <1>0, <1>2 DEF Hooked
    <2>2. d \in Chans
      <3> DEFINE e == [c EXCEPT !.timer = "running"]
      <3>1. e \in Chans
        BY DEF Chans
      <3>2. d = [e EXCEPT !.app = "closed"]
        BY <2>1
      <3> HIDE DEF e
      <3>3. QED BY <3>1, <3>2 DEF Chans
    <2>3. SocketOK(d)
      BY <1>2, <2>1 DEF Chans, SocketOK, Bare, Whole, Closes, Fails, Delivers
    <2>4. /\ d.app = "none" <=> c.app = "none"
          /\ c.app = "none" => d.table = c.table
          /\ c.far # "none"
      BY <1>2, <2>1 DEF Chans, SocketOK, Bare, Whole
    <2>5. QED BY <2>2, <2>3, <2>4 DEF ChangedWell
  <1>3. QED BY <1>1, <1>2

\* ... or when the channel is dropped.
LEMMA DropChannelOK ==
  ASSUME NEW c \in Chans, SocketOK(c), c.app # "none",
         NEW d
  PROVE  d = DroppedChannel(c)
           => ChangedWell(c, d)
  <1>0. SUFFICES ASSUME d = DroppedChannel(c)
                 PROVE  ChangedWell(c, d)
    OBVIOUS
  <1>1. CASE c.app \in {"closed", "dropped"}
    <2>1. d = [c EXCEPT !.app = "dropped"]
      BY <1>0, <1>1 DEF DroppedChannel, Hooked
    <2>2. d \in Chans
      BY <1>1, <2>1 DEF Chans
    <2>3. SocketOK(d)
      BY <1>1, <2>1 DEF Chans, SocketOK, Bare, Whole, Closes, Fails, Delivers
    <2>4. /\ d.app = "none" <=> c.app = "none"
          /\ c.app = "none" => d.table = c.table
          /\ c.far # "none"
      BY <1>1, <2>1 DEF Chans, SocketOK, Bare, Whole
    <2>5. QED BY <2>2, <2>3, <2>4 DEF ChangedWell
  <1>2. CASE c.app \notin {"closed", "dropped"}
    <2>1. d = [c EXCEPT !.timer = "running", !.app = "dropped"]
      BY <1>0, <1>2 DEF DroppedChannel, Hooked
    <2>2. d \in Chans
      <3> DEFINE e == [c EXCEPT !.timer = "running"]
      <3>1. e \in Chans
        BY DEF Chans
      <3>2. d = [e EXCEPT !.app = "dropped"]
        BY <2>1
      <3> HIDE DEF e
      <3>3. QED BY <3>1, <3>2 DEF Chans
    <2>3. SocketOK(d)
      BY <1>2, <2>1 DEF Chans, SocketOK, Bare, Whole, Closes, Fails, Delivers
    <2>4. /\ d.app = "none" <=> c.app = "none"
          /\ c.app = "none" => d.table = c.table
          /\ c.far # "none"
      BY <1>2, <2>1 DEF Chans, SocketOK, Bare, Whole
    <2>5. QED BY <2>2, <2>3, <2>4 DEF ChangedWell
  <1>3. QED BY <1>1, <1>2

\* A step on a socket keeps its part of the invariant and touches no other.
LEMMA L2capSocketStep ==
  ASSUME chan \in [Sockets -> Chans], NEW k \in Sockets, SocketOK(chan[k]), SocketSteps(k)
  PROVE  /\ chan' = [chan EXCEPT ![k] = chan'[k]]
         /\ ChangedWell(chan[k], chan'[k])
         /\ UNCHANGED <<callVars, serverVars>>
  <1>0. chan[k] \in Chans /\ SocketOK(chan[k])
    OBVIOUS
  <1>1. CASE SocketCloses(k)
    BY <1>1, AndroidL2capAssumption
    DEF SocketCloses, ChangedWell, Chans, SocketOK, Bare, Whole,
        Closes, Fails, Delivers
  <1>2. CASE ReportsReason(k)
    BY <1>2, AndroidL2capAssumption
    DEF ReportsReason, ChangedWell, Chans, SocketOK, Bare, Whole,
        Closes, Fails, Delivers
  <1>3. CASE RemovesSender(k)
    BY <1>3, AndroidL2capAssumption
    DEF RemovesSender, ChangedWell, Chans, SocketOK, Bare, Whole,
        Closes, Fails, Delivers
  <1>4. CASE ReadsData(k)
    BY <1>4, AndroidL2capAssumption
    DEF ReadsData, LocallyClosed, ChangedWell, Chans, SocketOK, Bare, Whole,
        Closes, Fails, Delivers
  <1>5. CASE HandedOver(k)
    BY <1>5, AndroidL2capAssumption
    DEF HandedOver, ChangedWell, Chans, SocketOK, Bare, Whole,
        Closes, Fails, Delivers
  <1>6. CASE ReadReturnsEnd(k)
    BY <1>6, AndroidL2capAssumption
    DEF ReadReturnsEnd, LocallyClosed, ChangedWell, Chans, SocketOK, Bare, Whole,
        Closes, Fails, Delivers
  <1>7. CASE ReadThrows(k)
    BY <1>7, AndroidL2capAssumption
    DEF ReadThrows, LocallyClosed, ChangedWell, Chans, SocketOK, Bare, Whole,
        Closes, Fails, Delivers
  <1>8. CASE JudgesThrow(k)
    BY <1>8, AndroidL2capAssumption
    DEF JudgesThrow, ChangedWell, Chans, SocketOK, Bare, Whole,
        Closes, Fails, Delivers
  <1>9. CASE ReaderCloses(k)
    <2>1. /\ chan' = [chan EXCEPT ![k] = [TakenOut(chan[k],
                                      IF chan[k].reader = "failed" THEN "failed" ELSE "closed")
                        EXCEPT !.reader = "over"]]
          /\ UNCHANGED <<callVars, serverVars>>
          /\ chan[k].reader \in {"ended", "failed"}
      BY <1>9 DEF ReaderCloses, Given
    <2>2. /\ chan'[k] = [TakenOut(chan[k],
                                      IF chan[k].reader = "failed" THEN "failed" ELSE "closed")
                        EXCEPT !.reader = "over"]
          /\ chan' = [chan EXCEPT ![k] = chan'[k]]
      BY <2>1
    <2>3. QED BY <2>1, <2>2, <1>0, ReaderClosesOK
  <1>10. CASE InTaskEnds(k)
    BY <1>10, AndroidL2capAssumption
    DEF InTaskEnds, ChangedWell, Chans, SocketOK, Bare, Whole,
        Closes, Fails, Delivers
  <1>11. CASE OutTaskReads(k)
    BY <1>11, AndroidL2capAssumption
    DEF OutTaskReads, ChangedWell, Chans, SocketOK, Bare, Whole,
        Closes, Fails, Delivers
  <1>12. CASE WriteLands(k)
    BY <1>12, AndroidL2capAssumption
    DEF WriteLands, ChangedWell, Chans, SocketOK, Bare, Whole,
        Closes, Fails, Delivers
  <1>13. CASE WriteFails(k)
    <2>1. /\ chan' = [chan EXCEPT ![k] =
               [TakenOut(chan[k], "failed") EXCEPT !.outTask = "reading", !.lost = TRUE]]
          /\ UNCHANGED <<callVars, serverVars>>
          /\ chan[k].outTask = "writing" /\ (~chan[k].table \/ chan[k].far # "up")
      BY <1>13 DEF WriteFails, Given
    <2>2. /\ chan'[k] = [TakenOut(chan[k], "failed") EXCEPT !.outTask = "reading", !.lost = TRUE]
          /\ chan' = [chan EXCEPT ![k] = chan'[k]]
      BY <2>1
    <2>3. QED BY <2>1, <2>2, <1>0, WriteFailsOK
  <1>14. CASE OutTaskCloses(k)
    <2>1. /\ chan' = [chan EXCEPT ![k] = [TakenOut(chan[k], "closed")
                        EXCEPT !.outTask = IF chan[k].table THEN "closing" ELSE "over"]]
          /\ UNCHANGED <<callVars, serverVars>>
          /\ chan[k].outTask = "reading" /\ chan[k].app \in {"shut", "closed", "dropped"}
      BY <1>14 DEF OutTaskCloses, Given
    <2>2. /\ chan'[k] = [TakenOut(chan[k], "closed")
                        EXCEPT !.outTask = IF chan[k].table THEN "closing" ELSE "over"]
          /\ chan' = [chan EXCEPT ![k] = chan'[k]]
      BY <2>1
    <2>3. QED BY <2>1, <2>2, <1>0, OutTaskClosesOK
  <1>15. CASE OutTaskEnds(k)
    BY <1>15, AndroidL2capAssumption
    DEF OutTaskEnds, ChangedWell, Chans, SocketOK, Bare, Whole,
        Closes, Fails, Delivers
  <1>16. CASE TimerFires(k)
    <2>1. /\ chan' = [chan EXCEPT ![k] = [TakenOut(chan[k], "closed") EXCEPT !.timer = "fired"]]
          /\ UNCHANGED <<callVars, serverVars>>
          /\ chan[k].timer = "running"
      BY <1>16 DEF TimerFires, Given
    <2>2. /\ chan'[k] = [TakenOut(chan[k], "closed") EXCEPT !.timer = "fired"]
          /\ chan' = [chan EXCEPT ![k] = chan'[k]]
      BY <2>1
    <2>3. QED BY <2>1, <2>2, <1>0, TimerFiresOK
  <1>17. CASE Write(k)
    BY <1>17, AndroidL2capAssumption
    DEF Write, BridgeGone, ChangedWell, Chans, SocketOK, Bare, Whole,
        Closes, Fails, Delivers
  <1>18. CASE Shutdown(k)
    BY <1>18, AndroidL2capAssumption
    DEF Shutdown, ChangedWell, Chans, SocketOK, Bare, Whole,
        Closes, Fails, Delivers
  <1>19. CASE CloseChannel(k)
    <2>1. /\ chan' = [chan EXCEPT ![k] = [Hooked(chan[k]) EXCEPT !.app = "closed",
                        !.reason = IF chan[k].reason = "none" THEN "closed" ELSE chan[k].reason]]
          /\ UNCHANGED <<callVars, serverVars>>
          /\ chan[k].app \in {"held", "shut"}
      BY <1>19 DEF CloseChannel, Given
    <2>2. /\ chan'[k] = [Hooked(chan[k]) EXCEPT !.app = "closed",
                        !.reason = IF chan[k].reason = "none" THEN "closed" ELSE chan[k].reason]
          /\ chan' = [chan EXCEPT ![k] = chan'[k]]
      BY <2>1
    <2>3. QED BY <2>1, <2>2, <1>0, CloseChannelOK
  <1>20. CASE DropChannel(k)
    <2>1. /\ chan' = [chan EXCEPT ![k] = DroppedChannel(chan[k])]
          /\ UNCHANGED <<callVars, serverVars>>
          /\ chan[k].app # "none"
      BY <1>20 DEF DropChannel, Given
    <2>2. /\ chan'[k] = DroppedChannel(chan[k])
          /\ chan' = [chan EXCEPT ![k] = chan'[k]]
      BY <2>1
    <2>3. QED BY <2>1, <2>2, <1>0, DropChannelOK
  <1>21. CASE ReadEnd(k)
    BY <1>21, AndroidL2capAssumption
    DEF ReadEnd, BridgeGone, ChangedWell, Chans, SocketOK, Bare, Whole,
        Closes, Fails, Delivers
  <1>22. CASE FarEnds(k)
    BY <1>22, AndroidL2capAssumption
    DEF FarEnds, ChangedWell, Chans, SocketOK, Bare, Whole,
        Closes, Fails, Delivers
  <1>23. QED BY <1>1, <1>2, <1>3, <1>4, <1>5, <1>6, <1>7, <1>8, <1>9, <1>10, <1>11, <1>12,
                <1>13, <1>14, <1>15, <1>16, <1>17, <1>18, <1>19, <1>20, <1>21, <1>22 DEF
                SocketSteps

(***************************************************************************)
(* L2CAP channels: every step keeps the invariant.                         *)
(***************************************************************************)
LEMMA RegisteredOK ==
  /\ Registered \in Chans /\ SocketOK(Registered)
  /\ Registered.app = "none" /\ Registered.table
  <1>1. 0 \in 0..MaxWrites
    BY AndroidL2capAssumption
  <1>2. Closed \in Chans
    BY <1>1, Zenon DEF Closed, Chans
  <1> DEFINE e == [Closed EXCEPT !.table = TRUE]
  <1>3. Registered = [e EXCEPT !.far = "up"]
    BY DEF Registered
  <1>4. /\ Closed.reader = "none" /\ Closed.closing = "no" /\ Closed.cause = "none"
        /\ Closed.reason = "none" /\ ~Closed.entry /\ Closed.inTask = "none"
        /\ Closed.outTask = "none" /\ Closed.wrote = 0 /\ Closed.toSend = 0 /\ ~Closed.lost
        /\ Closed.timer = "none" /\ Closed.seen = "none" /\ Closed.app = "none"
    BY DEF Closed
  <1>5. e \in Chans /\ e.table /\ Bare(e) /\ e.app = "none"
    BY <1>2, <1>4 DEF Chans, Bare
  <1> HIDE DEF e
  <1>6. /\ Registered \in Chans /\ Registered.table /\ Bare(Registered)
        /\ Registered.app = "none" /\ Registered.far = "up"
    BY <1>3, <1>5 DEF Chans, Bare
  <1>7. QED
    BY <1>6 DEF SocketOK, Bare, Closes, Fails, Delivers

\* A socket the application is given is a whole one.
LEMMA BridgedOK ==
  ASSUME NEW c \in Chans, SocketOK(c), c.app = "none", c.table,
         NEW d
  PROVE  d = Bridged(c) => d \in Chans /\ SocketOK(d) /\ d.app = "held"
  <1> SUFFICES ASSUME d = Bridged(c)
               PROVE  d \in Chans /\ SocketOK(d) /\ d.app = "held"
    OBVIOUS
  <1> DEFINE e == [c EXCEPT !.reader = "reading", !.entry = TRUE]
             g == [e EXCEPT !.inTask = "receiving"]
             f == [g EXCEPT !.outTask = "reading"]
  <1>1. d = [f EXCEPT !.app = "held"]
    BY DEF Bridged
  <1>2. /\ c.reader = "none" /\ c.closing = "no" /\ c.cause = "none" /\ c.reason = "none"
        /\ c.wrote = 0 /\ c.toSend = 0 /\ ~c.lost /\ c.timer = "none" /\ c.seen = "none"
        /\ c.far # "none" /\ c.table
    BY DEF SocketOK, Bare
  <1> DEFINE AsBefore(x) ==
               /\ x.closing = "no" /\ x.cause = "none" /\ x.reason = "none" /\ x.wrote = 0
               /\ x.toSend = 0 /\ ~x.lost /\ x.timer = "none" /\ x.seen = "none"
               /\ x.far # "none" /\ x.table /\ x.reader = "reading" /\ x.entry
  <1>3. e \in Chans /\ AsBefore(e)
    BY <1>2 DEF Chans
  <1> HIDE DEF e
  <1>4. g \in Chans /\ AsBefore(g) /\ g.inTask = "receiving"
    BY <1>3 DEF Chans
  <1> HIDE DEF g
  <1>5. f \in Chans /\ AsBefore(f) /\ f.inTask = "receiving" /\ f.outTask = "reading"
    BY <1>4 DEF Chans
  <1> HIDE DEF f
  <1>6. /\ d \in Chans /\ AsBefore(d) /\ d.inTask = "receiving" /\ d.outTask = "reading"
        /\ d.app = "held"
    BY <1>1, <1>5 DEF Chans
  <1>7. SocketOK(d)
    BY <1>6 DEF SocketOK, Whole, Closes, Fails, Delivers
  <1>8. QED BY <1>6, <1>7

\* A step that changes channels as they may change, and no dial and no answer.
LEMMA ChansKeep ==
  ASSUME L2capInv, chan' \in [Sockets -> Chans],
         \A k \in Sockets : chan'[k] = chan[k] \/ ChangedWell(chan[k], chan'[k]),
         UNCHANGED <<dial, answer>>,
         \A o \in Opens : openPc'[o] = openPc[o] \/ openPc'[o] = "done"
  PROVE  AllSocketsOK' /\ DialsOK' /\ AnswersOK'
  <1>1. AllSocketsOK'
    BY DEF L2capInv, AllSocketsOK, ChangedWell
  <1>2. DialsOK'
    <2> SUFFICES ASSUME NEW o \in Opens
                 PROVE  /\ openPc'[o] \in {"idle", "set"} => dial[o] = "none"
                        /\ dial[o] \in {"none", "connecting"} => chan'[o] = Closed
                        /\ dial[o] = "registered" => chan'[o].table /\ chan'[o].app = "none"
      BY DEF DialsOK
    <2>1. o \in Sockets /\ Closed.far = "none"
      BY DEF Sockets, Closed
    <2>2. chan'[o] = chan[o] \/ ChangedWell(chan[o], chan'[o])
      BY <2>1
    <2>3. QED BY <2>1, <2>2 DEF L2capInv, DialsOK, ChangedWell
  <1>3. AnswersOK'
    BY DEF L2capInv, AnswersOK, ChangedWell
  <1>4. QED BY <1>1, <1>2, <1>3

\* A step of one socket changes that socket, and well.
LEMMA L2capSocketKeeps ==
  ASSUME L2capInv, NEW k \in Sockets, SocketSteps(k)
  PROVE  L2capInv'
  <1>1. SocketOK(chan[k]) /\ chan \in [Sockets -> Chans]
    BY DEF L2capInv, AllSocketsOK
  <1>2. /\ chan' = [chan EXCEPT ![k] = chan'[k]] /\ ChangedWell(chan[k], chan'[k])
        /\ UNCHANGED <<callVars, serverVars>>
    BY <1>1, L2capSocketStep
  <1>3. chan' \in [Sockets -> Chans]
    BY <1>1, <1>2 DEF ChangedWell
  <1>4. \A j \in Sockets : chan'[j] = chan[j] \/ ChangedWell(chan[j], chan'[j])
    BY <1>1, <1>2
  <1>5. AllSocketsOK' /\ DialsOK' /\ AnswersOK'
    BY <1>2, <1>3, <1>4, ChansKeep DEF callVars
  <1>6. CallsTyped' /\ ServersTyped'
    BY <1>2 DEF L2capInv, CallsTyped, ServersTyped, callVars, serverVars
  <1>7. QED BY <1>3, <1>5, <1>6 DEF L2capInv

\* A channel that is dropped changes as it may.
LEMMA DroppedWell ==
  ASSUME L2capInv, NEW k \in Sockets, chan[k].app # "none"
  PROVE  ChangedWell(chan[k], DroppedChannel(chan[k]))
  BY DropChannelOK DEF L2capInv, AllSocketsOK

\* A step of a listen opens no socket.
LEMMA L2capListenKeeps ==
  ASSUME L2capInv, NEW l \in Listens, ListenSteps(l)
  PROVE  L2capInv'
  <1>1. CASE SetPendingServer(l) \/ SetAcceptTx(l) \/ OpenServer(l) \/ ListenEnds(l)
    <2>1. UNCHANGED <<callVars, chan>>
      BY <1>1 DEF SetPendingServer, SetAcceptTx, OpenServer, ListenEnds
    <2>2. ServersTyped'
      <3> USE AndroidL2capAssumption DEF L2capInv, ServersTyped
      <3>1. CASE SetPendingServer(l)
        BY <3>1 DEF SetPendingServer
      <3>2. CASE SetAcceptTx(l)
        BY <3>2 DEF SetAcceptTx
      <3>3. CASE OpenServer(l)
        BY <3>3 DEF OpenServer
      <3>4. CASE ListenEnds(l)
        BY <3>4 DEF ListenEnds
      <3>5. QED BY <1>1, <3>1, <3>2, <3>3, <3>4
    <2>3. QED
      BY <2>1, <2>2 DEF L2capInv, CallsTyped, AllSocketsOK, DialsOK, AnswersOK, callVars
  <1>2. CASE StreamDropped(l)
    <2>1. PICK unread \in SUBSET {k \in Accepts : chan[k].app = "held"} :
            chan' = [k \in Sockets |->
                       IF k \in unread THEN DroppedChannel(chan[k]) ELSE chan[k]]
      BY <1>2 DEF StreamDropped
    <2>2. /\ UNCHANGED <<psm, pendingServer, acceptTo, servers, callVars>>
          /\ listenPc' = [listenPc EXCEPT ![l] = "over"]
      BY <1>2 DEF StreamDropped
    <2>3. \A k \in Sockets : chan'[k] = chan[k] \/ ChangedWell(chan[k], chan'[k])
      <3> SUFFICES ASSUME NEW k \in Sockets, chan'[k] # chan[k]
                   PROVE  ChangedWell(chan[k], chan'[k])
        OBVIOUS
      <3>1. chan'[k] = DroppedChannel(chan[k]) /\ chan[k].app # "none"
        BY <2>1
      <3>2. QED BY <3>1, DroppedWell
    <2>4. chan' \in [Sockets -> Chans]
      <3>1. \A k \in Sockets : chan'[k] \in Chans
        BY <2>3 DEF ChangedWell, L2capInv
      <3>2. QED BY <2>1, <3>1
    <2>5. AllSocketsOK' /\ DialsOK' /\ AnswersOK'
      BY <2>2, <2>3, <2>4, ChansKeep DEF callVars
    <2>6. CallsTyped' /\ ServersTyped'
      BY <2>2 DEF L2capInv, CallsTyped, ServersTyped, callVars
    <2>7. QED BY <2>4, <2>5, <2>6 DEF L2capInv
  <1>3. QED BY <1>1, <1>2 DEF ListenSteps

\* A socket gets its channel, which may be dropped at once.
LEMMA L2capServerKeeps ==
  ASSUME L2capInv, NEW k \in Accepts, ServerAccepts(k) \/ ServerOpened(k)
  PROVE  L2capInv'
  <1>1. k \in Sockets /\ k \notin Opens /\ chan[k] \in Chans /\ SocketOK(chan[k])
    BY AndroidL2capAssumption DEF L2capInv, AllSocketsOK, Sockets
  <1>2. /\ chan' = [chan EXCEPT ![k] = chan'[k]]
        /\ UNCHANGED <<callVars, serverVars>>
        /\ chan'[k] \in Chans /\ SocketOK(chan'[k])
        /\ chan[k].app = "none" \/ chan'[k].app # "none"
    <2>1. CASE ServerAccepts(k)
      <3>1. chan' = [chan EXCEPT ![k] = Registered] /\ chan[k].far = "none"
            /\ UNCHANGED <<callVars, serverVars>>
        BY <2>1 DEF ServerAccepts
      <3>2. chan'[k] = Registered /\ chan' = [chan EXCEPT ![k] = chan'[k]]
        BY <1>1, <3>1 DEF L2capInv
      <3>3. chan[k].app = "none"
        BY <1>1, <3>1 DEF SocketOK, Whole
      <3>4. QED BY <3>1, <3>2, <3>3, RegisteredOK
    <2>2. CASE ServerOpened(k)
      <3> DEFINE d == Bridged(chan[k])
      <3>1. chan[k].app = "none" /\ chan[k].table
        BY <1>1, <2>2 DEF ServerOpened, SocketOK, Whole
      <3>2. d \in Chans /\ SocketOK(d) /\ d.app = "held"
        BY <1>1, <3>1, BridgedOK
      <3>3. UNCHANGED <<callVars, serverVars>>
            /\ (chan' = [chan EXCEPT ![k] = d] \/ chan' = [chan EXCEPT ![k] = DroppedChannel(d)])
        BY <2>2 DEF ServerOpened
      <3> HIDE DEF d
      <3>4. ChangedWell(d, DroppedChannel(d))
        BY <3>2, DropChannelOK
      <3>5. chan'[k] \in {d, DroppedChannel(d)} /\ chan' = [chan EXCEPT ![k] = chan'[k]]
        BY <1>1, <3>3 DEF L2capInv
      <3>6. QED BY <3>1, <3>2, <3>3, <3>4, <3>5 DEF ChangedWell
    <2>3. QED BY <2>1, <2>2
  <1>3. \A j \in Sockets : j # k => chan'[j] = chan[j]
    BY <1>2 DEF L2capInv
  <1>4. chan' \in [Sockets -> Chans] /\ AllSocketsOK'
    BY <1>1, <1>2, <1>3 DEF L2capInv, AllSocketsOK
  <1>5. CallsTyped' /\ ServersTyped'
    BY <1>2 DEF L2capInv, CallsTyped, ServersTyped, callVars, serverVars
  <1>6. DialsOK'
    BY <1>1, <1>2, <1>3 DEF L2capInv, DialsOK, callVars, Sockets
  <1>7. AnswersOK'
    BY <1>1, <1>2, <1>3 DEF L2capInv, AnswersOK, callVars
  <1>8. QED BY <1>4, <1>5, <1>6, <1>7 DEF L2capInv

\* What the application opens, as a central.
LEMMA L2capOpenKeeps ==
  ASSUME L2capInv, NEW o \in Opens, OpenSteps(o)
  PROVE  L2capInv'
  <1>1. o \in Sockets /\ chan[o] \in Chans /\ SocketOK(chan[o]) /\ Closed.app = "none"
    BY DEF L2capInv, AllSocketsOK, Sockets, Closed
  <1>2. Refused \notin Sockets /\ Unclaimed \notin Opens
    BY AndroidL2capAssumption DEF Sockets
  <1>3. CASE SetPendingOpen(o) \/ AskKotlin(o) \/ DialFails(o) \/ OpenEnds(o)
    <2>1. UNCHANGED <<serverVars, chan>>
      BY <1>3 DEF SetPendingOpen, AskKotlin, DialFails, OpenEnds
    <2>2. CallsTyped'
      <3> USE AndroidL2capAssumption DEF L2capInv, CallsTyped
      <3>1. CASE SetPendingOpen(o)
        BY <3>1 DEF SetPendingOpen
      <3>2. CASE AskKotlin(o)
        BY <3>2 DEF AskKotlin, WaiterFails
      <3>3. CASE DialFails(o)
        BY <3>3 DEF DialFails, WaiterFails
      <3>4. CASE OpenEnds(o)
        BY <3>4 DEF OpenEnds
      <3>5. QED BY <1>3, <3>1, <3>2, <3>3, <3>4
    <2>3. DialsOK'
      <3> USE DEF L2capInv, CallsTyped, DialsOK
      <3>1. CASE SetPendingOpen(o)
        BY <2>1, <3>1 DEF SetPendingOpen
      <3>2. CASE AskKotlin(o)
        BY <2>1, <3>2 DEF AskKotlin, WaiterFails
      <3>3. CASE DialFails(o)
        BY <2>1, <3>3 DEF DialFails, WaiterFails
      <3>4. CASE OpenEnds(o)
        BY <2>1, <3>4 DEF OpenEnds
      <3>5. QED BY <1>3, <3>1, <3>2, <3>3, <3>4
    <2>4. \A q \in Opens : answer'[q] = answer[q] \/ answer'[q] = Refused
      BY <1>3 DEF L2capInv, CallsTyped, SetPendingOpen, AskKotlin, DialFails, OpenEnds,
                  WaiterFails
    <2>5. AnswersOK'
      BY <1>2, <2>1, <2>4 DEF L2capInv, AnswersOK
    <2>6. QED
      BY <2>1, <2>2, <2>3, <2>5 DEF L2capInv, ServersTyped, AllSocketsOK, serverVars
  <1>4. CASE DialConnects(o)
    <2>1. /\ dial[o] = "connecting" /\ dial' = [dial EXCEPT ![o] = "registered"]
          /\ chan' = [chan EXCEPT ![o] = Registered]
          /\ UNCHANGED <<openPc, answer, pendingOpen, serverVars>>
      BY <1>4 DEF DialConnects
    <2>2. chan[o] = Closed /\ openPc[o] \notin {"idle", "set"}
      BY <2>1 DEF L2capInv, DialsOK
    <2>3. chan' \in [Sockets -> Chans] /\ AllSocketsOK'
      BY <1>1, <2>1, RegisteredOK DEF L2capInv, AllSocketsOK
    <2>4. DialsOK'
      BY <1>1, <2>1, <2>2, RegisteredOK DEF L2capInv, DialsOK, CallsTyped, Sockets
    <2>5. AnswersOK'
      BY <1>1, <2>1, <2>2 DEF L2capInv, AnswersOK
    <2>6. CallsTyped' /\ ServersTyped'
      BY <2>1 DEF L2capInv, CallsTyped, ServersTyped, serverVars
    <2>7. QED BY <2>3, <2>4, <2>5, <2>6 DEF L2capInv
  <1>5. CASE CentralOpened(o)
    <2> DEFINE d == Bridged(chan[o])
    <2>1. /\ dial[o] = "registered" /\ dial' = [dial EXCEPT ![o] = "over"]
          /\ pendingOpen' = Unclaimed
          /\ UNCHANGED <<openPc, serverVars>>
      BY <1>5 DEF CentralOpened
    <2>2. \/ /\ pendingOpen \in Opens /\ answer' = [answer EXCEPT ![pendingOpen] = o]
             /\ chan' = [chan EXCEPT ![o] = d]
          \/ /\ chan' = [chan EXCEPT ![o] = DroppedChannel(d)]
             /\ UNCHANGED answer
      BY <1>5 DEF CentralOpened, L2capInv, CallsTyped
    <2>3. chan[o].table /\ chan[o].app = "none" /\ openPc[o] \notin {"idle", "set"}
      BY <2>1 DEF L2capInv, DialsOK
    <2>4. d \in Chans /\ SocketOK(d) /\ d.app = "held"
      BY <1>1, <2>3, BridgedOK
    <2> HIDE DEF d
    <2>5. ChangedWell(d, DroppedChannel(d))
      BY <2>4, DropChannelOK
    <2>6. chan'[o] \in Chans /\ SocketOK(chan'[o]) /\ chan'[o].app # "none"
      BY <1>1, <2>2, <2>4, <2>5 DEF L2capInv, ChangedWell
    <2>7. chan' = [chan EXCEPT ![o] = chan'[o]]
      BY <1>1, <2>2 DEF L2capInv
    <2>8. \A j \in Sockets : j # o => chan'[j] = chan[j]
      BY <2>7 DEF L2capInv
    <2>9. chan' \in [Sockets -> Chans] /\ AllSocketsOK'
      BY <1>1, <2>6, <2>7, <2>8 DEF L2capInv, AllSocketsOK
    <2>10. DialsOK'
      BY <2>1, <2>3, <2>8 DEF L2capInv, DialsOK, CallsTyped, Sockets
    <2>11. AnswersOK'
      <3>1. \A q \in Opens : answer'[q] \in {answer[q], o}
        BY <2>2 DEF L2capInv, CallsTyped
      <3>2. QED BY <1>1, <2>6, <2>8, <3>1 DEF L2capInv, AnswersOK
    <2>12. CallsTyped' /\ ServersTyped'
      BY <1>1, <2>1, <2>2 DEF L2capInv, CallsTyped, ServersTyped, serverVars
    <2>13. QED BY <2>9, <2>10, <2>11, <2>12 DEF L2capInv
  <1>6. CASE OpenDropped(o)
    <2>1. /\ openPc' = [openPc EXCEPT ![o] = "done"]
          /\ UNCHANGED <<answer, dial, pendingOpen, serverVars>>
          /\ chan' = IF answer[o] \in Sockets
                     THEN [chan EXCEPT ![answer[o]] = DroppedChannel(@)] ELSE chan
      BY <1>6 DEF OpenDropped
    <2>2. \A k \in Sockets : chan'[k] = chan[k] \/ ChangedWell(chan[k], chan'[k])
      <3>1. CASE answer[o] \in Sockets
        <4>1. chan[answer[o]].app # "none"
          BY <3>1 DEF L2capInv, AnswersOK
        <4>2. ChangedWell(chan[answer[o]], DroppedChannel(chan[answer[o]]))
          BY <3>1, <4>1, DroppedWell
        <4>3. \A k \in Sockets : \/ chan'[k] = chan[k]
                                 \/ k = answer[o] /\ chan'[k] = DroppedChannel(chan[k])
          BY <2>1, <3>1 DEF L2capInv
        <4>4. QED BY <4>2, <4>3
      <3>2. CASE answer[o] \notin Sockets
        BY <2>1, <3>2
      <3>3. QED BY <3>1, <3>2
    <2>3. chan' \in [Sockets -> Chans]
      <3>1. \A k \in Sockets : chan'[k] \in Chans
        BY <2>2 DEF ChangedWell, L2capInv
      <3>2. QED BY <2>1, <3>1 DEF L2capInv
    <2>4. CallsTyped' /\ ServersTyped'
      BY <2>1 DEF L2capInv, CallsTyped, ServersTyped, serverVars
    <2>5. \A q \in Opens : openPc'[q] = openPc[q] \/ openPc'[q] = "done"
      BY <2>1 DEF L2capInv, CallsTyped
    <2>6. AllSocketsOK' /\ DialsOK' /\ AnswersOK'
      BY <2>1, <2>2, <2>3, <2>5, ChansKeep
    <2>7. QED BY <2>3, <2>4, <2>6 DEF L2capInv
  <1>7. QED BY <1>3, <1>4, <1>5, <1>6 DEF OpenSteps

\* No call made, no socket open.
LEMMA L2capInvInitially == L2capInit => L2capInv
  <1> SUFFICES ASSUME L2capInit PROVE L2capInv
    OBVIOUS
  <1>1. 0 \in 0..MaxWrites
    BY AndroidL2capAssumption
  <1>2. Closed \in Chans
    BY <1>1, Zenon DEF Closed, Chans
  <1>3. SocketOK(Closed)
    BY DEF Closed, SocketOK, Bare, Closes, Fails, Delivers
  <1>4. chan = [k \in Sockets |-> Closed]
    BY DEF L2capInit
  <1>5. chan \in [Sockets -> Chans] /\ AllSocketsOK
    BY <1>2, <1>3, <1>4 DEF AllSocketsOK
  <1>6. CallsTyped /\ ServersTyped
    BY DEF L2capInit, CallsTyped, ServersTyped
  <1>7. DialsOK
    BY <1>4 DEF L2capInit, DialsOK, Sockets
  <1>8. AnswersOK
    BY AndroidL2capAssumption DEF L2capInit, AnswersOK, Sockets
  <1>9. QED BY <1>5, <1>6, <1>7, <1>8 DEF L2capInv

\* The parts together.
LEMMA L2capInvStep == L2capInv /\ [L2capNext]_androidL2capVars => L2capInv'
  <1> SUFFICES ASSUME L2capInv, [L2capNext]_androidL2capVars PROVE L2capInv'
    OBVIOUS
  <1>1. CASE UNCHANGED androidL2capVars
    BY <1>1 DEF L2capInv, CallsTyped, ServersTyped, AllSocketsOK, DialsOK, AnswersOK,
                androidL2capVars, callVars, serverVars
  <1>2. QED
    BY <1>1, L2capOpenKeeps, L2capListenKeeps, L2capServerKeeps, L2capSocketKeeps
    DEF L2capNext

\* It is an invariant.
LEMMA L2capInvAlways == L2capSpec => []L2capInv
  BY L2capInvInitially, L2capInvStep, PTL DEF L2capSpec

(***************************************************************************)
(* L2CAP channels: the theorems.                                           *)
(***************************************************************************)

\* Every variable of the L2CAP calls, servers and sockets keeps its type.
THEOREM L2capTypeCorrect == L2capSpec => []L2capTypeOK
  <1>1. L2capInv => L2capTypeOK
    BY DEF L2capInv, CallsTyped, ServersTyped, Chans, L2capTypeOK
  <1>2. QED BY <1>1, L2capInvAlways, PTL

\* A channel is said to have failed only when the other end was lost, and a read that
\* reports a clean end never precedes the record of a failure, whichever of the read
\* loop, the tasks, the timer and the application closes first.
THEOREM EndAlwaysTrue == L2capSpec => []EndIsTrue
  <1>1. L2capInv => EndIsTrue
    BY DEF L2capInv, AllSocketsOK, SocketOK, Closes, Fails, EndIsTrue
  <1>2. QED BY <1>1, L2capInvAlways, PTL

\* No socket is left in the table with nobody to close it, and no queue is left behind
\* by one that was closed, for any number of calls that are dropped half way.
THEOREM SocketsAlwaysOwned == L2capSpec => []SocketsAreOwned
  <1>1. L2capInv => SocketsAreOwned
    <2> SUFFICES ASSUME L2capInv, NEW k \in Sockets
                 PROVE  /\ chan[k].table => \/ chan[k].app \in {"none", "held"}
                                            \/ chan[k].outTask \in {"reading", "writing"}
                        /\ chan[k].entry => chan[k].table \/ chan[k].closing \notin {"no", "over"}
      BY DEF SocketsAreOwned
    <2>1. SocketOK(chan[k]) /\ chan[k] \in Chans
      BY DEF L2capInv, AllSocketsOK
    <2>2. chan[k].outTask \in {"none", "reading", "writing", "closing", "over"}
      BY <2>1 DEF Chans
    <2>3. QED BY <2>1, <2>2 DEF SocketOK, Bare, Whole, Closes
  <1>2. QED BY <1>1, L2capInvAlways, PTL

\* What was written before a close is written to the socket, unless the other end is
\* lost or the linger time has passed.
THEOREM CloseAlwaysDelivers == L2capSpec => []CloseDelivers
  <1>1. L2capInv => CloseDelivers
    BY DEF L2capInv, AllSocketsOK, SocketOK, Delivers, CloseDelivers
  <1>2. QED BY <1>1, L2capInvAlways, PTL
=============================================================================
