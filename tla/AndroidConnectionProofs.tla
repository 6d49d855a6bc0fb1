---------------------- MODULE AndroidConnectionProofs ----------------------
(***************************************************************************)
(* Proofs about AndroidConnection, for any number of attempts and any set  *)
(* of disconnect() calls.                                                  *)
(***************************************************************************)
EXTENDS AndroidConnection, TLAPS

(***************************************************************************)
(* Types.                                                                  *)
(***************************************************************************)

\* The two reports from Kotlin keep the Rust table well typed.
LEMMA ReportsTyped ==
  ASSUME RustTypeOK, NEW g \in Gens, ReportDown(g) \/ ReportUp(g)
  PROVE  RustTypeOK'
  <1>1. g \in 0..MaxGen
    BY MaxGenAssumption DEF Gens
  <1>2. CASE UNCHANGED rustVars
    BY <1>2 DEF RustTypeOK, rustVars
  <1>3. ASSUME NEW kind \in {"up", "down"}, Tell(kind, g)
        PROVE  /\ told' \in [Gens -> Seq({"up", "down"})]
               /\ lastTold' \in {"none", "up", "down"} \X (0..MaxGen)
    <2>1. Append(told[g], kind) \in Seq({"up", "down"})
      BY DEF RustTypeOK
    <2>2. QED BY <1>1, <1>3, <2>1 DEF RustTypeOK, Tell
  <1>4. CASE ReportDown(g) /\ attempt.gen = g
    <2>1. NoAttempt \in TableEntries
      BY MaxGenAssumption DEF NoAttempt, NoGen, TableEntries
    <2>2. Tell("down", g)
      BY <1>4 DEF ReportDown
    <2>3. QED BY <1>3, <1>4, <2>1, <2>2 DEF ReportDown, RustTypeOK, TableEntries
  <1>5. CASE ReportUp(g) /\ ~UNCHANGED rustVars
    <2>1. Tell("up", g)
      BY <1>5 DEF ReportUp
    <2>2. QED BY <1>3, <1>5, <2>1 DEF ReportUp, RustTypeOK, TableEntries
  <1>6. QED BY <1>2, <1>4, <1>5 DEF ReportDown

\* Closing what an attempt holds keeps the Kotlin side well typed.
LEMMA ReleaseTyped ==
  ASSUME KotlinTypeOK, NEW g \in Gens,
         NEW k \in KotlinAttempts
  PROVE  /\ Release(k) \in KotlinAttempts
         /\ ReleaseClient(g, k) => /\ client' \in [Gens -> {"none", "open", "closed"}]
                                   /\ closes' \in [Gens -> Nat]
  <1>1. Release(k) \in KotlinAttempts
    BY DEF Release, KotlinAttempts
  <1>2. ASSUME ReleaseClient(g, k)
        PROVE  /\ client' \in [Gens -> {"none", "open", "closed"}]
               /\ closes' \in [Gens -> Nat]
    BY <1>2 DEF KotlinTypeOK, ReleaseClient
  <1>3. QED BY <1>1, <1>2

LEMMA ForceCloseTyped ==
  ASSUME RustTypeOK, KotlinTypeOK, NEW g \in Gens, ForceClose(g)
  PROVE  RustTypeOK' /\ KotlinTypeOK'
  <1>1. g \in 0..MaxGen /\ NoGen \in 0..MaxGen
    BY MaxGenAssumption DEF Gens, NoGen
  <1>2. RustTypeOK'
    <2>1. CASE ReportDown(g)
      BY <2>1, ReportsTyped
    <2>2. CASE UNCHANGED rustVars
      BY <2>2 DEF RustTypeOK, rustVars
    <2>3. QED BY <2>1, <2>2 DEF ForceClose
  <1>3. KotlinTypeOK'
    <2>1. kotlin[g] \in KotlinAttempts
      BY DEF KotlinTypeOK
    <2>2. CASE current = g
      BY <1>1, <2>1, <2>2, ReleaseTyped DEF ForceClose, KotlinTypeOK
    <2>3. CASE current # g
      BY <1>1, <2>3 DEF ForceClose, KotlinTypeOK
    <2>4. QED BY <2>2, <2>3
  <1>4. QED BY <1>2, <1>3

LEMMA ConnectTyped ==
  ASSUME TypeOK, NEW g \in Gens, ConnectSteps(g)
  PROVE  TypeOK'
  <1> USE DEF TypeOK
  <1>1. g \in 0..MaxGen /\ NoGen \in 0..MaxGen /\ current \in 0..MaxGen
    BY MaxGenAssumption DEF Gens, NoGen, KotlinTypeOK
  <1>2. CallTypeOK' /\ RadioTypeOK'
    BY DEF ConnectSteps, ConnectCallFails, KotlinRefuses, KotlinConnects,
           KotlinReconnects, ConnectSucceeds, ConnectFails, ConnectDropped,
           ConnectGuardRetires, ConnectGuardForces, CallTypeOK, RadioTypeOK,
           radioVars
  <1>3. CASE ConnectGuardForces(g)
    BY <1>2, <1>3, ForceCloseTyped DEF ConnectGuardForces
  <1>4. CASE ConnectGuardRetires(g)
    BY <1>2, <1>4, ReportsTyped DEF ConnectGuardRetires, kotlinVars, KotlinTypeOK
  <1>5. CASE KotlinReconnects(g)
    <2>1. current \in Gens
      BY <1>1, <1>5, MaxGenAssumption DEF KotlinReconnects, Gens, NoGen
    <2>2. kotlin[current] \in KotlinAttempts
      BY <2>1 DEF KotlinTypeOK
    <2>3. FreshAttempt \in KotlinAttempts
      BY DEF FreshAttempt, KotlinAttempts
    <2>4. KotlinTypeOK'
      BY <1>1, <1>5, <2>1, <2>2, <2>3, ReleaseTyped
      DEF KotlinReconnects, KotlinTypeOK
    <2>5. QED BY <1>2, <1>5, <2>4 DEF KotlinReconnects, RustTypeOK, rustVars
  <1>6. CASE KotlinConnects(g)
    <2>1. KotlinTypeOK'
      BY <1>1, <1>6 DEF KotlinConnects, KotlinTypeOK, FreshAttempt, KotlinAttempts
    <2>2. QED BY <1>2, <1>6, <2>1 DEF KotlinConnects, RustTypeOK, rustVars
  <1>7. CASE UNCHANGED <<rustVars, kotlinVars>>
    BY <1>2, <1>7 DEF RustTypeOK, KotlinTypeOK, rustVars, kotlinVars
  <1>8. QED
    BY <1>3, <1>4, <1>5, <1>6, <1>7
    DEF ConnectSteps, ConnectCallFails, KotlinRefuses, ConnectSucceeds,
        ConnectFails, ConnectDropped

LEMMA OpenTyped ==
  ASSUME TypeOK, NEW g \in Gens, OpenSteps(g)
  PROVE  TypeOK'
  <1> USE DEF TypeOK
  <1>1. NoGen \in 0..MaxGen
    BY MaxGenAssumption DEF NoGen
  <1>2. CallTypeOK' /\ RadioTypeOK'
    BY DEF OpenSteps, OpenGattSkips, OpenGattStarts, FactoryCreates,
           OpenGattPublishes, OpenGattFails, OpenGattReturns, CallTypeOK,
           RadioTypeOK, callVars, radioVars
  <1>3. CASE OpenGattPublishes(g)
    <2> DEFINE held == [kotlin[g] EXCEPT !.gatt = TRUE]
    <2>1. held \in KotlinAttempts
      BY DEF KotlinTypeOK, KotlinAttempts
    <2> HIDE DEF held
    <2>2. opening' \in [Gens -> {"none", "due", "inFactory", "finished"}]
      BY <1>3 DEF OpenGattPublishes, KotlinTypeOK
    <2>3. CASE current = g
      <3>1. kotlin' = [kotlin EXCEPT ![g] = held] /\ UNCHANGED <<client, closes>>
        BY <1>3, <2>3 DEF OpenGattPublishes, held
      <3>2. QED BY <1>2, <1>3, <2>1, <2>2, <3>1
                DEF OpenGattPublishes, KotlinTypeOK, RustTypeOK, rustVars
    <2>4. CASE current # g
      <3>1. kotlin' = [kotlin EXCEPT ![g] = Release(held)] /\ ReleaseClient(g, held)
        BY <1>3, <2>4 DEF OpenGattPublishes, held
      <3>2. QED BY <1>2, <1>3, <2>1, <2>2, <3>1, ReleaseTyped
                DEF OpenGattPublishes, KotlinTypeOK, RustTypeOK, rustVars
    <2>5. QED BY <2>3, <2>4
  <1>4. CASE OpenGattFails(g)
    <2>1. RustTypeOK'
      BY <1>4, ReportsTyped DEF OpenGattFails, RustTypeOK, rustVars
    <2>2. QED BY <1>1, <1>2, <1>4, <2>1 DEF OpenGattFails, KotlinTypeOK
  <1>5. CASE OpenGattSkips(g) \/ OpenGattStarts(g) \/ FactoryCreates(g)
    <2>1. RustTypeOK'
      BY <1>5 DEF OpenGattSkips, OpenGattStarts, FactoryCreates, RustTypeOK, rustVars
    <2>2. KotlinTypeOK'
      BY <1>5 DEF OpenGattSkips, OpenGattStarts, FactoryCreates, KotlinTypeOK
    <2>3. QED BY <1>2, <2>1, <2>2
  <1>6. \/ OpenGattPublishes(g) \/ OpenGattFails(g)
        \/ OpenGattSkips(g) \/ OpenGattStarts(g) \/ FactoryCreates(g)
    BY DEF OpenSteps
  <1> HIDE DEF TypeOK
  <1>7. QED BY <1>3, <1>4, <1>5, <1>6

LEMMA CloserTyped ==
  ASSUME TypeOK, NEW d \in Closers, CloserSteps(d)
  PROVE  TypeOK'
  <1> USE DEF TypeOK
  <1>1. RadioTypeOK'
    BY DEF CloserSteps, MarkDisconnecting, DisconnectCallFails, KotlinDisconnects,
           KotlinDisconnectsUnknown, DisconnectWoken, DisconnectTimesOut,
           TimeoutForces, TimeoutSettles, DisconnectDropped, CloserGuardRetires,
           CloserGuardForces, RadioTypeOK, radioVars
  <1>2. CallTypeOK'
    <2>1. attempt.gen # NoGen => attempt.gen \in Gens
      BY MaxGenAssumption DEF RustTypeOK, NoGen, Gens, TableEntries
    <2>2. CASE MarkDisconnecting(d)
      BY <2>1, <2>2
      DEF MarkDisconnecting, CallTypeOK, RustTypeOK, SetCloser, TableEntries
    <2>3. CASE DisconnectCallFails(d) \/ KotlinDisconnects(d)
               \/ KotlinDisconnectsUnknown(d) \/ DisconnectWoken(d)
      BY <2>3 DEF DisconnectCallFails, KotlinDisconnects,
                  KotlinDisconnectsUnknown, DisconnectWoken, CallTypeOK, SetCloser
    <2>4. CASE DisconnectTimesOut(d) \/ TimeoutForces(d) \/ TimeoutSettles(d)
               \/ DisconnectDropped(d)
      BY <2>4 DEF DisconnectTimesOut, TimeoutForces, TimeoutSettles,
                  DisconnectDropped, CallTypeOK, SetCloser
    <2>5. CASE CloserGuardRetires(d) \/ CloserGuardForces(d)
      BY <2>5 DEF CloserGuardRetires, CloserGuardForces, CallTypeOK, SetCloser
    <2>6. QED BY <2>2, <2>3, <2>4, <2>5 DEF CloserSteps
  <1>3. CASE MarkDisconnecting(d)
    <2>1. attempt' \in TableEntries
      BY <1>3 DEF MarkDisconnecting, RustTypeOK, TableEntries
    <2>2. RustTypeOK'
      BY <1>3, <2>1 DEF MarkDisconnecting, RustTypeOK
    <2>3. KotlinTypeOK'
      BY <1>3 DEF MarkDisconnecting, KotlinTypeOK, kotlinVars
    <2>4. QED BY <1>1, <1>2, <2>2, <2>3
  <1>4. closerPc[d] # "idle" => closerGen[d] \in Gens
    BY DEF CallTypeOK
  <1>5. CASE KotlinDisconnects(d)
    <2>1. current \in Gens
      BY <1>4, <1>5 DEF KotlinDisconnects
    <2>2. kotlin' \in [Gens -> KotlinAttempts]
      <3>1. [kotlin[current] EXCEPT !.disconnecting = TRUE] \in KotlinAttempts
        BY <2>1 DEF KotlinTypeOK, KotlinAttempts
      <3>2. kotlin' = [kotlin EXCEPT ![current] = [@ EXCEPT !.disconnecting = TRUE]]
        BY <1>5 DEF KotlinDisconnects
      <3>3. QED BY <3>1, <3>2 DEF KotlinTypeOK
    <2>3. KotlinTypeOK'
      BY <1>5, <2>2 DEF KotlinDisconnects, KotlinTypeOK
    <2>4. RustTypeOK'
      BY <1>5 DEF KotlinDisconnects, RustTypeOK, rustVars
    <2>5. QED BY <1>1, <1>2, <2>3, <2>4
  <1>6. CASE KotlinDisconnectsUnknown(d) \/ TimeoutForces(d) \/ CloserGuardForces(d)
    BY <1>1, <1>2, <1>4, <1>6, ForceCloseTyped
    DEF KotlinDisconnectsUnknown, TimeoutForces, CloserGuardForces
  <1>7. CASE TimeoutSettles(d) \/ CloserGuardRetires(d)
    BY <1>1, <1>2, <1>4, <1>7, ReportsTyped
    DEF TimeoutSettles, CloserGuardRetires, KotlinTypeOK, kotlinVars
  <1>8. CASE UNCHANGED <<rustVars, kotlinVars>>
    BY <1>1, <1>2, <1>8 DEF RustTypeOK, KotlinTypeOK, rustVars, kotlinVars
  <1>9. QED
    BY <1>3, <1>5, <1>6, <1>7, <1>8
    DEF CloserSteps, DisconnectCallFails, DisconnectWoken, DisconnectTimesOut,
        DisconnectDropped

LEMMA CallbackTyped ==
  ASSUME TypeOK, NEW g \in Gens, CallbackSteps(g)
  PROVE  TypeOK'
  <1> USE DEF TypeOK
  <1> DEFINE held == [kotlin[g] EXCEPT !.gatt = TRUE]
  <1>1. held \in KotlinAttempts
    BY DEF KotlinTypeOK, KotlinAttempts
  <1>2. CallTypeOK'
    <2>1. UNCHANGED callVars
      BY DEF CallbackSteps, LinkUp, LinkDown, StaleStateCallback,
             DisconnectedCallback, ConnectedCallback, MtuSettled
    <2>2. QED BY <2>1 DEF callVars, CallTypeOK
  <1>3. RadioTypeOK'
    <2>1. ASSUME inbox[g] # <<>>
          PROVE  Tail(inbox[g]) \in Seq({"up", "down"})
      BY <2>1 DEF RadioTypeOK
    <2>2. \A kind \in {"up", "down"} : Append(inbox[g], kind) \in Seq({"up", "down"})
      BY DEF RadioTypeOK
    <2>3. QED
      BY <2>1, <2>2
      DEF CallbackSteps, LinkUp, LinkDown, StaleStateCallback,
          DisconnectedCallback, ConnectedCallback, MtuSettled, RadioTypeOK,
          radioVars
  <1>4. CASE StaleStateCallback(g) \/ DisconnectedCallback(g)
    <2> HIDE DEF held
    <2>1. kotlin' = [kotlin EXCEPT ![g] = Release(held)] /\ ReleaseClient(g, held)
      BY <1>4 DEF StaleStateCallback, DisconnectedCallback, held
    <2>2. NoGen \in 0..MaxGen
      BY MaxGenAssumption DEF NoGen
    <2>3. RustTypeOK'
      BY <1>4, ReportsTyped
      DEF StaleStateCallback, DisconnectedCallback, RustTypeOK, rustVars
    <2>4. QED
      BY <1>1, <1>2, <1>3, <1>4, <2>1, <2>2, <2>3, ReleaseTyped
      DEF StaleStateCallback, DisconnectedCallback, KotlinTypeOK
  <1>5. CASE ConnectedCallback(g)
    <2>1. [held EXCEPT !.connected = TRUE]
            \in KotlinAttempts
      BY <1>1 DEF KotlinAttempts
    <2>2. \/ kotlin' = [kotlin EXCEPT ![g] = held] /\ UNCHANGED mtu
          \/ /\ kotlin' = [kotlin EXCEPT ![g] = [held EXCEPT !.connected = TRUE]]
             /\ mtu' = [mtu EXCEPT ![g] = "asking"]
      BY <1>5 DEF ConnectedCallback
    <2> HIDE DEF held
    <2>3. UNCHANGED <<rustVars, watermark, current, opening, client, closes>>
      BY <1>5 DEF ConnectedCallback
    <2>4. KotlinTypeOK'
      <3>1. /\ kotlin' \in [Gens -> KotlinAttempts]
            /\ mtu' \in [Gens -> {"none", "asking", "settled"}]
        <4> DEFINE up == [held EXCEPT !.connected = TRUE]
        <4> HIDE DEF up
        <4>1. up \in KotlinAttempts
          BY <2>1 DEF up
        <4>2. kotlin' = [kotlin EXCEPT ![g] = held] \/ kotlin' = [kotlin EXCEPT ![g] = up]
          BY <2>2 DEF up
        <4>3. UNCHANGED mtu \/ mtu' = [mtu EXCEPT ![g] = "asking"]
          BY <2>2
        <4>4. mtu' \in [Gens -> {"none", "asking", "settled"}]
          BY <4>3 DEF KotlinTypeOK
        <4>5. CASE kotlin' = [kotlin EXCEPT ![g] = held]
          BY <1>1, <4>4, <4>5 DEF KotlinTypeOK
        <4>6. CASE kotlin' = [kotlin EXCEPT ![g] = up]
          BY <4>1, <4>4, <4>6 DEF KotlinTypeOK
        <4>7. QED BY <4>2, <4>5, <4>6
      <3>2. QED BY <2>3, <3>1 DEF KotlinTypeOK
    <2>5. QED
      BY <1>2, <1>3, <2>3, <2>4 DEF RustTypeOK, rustVars
  <1>6. CASE MtuSettled(g)
    <2>1. RustTypeOK'
      BY <1>6, ReportsTyped DEF MtuSettled, RustTypeOK, rustVars
    <2>2. QED BY <1>2, <1>3, <1>6, <2>1 DEF MtuSettled, KotlinTypeOK
  <1>7. CASE LinkUp(g) \/ LinkDown(g)
    BY <1>2, <1>3, <1>7
    DEF LinkUp, LinkDown, RustTypeOK, KotlinTypeOK, rustVars, kotlinVars
  <1>8. QED BY <1>4, <1>5, <1>6, <1>7 DEF CallbackSteps

LEMMA TypeStep == TypeOK /\ [Next]_vars => TypeOK'
  <1> SUFFICES ASSUME TypeOK, [Next]_vars PROVE TypeOK'
    OBVIOUS
  <1>1. CASE Begin
    <2>1. nextGeneration + 1 \in Gens
      BY <1>1, MaxGenAssumption DEF Begin, TypeOK, RustTypeOK, Gens
    <2>2. RustTypeOK'
      <3>1. nextGeneration' \in 0..MaxGen /\ attempt'.gen \in 0..MaxGen
        BY <1>1, <2>1 DEF Begin, NoAttempt, Gens
      <3>2. attempt' \in TableEntries
        BY <1>1, <3>1 DEF Begin, NoAttempt, TableEntries
      <3>3. QED BY <1>1, <3>1, <3>2 DEF Begin, TypeOK, RustTypeOK
    <2>3. CallTypeOK'
      BY <1>1, <2>1 DEF Begin, TypeOK, CallTypeOK
    <2>4. QED
      BY <1>1, <2>2, <2>3
      DEF Begin, TypeOK, KotlinTypeOK, RadioTypeOK, kotlinVars, radioVars
  <1>2. CASE UNCHANGED vars
    BY <1>2 DEF vars, rustVars, callVars, kotlinVars, radioVars, TypeOK,
                RustTypeOK, CallTypeOK, KotlinTypeOK, RadioTypeOK
  <1>3. QED
    BY <1>1, <1>2, ConnectTyped, OpenTyped, CallbackTyped, CloserTyped DEF Next

(***************************************************************************)
(* The inductive invariant, in four parts.                                 *)
(***************************************************************************)

\* Generations only grow: the table holds the newest one or none, Kotlin has
\* heard of none that was not begun, and holds none it has not heard of.
GensOrdered ==
  /\ attempt.gen \in {NoGen, nextGeneration}
  /\ current <= watermark
  /\ watermark <= nextGeneration
  /\ \A g \in Gens : connectPc[g] = "unborn" <=> g > nextGeneration
  /\ \A d \in Closers : closerGen[d] <= nextGeneration

\* Where the client of one attempt is, as a function of what Kotlin remembers
\* of it: the invariant behind ClientsAccountedFor and UpIsHeld.
ClientLife(g) ==
  /\ client[g] = "closed" <=> kotlin[g].released
  /\ closes[g] = IF kotlin[g].released THEN 1 ELSE 0
  /\ kotlin[g].gatt => client[g] # "none"
  /\ kotlin[g].released => kotlin[g].gatt
  /\ client[g] # "none" => opening[g] \in {"inFactory", "finished"}
  /\ client[g] = "open" => kotlin[g].gatt \/ opening[g] = "inFactory"
  /\ client[g] = "open" => current = g \/ opening[g] = "inFactory"
  /\ inbox[g] # <<>> => client[g] # "none"
  /\ opening[g] = "none" => ~kotlin[g].gatt /\ mtu[g] = "none"
  /\ connectPc[g] \in {"unborn", "begun"} => opening[g] = "none"
  /\ current = g => opening[g] # "none" /\ ~kotlin[g].released
  /\ (current = g /\ mtu[g] = "asking") => kotlin[g].gatt /\ kotlin[g].connected

\* What subscribers heard of an attempt, by its state in the table.
Heard(g) ==
  /\ g > nextGeneration => told[g] = <<>>
  /\ (attempt.gen = g /\ attempt.waiter) => told[g] = <<>>
  /\ Up(g) => told[g] = <<"up">>

\* A disconnect() call that has been woken, or whose guard has run, is closing
\* an attempt that is no longer in the table.
CloserKnows(d) ==
  /\ d \in woken /\ closerPc[d] # "idle" => attempt.gen # closerGen[d]
  /\ closerPc[d] = "forcing" => attempt.gen # closerGen[d]

\* The parts of the invariant that speak of Rust's variables only.
RustPart ==
  /\ attempt.gen \in {NoGen, nextGeneration}
  /\ \A g \in Gens : Heard(g)
  /\ ToldInOrder
  /\ LastEventIsTrue

\* The parts that relate the table to Kotlin and to the calls.
TablePart ==
  /\ GensOrdered
  /\ RustPart
  /\ UpIsHeld
  /\ \A d \in Closers : CloserKnows(d)

Inductive ==
  /\ TypeOK
  /\ \A g \in Gens : ClientLife(g)
  /\ TablePart

LEMMA UpThenDown == Append(<<"up">>, "down") = <<"up", "down">>
  <1> DEFINE s == Append(<<"up">>, "down")
  <1>1. <<"up">> \in Seq({"up", "down"}) /\ Len(<<"up">>) = 1
    OBVIOUS
  <1>2. s \in Seq({"up", "down"}) /\ Len(s) = 2 /\ s[1] = "up" /\ s[2] = "down"
    BY <1>1
  <1> HIDE DEF s
  <1>3. s = <<"up", "down">>
    BY <1>2
  <1>4. QED BY <1>3 DEF s

LEMMA ReportDownKeeps ==
  ASSUME RustTypeOK, RustPart, NEW g \in Gens, ReportDown(g)
  PROVE  /\ RustPart'
         /\ nextGeneration' = nextGeneration
         /\ attempt'.gen # g
         /\ UNCHANGED <<attempt, woken>> \/ attempt'.gen = NoGen
  <1>1. CASE attempt.gen # g
    <2>1. UNCHANGED <<nextGeneration, attempt, reply, woken, told, lastTold>>
      BY <1>1 DEF ReportDown, rustVars
    <2>2. QED
      BY <1>1, <2>1 DEF RustPart, Heard, ToldInOrder, LastEventIsTrue, Up
  <1>2. CASE attempt.gen = g
    <2>1. /\ attempt' = NoAttempt
          /\ told' = [told EXCEPT ![g] = Append(@, "down")]
          /\ lastTold' = <<"down", g>>
          /\ UNCHANGED nextGeneration
      BY <1>2 DEF ReportDown, Tell
    <2>2. attempt'.gen = NoGen
      BY <2>1 DEF NoAttempt
    <2>3. told'[g] \in {<<"down">>, <<"up", "down">>}
      <3>1. told[g] = IF attempt.waiter THEN <<>> ELSE <<"up">>
        BY <1>2 DEF RustPart, Heard, Up
      <3>2. told'[g] = Append(told[g], "down")
        BY <2>1 DEF RustTypeOK
      <3>3. CASE attempt.waiter
        BY <3>1, <3>2, <3>3
      <3>4. CASE ~attempt.waiter
        BY <3>1, <3>2, <3>4, UpThenDown
      <3>5. QED BY <3>3, <3>4
    <2>4. \A h \in Gens : h # g => told'[h] = told[h]
      BY <2>1 DEF RustTypeOK
    <2>5. ToldInOrder'
      BY <2>3, <2>4 DEF RustPart, ToldInOrder
    <2>6. \A h \in Gens : h # NoGen
      BY MaxGenAssumption DEF Gens, NoGen
    <2>7. LastEventIsTrue'
      BY <2>1, <2>2, <2>6 DEF LastEventIsTrue, Up
    <2>8. g = nextGeneration
      BY <1>2, <2>6 DEF RustPart
    <2>9. \A h \in Gens : Heard(h)'
      BY <2>1, <2>2, <2>4, <2>6, <2>8 DEF RustPart, Heard, Up, Gens
    <2>10. QED BY <2>1, <2>2, <2>5, <2>6, <2>7, <2>9 DEF RustPart
  <1>3. QED BY <1>1, <1>2

LEMMA ReportUpKeeps ==
  ASSUME RustTypeOK, RustPart, NEW g \in Gens, ReportUp(g)
  PROVE  /\ RustPart'
         /\ nextGeneration' = nextGeneration
         /\ woken' = woken
         /\ attempt'.gen = attempt.gen
         /\ \A h \in Gens : h # g => (Up(h)' <=> Up(h))
  <1>1. CASE UNCHANGED rustVars
    BY <1>1 DEF RustPart, Heard, ToldInOrder, LastEventIsTrue, Up, rustVars
  <1>2. CASE ~UNCHANGED rustVars
    <2>1. /\ attempt.gen = g /\ attempt.waiter
          /\ attempt' = [attempt EXCEPT !.waiter = FALSE]
          /\ told' = [told EXCEPT ![g] = Append(@, "up")]
          /\ lastTold' = <<"up", g>>
          /\ UNCHANGED <<nextGeneration, woken>>
      BY <1>2 DEF ReportUp, Tell
    <2>2. attempt'.gen = g /\ ~attempt'.waiter
      BY <2>1 DEF RustTypeOK, TableEntries
    <2>3. told'[g] = <<"up">>
      <3>1. told[g] = <<>>
        BY <2>1 DEF RustPart, Heard
      <3>2. told'[g] = Append(told[g], "up")
        BY <2>1 DEF RustTypeOK
      <3>3. QED BY <3>1, <3>2
    <2>4. \A h \in Gens : h # g => told'[h] = told[h]
      BY <2>1 DEF RustTypeOK
    <2>5. ToldInOrder'
      BY <2>3, <2>4 DEF RustPart, ToldInOrder
    <2>6. LastEventIsTrue'
      BY <2>1, <2>2 DEF LastEventIsTrue, Up
    <2>7. g = nextGeneration
      BY <2>1, MaxGenAssumption DEF RustPart, Gens, NoGen
    <2>8. \A h \in Gens : Heard(h)'
      BY <2>1, <2>2, <2>3, <2>4, <2>7 DEF RustPart, Heard, Up, Gens
    <2>9. QED BY <2>1, <2>2, <2>5, <2>6, <2>7, <2>8 DEF RustPart, Up
  <1>3. QED BY <1>1, <1>2

(***************************************************************************)
(* ClientLife is kept by every step.                                       *)
(***************************************************************************)

\* What release() does to attempt g, k being what Kotlin knows of it.
LEMMA ReleaseEffect ==
  ASSUME KotlinTypeOK, NEW g \in Gens, NEW k \in KotlinAttempts, ReleaseClient(g, k)
  PROVE  /\ \A h \in Gens : h # g => client'[h] = client[h] /\ closes'[h] = closes[h]
         /\ IF k.gatt /\ ~k.released
            THEN client'[g] = "closed" /\ closes'[g] = closes[g] + 1
            ELSE client'[g] = client[g] /\ closes'[g] = closes[g]
         /\ Release(k) \in KotlinAttempts
         /\ Release(k).gatt = k.gatt
         /\ Release(k).released = (k.released \/ k.gatt)
  <1>1. /\ Release(k) \in KotlinAttempts
        /\ Release(k).gatt = k.gatt
        /\ Release(k).released = (k.released \/ k.gatt)
    BY DEF Release, KotlinAttempts
  <1>2. /\ client' = [client EXCEPT ![g] = IF k.gatt /\ ~k.released THEN "closed" ELSE @]
        /\ closes' = [closes EXCEPT ![g] = IF k.gatt /\ ~k.released THEN @ + 1 ELSE @]
    BY DEF ReleaseClient, Closes
  <1>3. QED BY <1>1, <1>2 DEF KotlinTypeOK

\* An attempt that Kotlin no longer holds and has released, whether or not its
\* client had been published.
LEMMA ReleasedLife ==
  ASSUME KotlinTypeOK, NEW g \in Gens, NEW k \in KotlinAttempts,
         ClientLife(g),
         k.released = kotlin[g].released,
         kotlin[g].gatt => k.gatt,
         k.gatt => client[g] # "none",
         kotlin'[g] = Release(k), ReleaseClient(g, k),
         current' # g,
         \/ opening'[g] = opening[g]
         \/ k.gatt /\ opening'[g] = "finished",
         mtu'[g] = mtu[g],
         inbox'[g] # <<>> => client[g] # "none",
         connectPc'[g] \in {"unborn", "begun"} => connectPc[g] \in {"unborn", "begun"}
  PROVE  ClientLife(g)'
  <1>1. /\ kotlin'[g].gatt = k.gatt
        /\ kotlin'[g].released = (k.released \/ k.gatt)
        /\ IF k.gatt /\ ~k.released
           THEN client'[g] = "closed" /\ closes'[g] = closes[g] + 1
           ELSE client'[g] = client[g] /\ closes'[g] = closes[g]
    BY ReleaseEffect
  <1>2. /\ kotlin[g].gatt \in BOOLEAN /\ kotlin[g].released \in BOOLEAN
        /\ k.gatt \in BOOLEAN /\ k.released \in BOOLEAN
        /\ client[g] \in {"none", "open", "closed"}
        /\ closes[g] \in Nat
    BY DEF KotlinTypeOK, KotlinAttempts
  <1>3. QED BY <1>1, <1>2 DEF ClientLife

\* An attempt the step does not concern.
LEMMA OtherLife ==
  ASSUME NEW h \in Gens, ClientLife(h),
         kotlin'[h] = kotlin[h], client'[h] = client[h], closes'[h] = closes[h],
         opening'[h] = opening[h], mtu'[h] = mtu[h], inbox'[h] = inbox[h],
         current' = h <=> current = h,
         connectPc'[h] \in {"unborn", "begun"} => connectPc[h] \in {"unborn", "begun"}
  PROVE  ClientLife(h)'
  BY DEF ClientLife

LEMMA ForceCloseLife ==
  ASSUME KotlinTypeOK, NEW g \in Gens, \A h \in Gens : ClientLife(h),
         ForceClose(g), UNCHANGED inbox,
         \A h \in Gens : connectPc'[h] \in {"unborn", "begun"}
                           => connectPc[h] \in {"unborn", "begun"}
  PROVE  \A h \in Gens : ClientLife(h)'
  <1>1. CASE current # g
    BY <1>1, OtherLife DEF ForceClose
  <1>2. CASE current = g
    <2>1. kotlin[g] \in KotlinAttempts
      BY DEF KotlinTypeOK
    <2>2. /\ current' = NoGen
          /\ kotlin' = [kotlin EXCEPT ![g] = Release(kotlin[g])]
          /\ ReleaseClient(g, kotlin[g])
          /\ UNCHANGED <<opening, mtu>>
      BY <1>2 DEF ForceClose
    <2>3. /\ kotlin'[g] = Release(kotlin[g])
          /\ \A h \in Gens : h # g => kotlin'[h] = kotlin[h]
          /\ \A h \in Gens : h # NoGen
      BY <2>2, MaxGenAssumption DEF KotlinTypeOK, Gens, NoGen
    <2>4. ClientLife(g)'
      <3>1. kotlin[g].gatt => client[g] # "none"
        BY DEF ClientLife
      <3>2. inbox'[g] # <<>> => client[g] # "none"
        BY DEF ClientLife
      <3>3. QED BY <2>1, <2>2, <2>3, <3>1, <3>2, ReleasedLife
    <2>5. ASSUME NEW h \in Gens, h # g PROVE ClientLife(h)'
      <3>1. client'[h] = client[h] /\ closes'[h] = closes[h]
        BY <2>1, <2>2, <2>5, ReleaseEffect
      <3>2. current' = h <=> current = h
        BY <1>2, <2>2, <2>3, <2>5
      <3>3. QED BY <2>2, <2>3, <2>5, <3>1, <3>2, OtherLife
    <2>6. QED BY <2>4, <2>5
  <1>3. QED BY <1>1, <1>2

LEMMA ConnectLife ==
  ASSUME TypeOK, GensOrdered, NEW g \in Gens, \A h \in Gens : ClientLife(h),
         ConnectSteps(g)
  PROVE  \A h \in Gens : ClientLife(h)'
  <1>1. /\ KotlinTypeOK
        /\ UNCHANGED inbox
        /\ \A h \in Gens : connectPc'[h] \in {"unborn", "begun"}
                             => connectPc[h] \in {"unborn", "begun"}
    BY DEF TypeOK, CallTypeOK, ConnectSteps, ConnectCallFails, KotlinRefuses,
           KotlinConnects, KotlinReconnects, ConnectSucceeds, ConnectFails,
           ConnectDropped, ConnectGuardRetires, ConnectGuardForces, radioVars
  <1>2. CASE UNCHANGED kotlinVars
    BY <1>1, <1>2, OtherLife DEF kotlinVars
  <1>3. CASE ConnectGuardForces(g)
    BY <1>1, <1>3, ForceCloseLife DEF ConnectGuardForces
  <1>4. ASSUME KotlinConnects(g) \/ KotlinReconnects(g),
               kotlin'[g] = FreshAttempt,
               client'[g] = client[g], closes'[g] = closes[g]
        PROVE  ClientLife(g)'
    <2>1. opening[g] = "none" /\ client[g] \in {"none", "open", "closed"}
      BY <1>1, <1>4 DEF KotlinConnects, KotlinReconnects, ClientLife, KotlinTypeOK
    <2>2. /\ client[g] = "none" /\ closes[g] = 0 /\ mtu[g] = "none"
          /\ inbox[g] = <<>>
      BY <2>1 DEF ClientLife
    <2>3. /\ opening'[g] = "due" /\ mtu'[g] = mtu[g]
          /\ connectPc'[g] \in {"opening", "waiting"}
      BY <1>4 DEF KotlinConnects, KotlinReconnects, TypeOK, KotlinTypeOK, CallTypeOK
    <2>4. QED BY <1>1, <1>4, <2>1, <2>2, <2>3 DEF ClientLife, FreshAttempt
  <1>5. CASE KotlinConnects(g)
    <2>1. \A h \in Gens : h # g => /\ kotlin'[h] = kotlin[h]
                                   /\ opening'[h] = opening[h]
      BY <1>1, <1>5 DEF KotlinConnects, KotlinTypeOK
    <2>2. ClientLife(g)'
      BY <1>1, <1>4, <1>5 DEF KotlinConnects, KotlinTypeOK
    <2>3. ASSUME NEW h \in Gens, h # g PROVE ClientLife(h)'
      <3>1. current' = h <=> current = h
        BY <1>5, <2>3, MaxGenAssumption DEF KotlinConnects, Gens, NoGen
      <3>2. QED BY <1>1, <1>5, <2>1, <2>3, <3>1, OtherLife DEF KotlinConnects
    <2>4. QED BY <2>2, <2>3
  <1>6. CASE KotlinReconnects(g)
    <2>1. PICK c \in Gens : c = current
      BY <1>1, <1>6, MaxGenAssumption DEF KotlinReconnects, KotlinTypeOK, Gens, NoGen
    <2>2. c # g /\ current' = g /\ kotlin[c] \in KotlinAttempts
      BY <1>1, <1>6, <2>1 DEF KotlinReconnects, KotlinTypeOK, ClientLife
    <2>3. /\ kotlin'[g] = FreshAttempt
          /\ kotlin'[c] = Release(kotlin[c])
          /\ \A h \in Gens : h \notin {g, c} => kotlin'[h] = kotlin[h]
      BY <1>1, <1>6, <2>1, <2>2 DEF KotlinReconnects, KotlinTypeOK
    <2>4. /\ ReleaseClient(c, kotlin[c])
          /\ mtu' = mtu
          /\ \A h \in Gens : h # g => opening'[h] = opening[h]
      BY <1>1, <1>6, <2>1 DEF KotlinReconnects, KotlinTypeOK
    <2>5. \A h \in Gens : h # c => client'[h] = client[h] /\ closes'[h] = closes[h]
      BY <1>1, <2>2, <2>4, ReleaseEffect
    <2>6. ClientLife(g)'
      BY <1>4, <1>6, <2>2, <2>3, <2>5
    <2>7. ClientLife(c)'
      <3>1. /\ kotlin[c].gatt => client[c] # "none"
            /\ inbox'[c] # <<>> => client[c] # "none"
        BY <1>1 DEF ClientLife
      <3>2. opening'[c] = opening[c] /\ mtu'[c] = mtu[c] /\ current' # c
        BY <2>2, <2>4
      <3>3. QED BY <1>1, <2>2, <2>3, <2>4, <3>1, <3>2, ReleasedLife
    <2>8. ASSUME NEW h \in Gens, h \notin {g, c} PROVE ClientLife(h)'
      BY <1>1, <2>1, <2>2, <2>3, <2>4, <2>5, <2>8, OtherLife
    <2>9. QED BY <2>6, <2>7, <2>8
  <1>7. QED
    BY <1>2, <1>3, <1>5, <1>6
    DEF ConnectSteps, ConnectCallFails, KotlinRefuses, ConnectSucceeds,
        ConnectFails, ConnectDropped, ConnectGuardRetires

LEMMA OpenLife ==
  ASSUME TypeOK, NEW g \in Gens, \A h \in Gens : ClientLife(h), OpenSteps(g)
  PROVE  \A h \in Gens : ClientLife(h)'
  <1>1. KotlinTypeOK /\ ClientLife(g)
    BY DEF TypeOK
  <1>2. /\ mtu' = mtu /\ inbox' = inbox
        /\ \A h \in Gens : connectPc'[h] \in {"unborn", "begun"}
                             => connectPc[h] \in {"unborn", "begun"}
    BY DEF TypeOK, CallTypeOK, OpenSteps, OpenGattSkips, OpenGattStarts,
           FactoryCreates, OpenGattPublishes, OpenGattFails, OpenGattReturns,
           callVars, radioVars
  <1>3. CASE OpenGattPublishes(g)
    <2> DEFINE held == [kotlin[g] EXCEPT !.gatt = TRUE]
    <2>1. /\ held \in KotlinAttempts /\ held.gatt
          /\ held.released = kotlin[g].released
          /\ held.connected = kotlin[g].connected
      BY <1>1 DEF KotlinTypeOK, KotlinAttempts
    <2>2. /\ opening[g] = "inFactory" /\ client[g] # "none"
          /\ opening' = [opening EXCEPT ![g] = "finished"]
          /\ current' = current
          /\ IF current = g
             THEN kotlin' = [kotlin EXCEPT ![g] = held] /\ UNCHANGED <<client, closes>>
             ELSE kotlin' = [kotlin EXCEPT ![g] = Release(held)] /\ ReleaseClient(g, held)
      BY <1>3 DEF OpenGattPublishes
    <2> HIDE DEF held
    <2>3. \A h \in Gens : h # g => opening'[h] = opening[h] /\ kotlin'[h] = kotlin[h]
      BY <1>1, <2>2 DEF KotlinTypeOK
    <2>4. opening'[g] = "finished"
      BY <1>1, <2>2 DEF KotlinTypeOK
    <2>5. \A h \in Gens : h # g => client'[h] = client[h] /\ closes'[h] = closes[h]
      BY <1>1, <2>1, <2>2, ReleaseEffect
    <2>6. CASE current = g
      <3>1. kotlin'[g] = held /\ UNCHANGED <<client, closes>>
        BY <1>1, <2>2, <2>6 DEF KotlinTypeOK
      <3>2. QED
        BY <1>1, <1>2, <2>1, <2>2, <2>4, <2>6, <3>1, <2>3, <2>5, OtherLife DEF ClientLife
    <2>7. CASE current # g
      <3>1. kotlin'[g] = Release(held) /\ ReleaseClient(g, held)
        BY <1>1, <2>2, <2>7 DEF KotlinTypeOK
      <3>2. ClientLife(g)'
        BY <1>1, <1>2, <2>1, <2>2, <2>4, <2>7, <3>1, ReleasedLife
      <3>3. QED BY <1>2, <2>2, <2>3, <2>5, <3>2, OtherLife
    <2>8. QED BY <2>6, <2>7
  <1>4. CASE OpenGattFails(g)
    <2>1. /\ opening[g] = "inFactory" /\ client[g] = "none"
          /\ \A h \in Gens : h # g => opening'[h] = opening[h]
          /\ opening'[g] = "finished"
          /\ UNCHANGED <<kotlin, client, closes>>
      BY <1>1, <1>4 DEF OpenGattFails, KotlinTypeOK
    <2>2. \A h \in Gens : h # g => (current' = h <=> current = h)
      BY <1>4, MaxGenAssumption DEF OpenGattFails, Gens, NoGen
    <2>3. current' # g
      BY <1>4, MaxGenAssumption DEF OpenGattFails, Gens, NoGen
    <2>4. ClientLife(g)'
      BY <1>1, <1>2, <2>1, <2>3 DEF ClientLife
    <2>5. QED BY <1>2, <2>1, <2>2, <2>4, OtherLife
  <1>5. CASE OpenGattSkips(g) \/ OpenGattStarts(g) \/ FactoryCreates(g)
    <2>1. /\ UNCHANGED <<kotlin, closes, current>>
          /\ \A h \in Gens : h # g => opening'[h] = opening[h] /\ client'[h] = client[h]
      BY <1>1, <1>5 DEF OpenGattSkips, OpenGattStarts, FactoryCreates, KotlinTypeOK
    <2>2. \/ /\ opening[g] = "due" /\ client'[g] = client[g]
             /\ opening'[g] \in {"inFactory", "finished"}
          \/ /\ opening[g] = "inFactory" /\ opening'[g] = "inFactory"
             /\ client[g] = "none" /\ client'[g] = "open"
      BY <1>1, <1>5 DEF OpenGattSkips, OpenGattStarts, FactoryCreates, KotlinTypeOK
    <2>3. ClientLife(g)'
      BY <1>1, <1>2, <2>1, <2>2 DEF ClientLife
    <2>4. QED BY <1>2, <2>1, <2>3, OtherLife
  <1>6. QED BY <1>3, <1>4, <1>5 DEF OpenSteps

LEMMA CloserLife ==
  ASSUME TypeOK, NEW d \in Closers, \A h \in Gens : ClientLife(h), CloserSteps(d)
  PROVE  \A h \in Gens : ClientLife(h)'
  <1>1. /\ KotlinTypeOK
        /\ UNCHANGED <<connectPc, inbox>>
        /\ closerPc[d] # "idle" => closerGen[d] \in Gens
    BY DEF TypeOK, CallTypeOK, CloserSteps, MarkDisconnecting, DisconnectCallFails,
           KotlinDisconnects, KotlinDisconnectsUnknown, DisconnectWoken,
           DisconnectTimesOut, TimeoutForces, TimeoutSettles, DisconnectDropped,
           CloserGuardRetires, CloserGuardForces, radioVars
  <1>2. CASE UNCHANGED kotlinVars
    BY <1>1, <1>2, OtherLife DEF kotlinVars
  <1>3. CASE KotlinDisconnects(d)
    <2>1. PICK g \in Gens : g = current
      BY <1>1, <1>3 DEF KotlinDisconnects
    <2>2. /\ kotlin' = [kotlin EXCEPT ![g].disconnecting = TRUE]
          /\ UNCHANGED <<current, opening, mtu, client, closes>>
      BY <1>3, <2>1 DEF KotlinDisconnects
    <2>3. /\ \A h \in Gens : h # g => kotlin'[h] = kotlin[h]
          /\ kotlin'[g].gatt = kotlin[g].gatt
          /\ kotlin'[g].connected = kotlin[g].connected
          /\ kotlin'[g].released = kotlin[g].released
      BY <1>1, <2>2 DEF KotlinTypeOK, KotlinAttempts
    <2>4. ClientLife(g)'
      BY <1>1, <2>2, <2>3 DEF ClientLife
    <2>5. QED BY <1>1, <2>2, <2>3, <2>4, OtherLife
  <1>4. CASE KotlinDisconnectsUnknown(d) \/ TimeoutForces(d) \/ CloserGuardForces(d)
    BY <1>1, <1>4, ForceCloseLife
    DEF KotlinDisconnectsUnknown, TimeoutForces, CloserGuardForces
  <1>5. QED
    BY <1>2, <1>3, <1>4
    DEF CloserSteps, MarkDisconnecting, DisconnectCallFails, DisconnectWoken,
        DisconnectTimesOut, TimeoutSettles, DisconnectDropped, CloserGuardRetires

LEMMA CallbackLife ==
  ASSUME TypeOK, NEW g \in Gens, \A h \in Gens : ClientLife(h), CallbackSteps(g)
  PROVE  \A h \in Gens : ClientLife(h)'
  <1> DEFINE held == [kotlin[g] EXCEPT !.gatt = TRUE]
  <1>1. KotlinTypeOK /\ ClientLife(g)
    BY DEF TypeOK
  <1>2. /\ UNCHANGED <<connectPc, opening>>
        /\ \A h \in Gens : h # g => inbox'[h] = inbox[h]
        /\ inbox'[g] # <<>> => client[g] # "none"
    BY DEF TypeOK, RadioTypeOK, CallbackSteps, LinkUp, LinkDown, StaleStateCallback,
           DisconnectedCallback, ConnectedCallback, MtuSettled, ClientLife,
           callVars, kotlinVars, radioVars
  <1>3. /\ held \in KotlinAttempts /\ held.gatt
        /\ held.released = kotlin[g].released
        /\ held.connected = kotlin[g].connected
    BY <1>1 DEF KotlinTypeOK, KotlinAttempts
  <1>4. CASE StaleStateCallback(g) \/ DisconnectedCallback(g)
    <2>1. /\ inbox[g] # <<>>
          /\ kotlin' = [kotlin EXCEPT ![g] = Release(held)]
          /\ ReleaseClient(g, held)
          /\ mtu' = mtu
      BY <1>4 DEF StaleStateCallback, DisconnectedCallback
    <2>2. /\ current' # g
          /\ \A h \in Gens : h # g => (current' = h <=> current = h)
      BY <1>4, MaxGenAssumption
      DEF StaleStateCallback, DisconnectedCallback, Gens, NoGen
    <2> HIDE DEF held
    <2>3. /\ kotlin'[g] = Release(held)
          /\ \A h \in Gens : h # g => kotlin'[h] = kotlin[h]
      BY <1>1, <2>1 DEF KotlinTypeOK
    <2>4. client[g] # "none"
      BY <1>1, <2>1 DEF ClientLife
    <2>5. ClientLife(g)'
      BY <1>1, <1>2, <1>3, <2>1, <2>2, <2>3, <2>4, ReleasedLife
    <2>6. \A h \in Gens : h # g => client'[h] = client[h] /\ closes'[h] = closes[h]
      BY <1>1, <1>3, <2>1, ReleaseEffect
    <2>7. QED BY <1>2, <2>1, <2>2, <2>3, <2>5, <2>6, OtherLife
  <1>5. CASE ConnectedCallback(g)
    <2> DEFINE up == [held EXCEPT !.connected = TRUE]
    <2>1. up.gatt /\ up.connected /\ up.released = kotlin[g].released
      BY <1>3 DEF KotlinAttempts
    <2>2. /\ inbox[g] # <<>> /\ current = g
          /\ UNCHANGED <<current, client, closes>>
          /\ \/ kotlin' = [kotlin EXCEPT ![g] = held] /\ mtu' = mtu
             \/ /\ kotlin' = [kotlin EXCEPT ![g] = up]
                /\ mtu' = [mtu EXCEPT ![g] = "asking"]
      BY <1>5 DEF ConnectedCallback
    <2> HIDE DEF held, up
    <2>3. /\ \A h \in Gens : h # g => kotlin'[h] = kotlin[h] /\ mtu'[h] = mtu[h]
          /\ \/ kotlin'[g] = held /\ mtu'[g] = mtu[g]
             \/ kotlin'[g] = up
      BY <1>1, <2>2 DEF KotlinTypeOK
    <2>4. ClientLife(g)'
      BY <1>1, <1>2, <1>3, <2>1, <2>2, <2>3 DEF ClientLife
    <2>5. QED BY <1>2, <2>2, <2>3, <2>4, OtherLife
  <1>6. CASE MtuSettled(g)
    <2>1. /\ UNCHANGED <<current, kotlin, client, closes, inbox>>
          /\ mtu[g] = "asking" /\ mtu'[g] = "settled"
          /\ \A h \in Gens : h # g => mtu'[h] = mtu[h]
      BY <1>1, <1>6 DEF MtuSettled, KotlinTypeOK, radioVars
    <2>2. ClientLife(g)'
      BY <1>1, <1>2, <2>1 DEF ClientLife
    <2>3. QED BY <1>2, <2>1, <2>2, OtherLife
  <1>7. CASE LinkUp(g) \/ LinkDown(g)
    <2>1. UNCHANGED kotlinVars
      BY <1>7 DEF LinkUp, LinkDown
    <2>2. ClientLife(g)'
      BY <1>1, <1>2, <2>1 DEF ClientLife, kotlinVars
    <2>3. QED BY <1>2, <2>1, <2>2, OtherLife DEF kotlinVars
  <1>8. QED BY <1>4, <1>5, <1>6, <1>7 DEF CallbackSteps

(***************************************************************************)
(* TablePart is kept by every step.                                        *)
(***************************************************************************)

\* A disconnect() call the step does not move knows what it knew.
LEMMA OtherCloser ==
  ASSUME NEW d \in Closers, CloserKnows(d), CallTypeOK,
         closerPc'[d] # "idle" => closerPc[d] # "idle",
         closerPc'[d] = "forcing" => closerPc[d] = "forcing",
         closerGen'[d] = closerGen[d],
         \/ attempt'.gen = attempt.gen /\ woken' = woken
         \/ attempt'.gen = NoGen
  PROVE  CloserKnows(d)'
  <1>1. \A g \in Gens : g # NoGen
    BY MaxGenAssumption DEF Gens, NoGen
  <1>2. QED BY <1>1 DEF CloserKnows, CallTypeOK

\* A report of a disconnection, whoever makes it: callback, guard or timeout.
LEMMA ReportDownTable ==
  ASSUME RustTypeOK, CallTypeOK, TablePart, NEW g \in Gens, ReportDown(g),
         UNCHANGED <<closerGen, watermark>>,
         current' \in {current, NoGen}, watermark \in Nat,
         \A h \in Gens : connectPc'[h] = "unborn" <=> connectPc[h] = "unborn",
         \A h \in Gens : h # g /\ Held(h) => Held(h)'
  PROVE  GensOrdered' /\ RustPart' /\ UpIsHeld'
  <1>1. /\ RustPart' /\ nextGeneration' = nextGeneration /\ attempt'.gen # g
        /\ UNCHANGED <<attempt, woken>> \/ attempt'.gen = NoGen
    BY ReportDownKeeps DEF TablePart
  <1>2. GensOrdered'
    <2>1. current' <= watermark'
      BY DEF TablePart, GensOrdered, NoGen
    <2>2. QED BY <1>1, <2>1 DEF TablePart, GensOrdered
  <1>3. UpIsHeld'
    <2>1. ASSUME NEW h \in Gens, Up(h)' PROVE Held(h)'
      <3>1. h # NoGen
        BY MaxGenAssumption DEF Gens, NoGen
      <3>2. h # g /\ Up(h)
        BY <1>1, <2>1, <3>1 DEF Up
      <3>3. QED BY <3>2 DEF TablePart, UpIsHeld
    <2>2. QED BY <2>1 DEF UpIsHeld
  <1>4. QED BY <1>1, <1>2, <1>3

LEMMA ForceCloseTable ==
  ASSUME RustTypeOK, CallTypeOK, KotlinTypeOK, TablePart, NEW g \in Gens,
         g <= nextGeneration, ForceClose(g), UNCHANGED closerGen,
         \A h \in Gens : connectPc'[h] = "unborn" <=> connectPc[h] = "unborn"
  PROVE  /\ GensOrdered' /\ RustPart' /\ UpIsHeld'
         /\ \/ attempt'.gen = attempt.gen /\ woken' = woken
            \/ attempt'.gen = NoGen
  <1>1. /\ watermark \in Nat /\ current \in Nat /\ nextGeneration \in Nat /\ g \in Nat
        /\ watermark' = IF g > watermark THEN g ELSE watermark
    BY MaxGenAssumption DEF KotlinTypeOK, RustTypeOK, Gens, ForceClose
  <1>2. CASE current # g
    <2>1. UNCHANGED <<current, kotlin, client, nextGeneration, attempt, reply, woken, told, lastTold>>
      BY <1>2 DEF ForceClose, rustVars
    <2>2. GensOrdered'
      BY <1>1, <2>1 DEF TablePart, GensOrdered
    <2>3. RustPart' /\ UpIsHeld'
      BY <2>1 DEF TablePart, RustPart, Heard, ToldInOrder, LastEventIsTrue,
                  UpIsHeld, Up, Held
    <2>4. QED BY <2>1, <2>2, <2>3
  <1>3. CASE current = g
    <2>1. ReportDown(g) /\ current' = NoGen
      BY <1>3 DEF ForceClose
    <2>2. /\ RustPart' /\ nextGeneration' = nextGeneration /\ attempt'.gen # g
          /\ UNCHANGED <<attempt, woken>> \/ attempt'.gen = NoGen
      BY <2>1, ReportDownKeeps DEF TablePart
    <2>3. GensOrdered'
      BY <1>1, <2>1, <2>2 DEF TablePart, GensOrdered, NoGen
    <2>4. UpIsHeld'
      <3>1. ASSUME NEW h \in Gens, Up(h)' PROVE FALSE
        <4>1. h # NoGen
          BY MaxGenAssumption DEF Gens, NoGen
        <4>2. h # g /\ Up(h)
          BY <2>2, <3>1, <4>1 DEF Up
        <4>3. QED BY <1>3, <4>2 DEF TablePart, UpIsHeld, Held
      <3>2. QED BY <3>1 DEF UpIsHeld
    <2>5. QED BY <2>2, <2>3, <2>4
  <1>4. QED BY <1>2, <1>3

\* Steps that leave Rust's table alone.
LEMMA QuietTable ==
  ASSUME CallTypeOK, TablePart, UNCHANGED rustVars,
         UNCHANGED <<closerPc, closerGen>>,
         current' <= watermark', watermark' <= nextGeneration,
         \A h \in Gens : connectPc'[h] = "unborn" <=> connectPc[h] = "unborn",
         \A h \in Gens : Up(h) /\ Held(h) => Held(h)'
  PROVE  TablePart'
  <1>1. UNCHANGED <<nextGeneration, attempt, reply, woken, told, lastTold>>
    BY DEF rustVars
  <1>2. GensOrdered'
    BY <1>1 DEF TablePart, GensOrdered
  <1>3. RustPart'
    BY <1>1 DEF TablePart, RustPart, Heard, ToldInOrder, LastEventIsTrue, Up
  <1>4. UpIsHeld'
    BY <1>1 DEF TablePart, UpIsHeld, Up
  <1>5. \A d \in Closers : CloserKnows(d)'
    BY <1>1, OtherCloser DEF TablePart
  <1>6. QED BY <1>2, <1>3, <1>4, <1>5 DEF TablePart

LEMMA ConnectTable ==
  ASSUME Inductive, NEW g \in Gens, ConnectSteps(g)
  PROVE  TablePart'
  <1>1. /\ RustTypeOK /\ CallTypeOK /\ KotlinTypeOK /\ TablePart
        /\ \A h \in Gens : ClientLife(h)
    BY DEF Inductive, TypeOK
  <1>2. /\ \A h \in Gens : connectPc'[h] = "unborn" <=> connectPc[h] = "unborn"
        /\ connectPc[g] # "unborn"
        /\ UNCHANGED <<closerPc, closerGen>>
    BY <1>1
    DEF CallTypeOK, ConnectSteps, ConnectCallFails, KotlinRefuses,
        KotlinConnects, KotlinReconnects, ConnectSucceeds, ConnectFails,
        ConnectDropped, ConnectGuardRetires, ConnectGuardForces
  <1>3. /\ watermark \in Nat /\ current \in Nat /\ nextGeneration \in Nat /\ g \in Nat
        /\ current <= watermark /\ watermark <= nextGeneration
        /\ g <= nextGeneration
    BY <1>1, <1>2, MaxGenAssumption
    DEF KotlinTypeOK, RustTypeOK, Gens, TablePart, GensOrdered
  <1>4. CASE UNCHANGED <<rustVars, kotlinVars>>
    BY <1>1, <1>2, <1>3, <1>4, QuietTable DEF kotlinVars, Held
  <1>5. CASE KotlinConnects(g)
    <2>1. \A h \in Gens : ~Held(h)
      BY <1>5, MaxGenAssumption DEF KotlinConnects, Held, Gens, NoGen
    <2>2. current' <= watermark' /\ watermark' <= nextGeneration
      BY <1>3, <1>5 DEF KotlinConnects
    <2>3. QED BY <1>1, <1>2, <1>5, <2>1, <2>2, QuietTable DEF KotlinConnects
  <1>6. CASE KotlinReconnects(g)
    <2>1. current' <= watermark' /\ watermark' <= nextGeneration /\ g > watermark
      BY <1>3, <1>6 DEF KotlinReconnects
    <2>2. ASSUME NEW h \in Gens, Up(h), Held(h) PROVE FALSE
      <3>1. h = nextGeneration
        BY <2>2, MaxGenAssumption DEF Up, TablePart, GensOrdered, Inductive, Gens, NoGen
      <3>2. h <= watermark
        BY <1>3, <2>2 DEF Held
      <3>3. QED BY <1>3, <2>1, <3>1, <3>2
    <2>3. QED BY <1>1, <1>2, <1>6, <2>1, <2>2, QuietTable DEF KotlinReconnects
  <1>7. CASE ConnectGuardRetires(g)
    <2>1. /\ ReportDown(g)
          /\ UNCHANGED <<watermark, current, kotlin, client>>
      BY <1>7 DEF ConnectGuardRetires, kotlinVars
    <2>2. GensOrdered' /\ RustPart' /\ UpIsHeld'
      BY <1>1, <1>2, <1>3, <2>1, ReportDownTable DEF Held
    <2>3. \/ attempt'.gen = attempt.gen /\ woken' = woken
          \/ attempt'.gen = NoGen
      BY <1>1, <2>1, ReportDownKeeps DEF TablePart
    <2>4. QED BY <1>1, <1>2, <2>2, <2>3, OtherCloser DEF TablePart
  <1>8. CASE ConnectGuardForces(g)
    <2>1. ForceClose(g)
      BY <1>8 DEF ConnectGuardForces
    <2>2. /\ GensOrdered' /\ RustPart' /\ UpIsHeld'
          /\ \/ attempt'.gen = attempt.gen /\ woken' = woken
             \/ attempt'.gen = NoGen
      BY <1>1, <1>2, <1>3, <2>1, ForceCloseTable
    <2>3. QED BY <1>1, <1>2, <2>2, OtherCloser DEF TablePart
  <1>9. QED
    BY <1>4, <1>5, <1>6, <1>7, <1>8
    DEF ConnectSteps, ConnectCallFails, KotlinRefuses, ConnectSucceeds,
        ConnectFails, ConnectDropped

LEMMA OpenTable ==
  ASSUME Inductive, NEW g \in Gens, OpenSteps(g)
  PROVE  TablePart'
  <1>1. /\ RustTypeOK /\ CallTypeOK /\ KotlinTypeOK /\ TablePart
        /\ ClientLife(g)
    BY DEF Inductive, TypeOK
  <1>2. /\ \A h \in Gens : connectPc'[h] = "unborn" <=> connectPc[h] = "unborn"
        /\ UNCHANGED <<closerPc, closerGen, watermark>>
    BY <1>1
    DEF CallTypeOK, OpenSteps, OpenGattSkips, OpenGattStarts, FactoryCreates,
        OpenGattPublishes, OpenGattFails, OpenGattReturns, callVars
  <1>3. /\ watermark \in Nat /\ current \in Nat /\ nextGeneration \in Nat
        /\ current <= watermark /\ watermark <= nextGeneration
    BY <1>1, MaxGenAssumption DEF KotlinTypeOK, RustTypeOK, TablePart, GensOrdered
  <1>4. CASE OpenGattFails(g)
    <2>1. ReportDown(g) \/ UNCHANGED rustVars
      BY <1>4 DEF OpenGattFails
    <2>2. UNCHANGED <<kotlin, client>> /\ current' \in {current, NoGen}
      BY <1>4 DEF OpenGattFails
    <2>3. \A h \in Gens : Held(h) => Held(h)'
      <3>1. ~Held(g)
        BY <1>4 DEF OpenGattFails, Held
      <3>2. QED BY <1>4, <2>2, <3>1 DEF Held, OpenGattFails
    <2>4. CASE ReportDown(g)
      <3>1. GensOrdered' /\ RustPart' /\ UpIsHeld'
        BY <1>1, <1>2, <1>3, <2>2, <2>3, <2>4, ReportDownTable
      <3>2. \/ attempt'.gen = attempt.gen /\ woken' = woken
            \/ attempt'.gen = NoGen
        BY <1>1, <2>4, ReportDownKeeps DEF TablePart
      <3>3. QED BY <1>1, <1>2, <3>1, <3>2, OtherCloser DEF TablePart
    <2>5. CASE UNCHANGED rustVars
      <3>1. current' <= watermark'
        BY <1>2, <1>3, <2>2 DEF NoGen
      <3>2. QED BY <1>1, <1>2, <1>3, <2>3, <2>5, <3>1, QuietTable
    <2>6. QED BY <2>1, <2>4, <2>5
  <1>5. CASE OpenGattSkips(g) \/ OpenGattStarts(g) \/ FactoryCreates(g)
    <2>1. UNCHANGED <<rustVars, current, kotlin>>
      BY <1>5 DEF OpenGattSkips, OpenGattStarts, FactoryCreates
    <2>2. \A h \in Gens : client[h] = "open" => client'[h] = "open"
      BY <1>1, <1>5 DEF OpenGattSkips, OpenGattStarts, FactoryCreates, KotlinTypeOK
    <2>3. QED BY <1>1, <1>2, <1>3, <2>1, <2>2, QuietTable DEF Held
  <1>6. CASE OpenGattPublishes(g)
    <2>1. UNCHANGED <<rustVars, current>>
      BY <1>6 DEF OpenGattPublishes
    <2> DEFINE held == [kotlin[g] EXCEPT !.gatt = TRUE]
    <2>2. IF current = g
          THEN kotlin' = [kotlin EXCEPT ![g] = held] /\ UNCHANGED <<client, closes>>
          ELSE kotlin' = [kotlin EXCEPT ![g] = Release(held)] /\ ReleaseClient(g, held)
      BY <1>6 DEF OpenGattPublishes
    <2>3. /\ held \in KotlinAttempts /\ held.gatt
          /\ held.connected = kotlin[g].connected
          /\ held.released = kotlin[g].released
      BY <1>1 DEF KotlinTypeOK, KotlinAttempts
    <2> HIDE DEF held
    <2>4. \A h \in Gens : Held(h) => Held(h)'
      <3>1. CASE current = g
        BY <1>1, <2>1, <2>2, <2>3, <3>1 DEF Held, KotlinTypeOK
      <3>2. CASE current # g
        <4>1. \A h \in Gens : h # g => client'[h] = client[h] /\ kotlin'[h] = kotlin[h]
          BY <1>1, <2>2, <2>3, <3>2, ReleaseEffect DEF KotlinTypeOK
        <4>2. QED BY <2>1, <3>2, <4>1 DEF Held
      <3>3. QED BY <3>1, <3>2
    <2>5. QED BY <1>1, <1>2, <1>3, <2>1, <2>4, QuietTable
  <1>7. QED BY <1>4, <1>5, <1>6 DEF OpenSteps

LEMMA CloserTable ==
  ASSUME Inductive, NEW d \in Closers, CloserSteps(d)
  PROVE  TablePart'
  <1>1. /\ RustTypeOK /\ CallTypeOK /\ KotlinTypeOK /\ TablePart
        /\ \A e \in Closers : CloserKnows(e)
    BY DEF Inductive, TypeOK, TablePart
  <1>2. /\ connectPc' = connectPc
        /\ \A e \in Closers : e # d => closerPc'[e] = closerPc[e]
                                       /\ closerGen'[e] = closerGen[e]
    BY <1>1
    DEF CallTypeOK, CloserSteps, MarkDisconnecting, DisconnectCallFails,
        KotlinDisconnects, KotlinDisconnectsUnknown, DisconnectWoken,
        DisconnectTimesOut, TimeoutForces, TimeoutSettles, DisconnectDropped,
        CloserGuardRetires, CloserGuardForces, SetCloser
  <1>3. /\ watermark \in Nat /\ current \in Nat /\ nextGeneration \in Nat
        /\ current <= watermark /\ watermark <= nextGeneration
        /\ closerGen[d] <= nextGeneration
        /\ closerPc[d] # "idle" => closerGen[d] \in Gens
    BY <1>1, MaxGenAssumption
    DEF KotlinTypeOK, RustTypeOK, CallTypeOK, TablePart, GensOrdered
  <1>4. CASE MarkDisconnecting(d)
    <2>1. /\ attempt'.gen = attempt.gen /\ attempt'.waiter = attempt.waiter
          /\ attempt.gen # NoGen
          /\ woken' = woken \ {d}
          /\ UNCHANGED <<nextGeneration, told, lastTold, watermark, current, kotlin, client>>
      BY <1>1, <1>4 DEF MarkDisconnecting, RustTypeOK, TableEntries, kotlinVars
    <2>2. closerGen'[d] = attempt.gen /\ closerPc'[d] = "marked"
      BY <1>1, <1>4 DEF MarkDisconnecting, CallTypeOK, SetCloser
    <2>3. GensOrdered'
      <3>1. \A e \in Closers : closerGen'[e] <= nextGeneration
        BY <1>1, <1>2, <1>3, <2>1, <2>2 DEF TablePart, GensOrdered
      <3>2. QED BY <1>1, <1>2, <2>1, <3>1 DEF TablePart, GensOrdered
    <2>4. RustPart' /\ UpIsHeld'
      BY <1>1, <2>1 DEF TablePart, RustPart, Heard, ToldInOrder, LastEventIsTrue,
                        UpIsHeld, Up, Held
    <2>5. \A e \in Closers : CloserKnows(e)'
      BY <1>1, <1>2, <2>1, <2>2 DEF CloserKnows
    <2>6. QED BY <2>3, <2>4, <2>5 DEF TablePart
  <1>5. CASE KotlinDisconnectsUnknown(d) \/ TimeoutForces(d) \/ CloserGuardForces(d)
    <2>1. /\ closerGen[d] \in Gens /\ ForceClose(closerGen[d])
          /\ UNCHANGED closerGen
          /\ closerPc'[d] # "forcing" /\ closerPc[d] # "idle"
      BY <1>1, <1>3, <1>5
      DEF KotlinDisconnectsUnknown, TimeoutForces, CloserGuardForces, SetCloser,
          CallTypeOK
    <2>2. /\ GensOrdered' /\ RustPart' /\ UpIsHeld'
          /\ \/ attempt'.gen = attempt.gen /\ woken' = woken
             \/ attempt'.gen = NoGen
      BY <1>1, <1>2, <1>3, <2>1, ForceCloseTable
    <2>3. \A e \in Closers : CloserKnows(e)'
      BY <1>1, <1>2, <2>1, <2>2, OtherCloser
    <2>4. QED BY <2>2, <2>3 DEF TablePart
  <1>6. CASE TimeoutSettles(d) \/ CloserGuardRetires(d)
    <2>1. /\ closerGen[d] \in Gens /\ ReportDown(closerGen[d])
          /\ UNCHANGED <<closerGen, watermark, current, kotlin, client>>
          /\ closerPc[d] # "idle"
      BY <1>1, <1>3, <1>6
      DEF TimeoutSettles, CloserGuardRetires, SetCloser, CallTypeOK, kotlinVars
    <2>2. GensOrdered' /\ RustPart' /\ UpIsHeld'
      BY <1>1, <1>2, <1>3, <2>1, ReportDownTable DEF Held
    <2>3. /\ \/ attempt'.gen = attempt.gen /\ woken' = woken
             \/ attempt'.gen = NoGen
          /\ attempt'.gen # closerGen[d]
      BY <1>1, <2>1, ReportDownKeeps DEF TablePart
    <2>4. CloserKnows(d)'
      BY <2>1, <2>3 DEF CloserKnows
    <2>5. \A e \in Closers : e # d => CloserKnows(e)'
      BY <1>1, <1>2, <2>3, OtherCloser
    <2>6. QED BY <2>2, <2>4, <2>5 DEF TablePart
  <1>7. CASE UNCHANGED <<rustVars, closerGen, watermark, current, client>>
             /\ closerPc[d] # "idle" /\ closerPc'[d] # "forcing"
             /\ \A h \in Gens : Held(h) => Held(h)'
    <2>1. UNCHANGED <<nextGeneration, attempt, woken, told, lastTold>>
      BY <1>7 DEF rustVars
    <2>2. GensOrdered' /\ RustPart' /\ UpIsHeld'
      BY <1>1, <1>2, <1>7, <2>1
      DEF TablePart, GensOrdered, RustPart, Heard, ToldInOrder, LastEventIsTrue,
          UpIsHeld, Up
    <2>3. \A e \in Closers : CloserKnows(e)'
      BY <1>1, <1>2, <1>7, <2>1, OtherCloser
    <2>4. QED BY <2>2, <2>3 DEF TablePart
  <1>8. CASE KotlinDisconnects(d)
    <2>1. PICK g \in Gens : g = current
      BY <1>3, <1>8 DEF KotlinDisconnects
    <2>2. kotlin' = [kotlin EXCEPT ![g].disconnecting = TRUE]
      BY <1>8, <2>1 DEF KotlinDisconnects
    <2>3. /\ \A h \in Gens : h # g => kotlin'[h] = kotlin[h]
          /\ kotlin'[g].gatt = kotlin[g].gatt
          /\ kotlin'[g].connected = kotlin[g].connected
          /\ kotlin'[g].released = kotlin[g].released
      BY <1>1, <2>2 DEF KotlinTypeOK, KotlinAttempts
    <2>4. UNCHANGED <<rustVars, closerGen, watermark, current, client>>
      BY <1>8 DEF KotlinDisconnects
    <2>5. closerPc[d] # "idle" /\ closerPc'[d] # "forcing"
      BY <1>1, <1>8 DEF KotlinDisconnects, SetCloser, CallTypeOK
    <2>6. \A h \in Gens : Held(h) => Held(h)'
      BY <2>3, <2>4 DEF Held
    <2>7. QED BY <1>7, <2>4, <2>5, <2>6
  <1>9. CASE DisconnectCallFails(d) \/ DisconnectWoken(d) \/ DisconnectTimesOut(d)
             \/ DisconnectDropped(d)
    <2>1. /\ UNCHANGED <<rustVars, closerGen, watermark, current, kotlin, client>>
          /\ closerPc[d] # "idle" /\ closerPc'[d] # "forcing"
      BY <1>1, <1>9
      DEF DisconnectCallFails, DisconnectWoken, DisconnectTimesOut,
          DisconnectDropped, SetCloser, CallTypeOK, kotlinVars
    <2>2. QED BY <1>7, <2>1 DEF Held
  <1>10. QED BY <1>4, <1>5, <1>6, <1>8, <1>9 DEF CloserSteps

LEMMA CallbackTable ==
  ASSUME Inductive, NEW g \in Gens, CallbackSteps(g)
  PROVE  TablePart'
  <1> DEFINE held == [kotlin[g] EXCEPT !.gatt = TRUE]
  <1>1. /\ RustTypeOK /\ CallTypeOK /\ KotlinTypeOK /\ TablePart
        /\ \A h \in Gens : ClientLife(h)
    BY DEF Inductive, TypeOK
  <1>2. UNCHANGED <<connectPc, closerPc, closerGen, watermark>>
    BY DEF CallbackSteps, LinkUp, LinkDown, StaleStateCallback,
           DisconnectedCallback, ConnectedCallback, MtuSettled, callVars, kotlinVars
  <1>3. /\ watermark \in Nat /\ current \in Nat /\ nextGeneration \in Nat
        /\ current <= watermark /\ watermark <= nextGeneration
    BY <1>1, MaxGenAssumption DEF KotlinTypeOK, RustTypeOK, TablePart, GensOrdered
  <1>4. /\ held \in KotlinAttempts /\ held.gatt
        /\ held.released = kotlin[g].released
        /\ held.connected = kotlin[g].connected
    BY <1>1 DEF KotlinTypeOK, KotlinAttempts
  <1>5. CASE LinkUp(g) \/ LinkDown(g)
    <2>1. UNCHANGED <<rustVars, current, kotlin, client>>
      BY <1>5 DEF LinkUp, LinkDown, kotlinVars
    <2>2. QED BY <1>1, <1>2, <1>3, <2>1, QuietTable DEF Held
  <1>6. ASSUME kotlin' = [kotlin EXCEPT ![g] = Release(held)], ReleaseClient(g, held)
        PROVE  \A h \in Gens : h # g => kotlin'[h] = kotlin[h] /\ client'[h] = client[h]
    <2> HIDE DEF held
    <2>1. QED BY <1>1, <1>4, <1>6, ReleaseEffect DEF KotlinTypeOK
  <1>7. CASE StaleStateCallback(g)
    <2>1. /\ current # g
          /\ kotlin' = [kotlin EXCEPT ![g] = Release(held)]
          /\ ReleaseClient(g, held)
          /\ UNCHANGED <<rustVars, current>>
      BY <1>7 DEF StaleStateCallback
    <2> HIDE DEF held
    <2>2. \A h \in Gens : Held(h) => Held(h)'
      BY <1>6, <2>1 DEF Held
    <2>3. QED BY <1>1, <1>2, <1>3, <2>1, <2>2, QuietTable
  <1>8. CASE DisconnectedCallback(g)
    <2>1. /\ current = g /\ current' = NoGen
          /\ ReportDown(g)
          /\ kotlin' = [kotlin EXCEPT ![g] = Release(held)]
          /\ ReleaseClient(g, held)
      BY <1>8 DEF DisconnectedCallback
    <2> HIDE DEF held
    <2>2. \A h \in Gens : h # g => ~Held(h)
      BY <2>1 DEF Held
    <2>3. GensOrdered' /\ RustPart' /\ UpIsHeld'
      BY <1>1, <1>2, <1>3, <2>1, <2>2, ReportDownTable
    <2>4. \/ attempt'.gen = attempt.gen /\ woken' = woken
          \/ attempt'.gen = NoGen
      BY <1>1, <2>1, ReportDownKeeps DEF TablePart
    <2>5. QED BY <1>1, <1>2, <2>3, <2>4, OtherCloser DEF TablePart
  <1>9. CASE ConnectedCallback(g)
    <2> DEFINE up == [held EXCEPT !.connected = TRUE]
    <2>1. up.gatt /\ up.connected /\ up.released = kotlin[g].released
      BY <1>4 DEF KotlinAttempts
    <2>2. /\ UNCHANGED <<rustVars, current, client>>
          /\ \/ kotlin' = [kotlin EXCEPT ![g] = held]
             \/ kotlin' = [kotlin EXCEPT ![g] = up]
      BY <1>9 DEF ConnectedCallback
    <2> HIDE DEF held, up
    <2>3. /\ \A h \in Gens : h # g => kotlin'[h] = kotlin[h]
          /\ kotlin'[g] = held \/ kotlin'[g] = up
      BY <1>1, <2>2 DEF KotlinTypeOK
    <2>4. \A h \in Gens : Held(h) => Held(h)'
      BY <1>4, <2>1, <2>2, <2>3 DEF Held
    <2>5. QED BY <1>1, <1>2, <1>3, <2>2, <2>4, QuietTable
  <1>10. CASE MtuSettled(g)
    <2>1. UNCHANGED <<current, kotlin, client>>
      BY <1>10 DEF MtuSettled
    <2>2. CASE UNCHANGED rustVars
      BY <1>1, <1>2, <1>3, <2>1, <2>2, QuietTable DEF Held
    <2>3. CASE ReportUp(g) /\ current = g
      <3>1. /\ RustPart' /\ nextGeneration' = nextGeneration
            /\ woken' = woken /\ attempt'.gen = attempt.gen
            /\ \A h \in Gens : h # g => (Up(h)' <=> Up(h))
        BY <1>1, <2>3, ReportUpKeeps DEF TablePart
      <3>2. Held(g)
        <4>1. kotlin[g].gatt /\ kotlin[g].connected /\ ~kotlin[g].released
          BY <1>1, <1>10, <2>3 DEF MtuSettled, ClientLife
        <4>2. client[g] \in {"none", "open", "closed"}
          BY <1>1 DEF KotlinTypeOK
        <4>3. QED BY <1>1, <2>3, <4>1, <4>2 DEF ClientLife, Held
      <3>3. \A h \in Gens : Held(h) => Held(h)'
        BY <2>1 DEF Held
      <3>4. UpIsHeld'
        BY <1>1, <3>1, <3>2, <3>3 DEF TablePart, UpIsHeld
      <3>5. GensOrdered'
        BY <1>1, <1>2, <2>1, <3>1 DEF TablePart, GensOrdered
      <3>6. QED BY <1>1, <1>2, <3>1, <3>4, <3>5, OtherCloser DEF TablePart
    <2>4. QED BY <1>10, <2>2, <2>3 DEF MtuSettled
  <1>11. QED BY <1>5, <1>7, <1>8, <1>9, <1>10 DEF CallbackSteps

\* A new attempt: the generation is new to both sides.
LEMMA BeginKeeps ==
  ASSUME Inductive, Begin
  PROVE  TablePart' /\ \A h \in Gens : ClientLife(h)'
  <1> DEFINE g == nextGeneration + 1
  <1>1. /\ RustTypeOK /\ CallTypeOK /\ KotlinTypeOK /\ TablePart
        /\ g \in Gens /\ nextGeneration \in Nat
    BY MaxGenAssumption DEF Inductive, TypeOK, Begin, RustTypeOK, Gens
  <1>2. /\ nextGeneration' = g
        /\ attempt'.gen = g /\ attempt'.waiter
        /\ ~attempt.waiter
        /\ connectPc' = [connectPc EXCEPT ![g] = "begun"]
        /\ UNCHANGED <<woken, told, lastTold, closerPc, closerGen, kotlinVars, inbox>>
    BY DEF Begin, NoAttempt, radioVars
  <1> HIDE DEF g
  <1>3. connectPc[g] = "unborn"
    BY <1>1 DEF TablePart, GensOrdered, g
  <1>4. \A h \in Gens : ClientLife(h)'
    <2>1. \A h \in Gens : connectPc'[h] \in {"unborn", "begun"}
                          => connectPc[h] \in {"unborn", "begun"}
      BY <1>1, <1>2, <1>3 DEF CallTypeOK
    <2>2. QED BY <1>2, <2>1, OtherLife DEF Inductive, kotlinVars
  <1>5. GensOrdered'
    <2>1. \A h \in Gens : connectPc'[h] = "unborn" <=> h > nextGeneration'
      BY <1>1, <1>2 DEF TablePart, GensOrdered, CallTypeOK, Gens, g
    <2>2. \A d \in Closers : closerGen[d] \in Nat /\ closerGen[d] <= nextGeneration
      BY <1>1, MaxGenAssumption DEF TablePart, GensOrdered, CallTypeOK
    <2>3. watermark \in Nat /\ watermark <= nextGeneration
      BY <1>1, MaxGenAssumption DEF TablePart, GensOrdered, KotlinTypeOK
    <2>4. QED BY <1>1, <1>2, <2>1, <2>2, <2>3 DEF TablePart, GensOrdered, kotlinVars, g
  <1>6. \A h \in Gens : Heard(h)'
    BY <1>1, <1>2 DEF TablePart, RustPart, Heard, Up, Gens, g
  <1>7. LastEventIsTrue'
    <2>1. \A h \in Gens : ~Up(h)'
      BY <1>2, <1>1 DEF Up
    <2>2. ASSUME NEW h \in Gens, lastTold' = <<"up", h>>
          PROVE  attempt'.gen > h
      <3>1. attempt.gen = h
        BY <1>2, <2>2, <1>1 DEF TablePart, RustPart, LastEventIsTrue
      <3>2. attempt.gen \in Nat /\ attempt.gen <= nextGeneration
        BY <1>1, MaxGenAssumption DEF TablePart, RustPart, NoGen
      <3>3. QED BY <1>1, <1>2, <3>1, <3>2 DEF g
    <2>3. QED BY <1>2, <2>1, <2>2 DEF LastEventIsTrue
  <1>8. RustPart'
    BY <1>1, <1>2, <1>6, <1>7 DEF TablePart, RustPart, ToldInOrder
  <1>9. UpIsHeld'
    BY <1>1, <1>2 DEF UpIsHeld, Up
  <1>10. \A d \in Closers : CloserKnows(d)'
    <2>1. \A d \in Closers : closerGen[d] \in Nat /\ closerGen[d] <= nextGeneration
      BY <1>1, MaxGenAssumption DEF TablePart, GensOrdered, CallTypeOK
    <2>2. QED BY <1>1, <1>2, <2>1 DEF CloserKnows, g
  <1>11. QED BY <1>4, <1>5, <1>8, <1>9, <1>10 DEF TablePart

(***************************************************************************)
(* The invariant, and what follows from it.                                *)
(***************************************************************************)

LEMMA InitInductive == Init => Inductive
  <1> SUFFICES ASSUME Init PROVE Inductive
    OBVIOUS
  <1> USE DEF Init
  <1>1. TypeOK
    BY MaxGenAssumption
    DEF TypeOK, RustTypeOK, CallTypeOK, KotlinTypeOK, RadioTypeOK, TableEntries,
        KotlinAttempts, NoAttempt, FreshAttempt, NoGen, Gens
  <1>2. \A g \in Gens : ClientLife(g)
    BY MaxGenAssumption DEF ClientLife, FreshAttempt, Gens, NoGen
  <1>3. \A g \in Gens : ~Up(g) /\ g > 0 /\ g # NoGen
    BY MaxGenAssumption DEF Up, NoAttempt, NoGen, Gens
  <1>4. RustPart
    BY <1>3 DEF RustPart, Heard, ToldInOrder, LastEventIsTrue, NoAttempt, NoGen
  <1>5. GensOrdered
    BY <1>3 DEF GensOrdered, NoAttempt, NoGen
  <1>6. QED
    BY <1>1, <1>2, <1>3, <1>4, <1>5 DEF Inductive, TablePart, UpIsHeld, CloserKnows

LEMMA StepInductive == Inductive /\ [Next]_vars => Inductive'
  <1> SUFFICES ASSUME Inductive, [Next]_vars PROVE Inductive'
    OBVIOUS
  <1>1. TypeOK /\ GensOrdered /\ \A h \in Gens : ClientLife(h)
    BY DEF Inductive, TablePart
  <1>2. TypeOK'
    BY <1>1, TypeStep
  <1>3. CASE Begin
    BY <1>2, <1>3, BeginKeeps DEF Inductive
  <1>4. ASSUME NEW g \in Gens, ConnectSteps(g) PROVE Inductive'
    BY <1>1, <1>2, <1>4, ConnectLife, ConnectTable DEF Inductive
  <1>5. ASSUME NEW g \in Gens, OpenSteps(g) PROVE Inductive'
    BY <1>1, <1>2, <1>5, OpenLife, OpenTable DEF Inductive
  <1>6. ASSUME NEW g \in Gens, CallbackSteps(g) PROVE Inductive'
    BY <1>1, <1>2, <1>6, CallbackLife, CallbackTable DEF Inductive
  <1>7. ASSUME NEW d \in Closers, CloserSteps(d) PROVE Inductive'
    BY <1>1, <1>2, <1>7, CloserLife, CloserTable DEF Inductive
  <1>8. CASE UNCHANGED vars
    <2>1. UNCHANGED <<rustVars, callVars, kotlinVars, radioVars>>
      BY <1>8 DEF vars
    <2>2. \A h \in Gens : ClientLife(h)'
      BY <1>1, <2>1, OtherLife DEF callVars, kotlinVars, radioVars
    <2>3. TablePart'
      BY <1>1, <2>1, QuietTable
      DEF Inductive, TypeOK, TablePart, GensOrdered, callVars, kotlinVars, Held
    <2>4. QED BY <1>2, <2>2, <2>3 DEF Inductive
  <1>9. QED BY <1>3, <1>4, <1>5, <1>6, <1>7, <1>8 DEF Next

LEMMA AlwaysInductive == Spec => []Inductive
  BY InitInductive, StepInductive, PTL DEF Spec

\* Every reachable state is well typed: in particular no call, callback or
\* timeout ever addresses a generation outside the ones begun.
THEOREM TypeCorrect == Spec => []TypeOK
  BY AlwaysInductive, PTL DEF Inductive

\* A connection the application was told of is one Kotlin really holds open.
THEOREM UpAlwaysHeld == Spec => []UpIsHeld
  <1>1. Inductive => UpIsHeld
    BY DEF Inductive, TablePart
  <1>2. QED BY <1>1, AlwaysInductive, PTL

\* No client is closed twice, and none is lost track of while it is open.
THEOREM ClientsAlwaysAccountedFor == Spec => []ClientsAccountedFor
  <1>1. Inductive => ClientsAccountedFor
    <2> SUFFICES ASSUME Inductive, NEW g \in Gens
                 PROVE  /\ closes[g] <= 1
                        /\ client[g] = "closed" <=> closes[g] = 1
                        /\ client[g] = "open" => current = g \/ opening[g] = "inFactory"
      BY DEF ClientsAccountedFor
    <2>1. ClientLife(g) /\ kotlin[g].released \in BOOLEAN
      BY DEF Inductive, TypeOK, KotlinTypeOK, KotlinAttempts
    <2>2. QED BY <2>1 DEF ClientLife
  <1>2. QED BY <1>1, AlwaysInductive, PTL

\* Every attempt is heard of at most as "up" and then "down".
THEOREM AlwaysToldInOrder == Spec => []ToldInOrder
  <1>1. Inductive => ToldInOrder
    BY DEF Inductive, TablePart, RustPart
  <1>2. QED BY <1>1, AlwaysInductive, PTL

\* The last event broadcast is what the table says.
THEOREM LastEventAlwaysTrue == Spec => []LastEventIsTrue
  <1>1. Inductive => LastEventIsTrue
    BY DEF Inductive, TablePart, RustPart
  <1>2. QED BY <1>1, AlwaysInductive, PTL

\* connect() is never resolved on behalf of another attempt.
THEOREM OkAlwaysMeansHeld == Spec => OkMeansHeld
  <1>1. ASSUME Inductive, [Next]_vars, NEW g \in Gens,
               reply[g] # "ok", reply'[g] = "ok"
        PROVE  /\ current = g /\ kotlin[g].connected
               /\ attempt.gen = g /\ ~attempt.disconnecting
    <2>1. reply \in [Gens -> {"none", "ok", "err"}] /\ KotlinTypeOK /\ CallTypeOK
      BY <1>1 DEF Inductive, TypeOK, RustTypeOK
    <2>2. \A h \in Gens : ReportDown(h) => reply'[g] # "ok"
      BY <1>1, <2>1 DEF ReportDown, rustVars
    <2>3. \A d \in Closers : closerPc[d] # "idle" => closerGen[d] \in Gens
      BY <2>1 DEF CallTypeOK
    <2>4. \A h \in Gens : ForceClose(h) => reply'[g] # "ok"
      BY <1>1, <2>2 DEF ForceClose, rustVars
    <2>5. PICK h \in Gens : MtuSettled(h) /\ current = h /\ ReportUp(h)
      <3>1. reply' # reply
        BY <1>1
      <3>2. ~Begin /\ ~UNCHANGED vars
        BY <3>1 DEF Begin, vars, rustVars
      <3>3. \A h \in Gens : ~ConnectSteps(h)
        BY <1>1, <2>2, <2>4, <3>1
        DEF ConnectSteps, ConnectCallFails, KotlinRefuses, KotlinConnects,
            KotlinReconnects, ConnectSucceeds, ConnectFails, ConnectDropped,
            ConnectGuardRetires, ConnectGuardForces, rustVars
      <3>4. \A h \in Gens : ~OpenSteps(h)
        BY <1>1, <2>2, <3>1
        DEF OpenSteps, OpenGattSkips, OpenGattStarts, FactoryCreates,
            OpenGattPublishes, OpenGattFails, rustVars
      <3>5. \A d \in Closers : ~CloserSteps(d)
        BY <1>1, <2>2, <2>3, <2>4, <3>1
        DEF CloserSteps, MarkDisconnecting, DisconnectCallFails,
            KotlinDisconnects, KotlinDisconnectsUnknown, DisconnectWoken,
            DisconnectTimesOut, TimeoutForces, TimeoutSettles,
            DisconnectDropped, CloserGuardRetires, CloserGuardForces, rustVars
      <3>6. PICK h \in Gens : CallbackSteps(h)
        BY <1>1, <3>2, <3>3, <3>4, <3>5 DEF Next
      <3>7. MtuSettled(h)
        BY <1>1, <2>2, <3>1, <3>6
        DEF CallbackSteps, LinkUp, LinkDown, StaleStateCallback,
            DisconnectedCallback, ConnectedCallback, rustVars
      <3>8. QED BY <3>1, <3>7 DEF MtuSettled, rustVars
    <2>6. h = g /\ attempt.gen = h /\ ~attempt.disconnecting
      BY <1>1, <2>1, <2>5 DEF ReportUp, rustVars
    <2>7. kotlin[h].connected
      <3>1. ClientLife(h)
        BY <1>1 DEF Inductive
      <3>2. QED BY <2>5, <3>1 DEF MtuSettled, ClientLife
    <2>8. QED BY <2>5, <2>6, <2>7
  <1>2. Inductive /\ [Next]_vars =>
          [\A g \in Gens : (reply[g] # "ok" /\ reply'[g] = "ok") =>
             /\ current = g /\ kotlin[g].connected
             /\ attempt.gen = g /\ ~attempt.disconnecting]_vars
    BY <1>1
  <1>3. QED BY <1>2, AlwaysInductive, PTL DEF Spec, OkMeansHeld

\* disconnect() returns only once its attempt is out of the table.
THEOREM DisconnectAlwaysRetires == Spec => DisconnectReturnsRetired
  <1>1. ASSUME Inductive, [Next]_vars, NEW d \in Closers,
               closerPc[d] # "idle", closerPc'[d] = "idle"
        PROVE  attempt'.gen # closerGen[d]
    <2>1. /\ CallTypeOK /\ RustTypeOK /\ RustPart /\ CloserKnows(d)
          /\ closerGen[d] \in Gens
      BY <1>1 DEF Inductive, TablePart, TypeOK, CallTypeOK
    <2>2. closerPc' # closerPc
      BY <1>1
    <2>3. CloserSteps(d)
      <3>1. ~Begin /\ ~UNCHANGED vars
        BY <2>2 DEF Begin, vars, callVars
      <3>2. \A h \in Gens : ~ConnectSteps(h)
        BY <2>2
        DEF ConnectSteps, ConnectCallFails, KotlinRefuses, KotlinConnects,
            KotlinReconnects, ConnectSucceeds, ConnectFails, ConnectDropped,
            ConnectGuardRetires, ConnectGuardForces
      <3>3. \A h \in Gens : ~OpenSteps(h)
        BY <2>2
        DEF OpenSteps, OpenGattSkips, OpenGattStarts, FactoryCreates,
            OpenGattPublishes, OpenGattFails, callVars
      <3>4. \A h \in Gens : ~CallbackSteps(h)
        BY <2>2
        DEF CallbackSteps, LinkUp, LinkDown, StaleStateCallback,
            DisconnectedCallback, ConnectedCallback, MtuSettled, callVars
      <3>5. \A e \in Closers : e # d => ~CloserSteps(e)
        BY <1>1, <2>1
        DEF CallTypeOK, CloserSteps, MarkDisconnecting, DisconnectCallFails,
            KotlinDisconnects, KotlinDisconnectsUnknown, DisconnectWoken,
            DisconnectTimesOut, TimeoutForces, TimeoutSettles,
            DisconnectDropped, CloserGuardRetires, CloserGuardForces, SetCloser
      <3>6. QED BY <1>1, <3>1, <3>2, <3>3, <3>4, <3>5 DEF Next
    <2>4. DisconnectWoken(d) \/ TimeoutSettles(d) \/ CloserGuardForces(d)
      BY <1>1, <2>1, <2>3
      DEF CallTypeOK, CloserSteps, MarkDisconnecting, DisconnectCallFails,
          KotlinDisconnects, KotlinDisconnectsUnknown, DisconnectTimesOut,
          TimeoutForces, DisconnectDropped, CloserGuardRetires, SetCloser
    <2>5. CASE DisconnectWoken(d)
      <3>1. attempt' = attempt /\ d \in woken
        BY <2>5 DEF DisconnectWoken, rustVars
      <3>2. QED BY <1>1, <2>1, <3>1 DEF CloserKnows
    <2>6. CASE TimeoutSettles(d)
      BY <2>1, <2>6, ReportDownKeeps DEF TimeoutSettles
    <2>7. CASE CloserGuardForces(d)
      <3>1. attempt.gen # closerGen[d]
        BY <2>1, <2>7 DEF CloserGuardForces, CloserKnows
      <3>2. attempt' = attempt
        BY <2>7, <3>1 DEF CloserGuardForces, ForceClose, ReportDown, rustVars
      <3>3. QED BY <3>1, <3>2
    <2>8. QED BY <2>4, <2>5, <2>6, <2>7
  <1>2. Inductive /\ [Next]_vars =>
          [\A d \in Closers : (closerPc[d] # "idle" /\ closerPc'[d] = "idle") =>
             attempt'.gen # closerGen[d]]_vars
    BY <1>1
  <1>3. QED BY <1>2, AlwaysInductive, PTL DEF Spec, DisconnectReturnsRetired

(***************************************************************************)
(* Attempts Rust has let go of.                                            *)
(***************************************************************************)

\* The JNI connect() of a retired attempt that is still to come either is
\* refused by the watermark or will be followed by a force-close; the timeout
\* of disconnect() has already closed what it is about to retire.
LateConnect(g) ==
  (connectPc[g] = "begun" /\ attempt.gen # g) => watermark >= g \/ WillBeClosed(g)

Orphanless(g) ==
  (current = g /\ watermark = g /\ attempt.gen # g) => WillBeClosed(g)

Foreclosed ==
  /\ \A g \in Gens : LateConnect(g) /\ Orphanless(g)
  /\ \A d \in Closers : closerPc[d] = "settling"
                         => watermark >= closerGen[d] /\ current # closerGen[d]

LEMMA ForeclosedInit == Init => Foreclosed
  BY MaxGenAssumption DEF Init, Foreclosed, LateConnect, Orphanless, Gens, NoGen

\* The watermark only rises, and only Kotlin's connect() makes an attempt held.
LEMMA WatermarkRises ==
  ASSUME Inductive, [Next]_vars
  PROVE  /\ watermark' >= watermark
         /\ \/ current' \in {current, NoGen}
            \/ \E g \in Gens : KotlinConnects(g) \/ KotlinReconnects(g)
  <1>1. /\ watermark \in Nat /\ \A h \in Gens : h \in Nat
        /\ \A d \in Closers : closerPc[d] # "idle" => closerGen[d] \in Gens
    BY MaxGenAssumption
    DEF Inductive, TypeOK, KotlinTypeOK, CallTypeOK, Gens
  <1>2. \A h \in Gens : ForceClose(h) => watermark' >= watermark /\ current' \in {current, NoGen}
    BY <1>1 DEF ForceClose
  <1>3. ASSUME NEW g \in Gens, ConnectSteps(g)
        PROVE  /\ watermark' >= watermark
               /\ \/ current' \in {current, NoGen}
                  \/ KotlinConnects(g) \/ KotlinReconnects(g)
    <2>1. CASE ConnectGuardForces(g)
      BY <1>2, <2>1 DEF ConnectGuardForces
    <2>2. CASE KotlinConnects(g) \/ KotlinReconnects(g)
      BY <1>1, <2>2 DEF KotlinConnects, KotlinReconnects
    <2>3. CASE UNCHANGED <<watermark, current>>
      BY <1>1, <2>3
    <2>4. QED
      BY <1>3, <2>1, <2>2, <2>3
      DEF ConnectSteps, ConnectCallFails, KotlinRefuses, ConnectSucceeds,
          ConnectFails, ConnectDropped, ConnectGuardRetires, kotlinVars
  <1>4. ASSUME NEW g \in Gens, OpenSteps(g) \/ CallbackSteps(g)
        PROVE  watermark' >= watermark /\ current' \in {current, NoGen}
    BY <1>1, <1>4
    DEF OpenSteps, OpenGattSkips, OpenGattStarts, FactoryCreates,
        OpenGattPublishes, OpenGattFails, CallbackSteps, LinkUp, LinkDown,
        StaleStateCallback, DisconnectedCallback, ConnectedCallback, MtuSettled,
        kotlinVars
  <1>5. ASSUME NEW d \in Closers, CloserSteps(d)
        PROVE  watermark' >= watermark /\ current' \in {current, NoGen}
    <2>1. CASE KotlinDisconnectsUnknown(d) \/ TimeoutForces(d) \/ CloserGuardForces(d)
      BY <1>1, <1>2, <2>1 DEF KotlinDisconnectsUnknown, TimeoutForces, CloserGuardForces
    <2>2. QED
      BY <1>1, <1>5, <2>1
      DEF CloserSteps, MarkDisconnecting, DisconnectCallFails, KotlinDisconnects,
          DisconnectWoken, DisconnectTimesOut, TimeoutSettles, DisconnectDropped,
          CloserGuardRetires, kotlinVars
  <1>6. CASE Begin \/ UNCHANGED vars
    BY <1>1, <1>6 DEF Begin, vars, kotlinVars
  <1>7. QED
    BY <1>3, <1>4, <1>5, <1>6 DEF Next

\* An attempt stays covered by a step that neither connects it nor begins it:
\* what retires it, or ends a call that would close it, leaves it closed.
LEMMA StaysForeclosed ==
  ASSUME NEW h \in Gens, LateConnect(h), Orphanless(h),
         watermark \in Nat, watermark' \in Nat, current <= watermark,
         watermark' >= watermark,
         connectPc'[h] = "begun" => connectPc[h] = "begun",
         current' = h => current = h,
         attempt'.gen # h =>
           \/ attempt.gen # h
           \/ WillBeClosed(h)'
           \/ current' # h /\ (connectPc'[h] # "begun" \/ watermark' >= h),
         WillBeClosed(h) =>
           \/ WillBeClosed(h)'
           \/ watermark' > h
           \/ watermark' >= h /\ current' # h
  PROVE  LateConnect(h)' /\ Orphanless(h)'
  <1>1. h \in Nat
    BY DEF Gens
  <1>2. LateConnect(h)'
    BY <1>1 DEF LateConnect
  <1>3. Orphanless(h)'
    BY <1>1 DEF Orphanless
  <1>4. QED BY <1>2, <1>3

\* The three reasons for WillBeClosed(h) survive a step of connect() call g.
LEMMA ClosingStays ==
  ASSUME NEW g \in Gens, NEW h \in Gens, WillBeClosed(h),
         UNCHANGED <<closerPc, closerGen>>,
         \A i \in Gens : i # g => connectPc'[i] = connectPc[i],
         g = h => connectPc[g] # "forcing" \/ connectPc'[g] = "forcing",
         (g > h /\ connectPc[g] \in {"begun", "retiring", "forcing"})
           => connectPc'[g] \in {"begun", "retiring", "forcing"}
  PROVE  WillBeClosed(h)'
  <1>1. CASE connectPc[h] = "forcing"
    BY <1>1 DEF WillBeClosed
  <1>2. CASE \E d \in Closers : closerGen[d] = h /\ closerPc[d] = "forcing"
    BY <1>2 DEF WillBeClosed
  <1>3. CASE \E newer \in Gens :
               newer > h /\ connectPc[newer] \in {"begun", "retiring", "forcing"}
    <2>1. PICK newer \in Gens :
            newer > h /\ connectPc[newer] \in {"begun", "retiring", "forcing"}
      BY <1>3
    <2>2. connectPc'[newer] \in {"begun", "retiring", "forcing"}
      BY <2>1
    <2>3. QED BY <2>1, <2>2 DEF WillBeClosed
  <1>4. QED BY <1>1, <1>2, <1>3 DEF WillBeClosed

LEMMA ReportDownRetires ==
  ASSUME NEW g \in Gens, ReportDown(g), NEW h \in Gens, attempt'.gen # h
  PROVE  attempt.gen # h \/ h = g
  BY DEF ReportDown, rustVars

\* The open calls and the callbacks: no call moves between the places that
\* matter, and what they retire Kotlin no longer holds and has connected before.
LEMMA CallbacksForeclose ==
  ASSUME Inductive, Foreclosed, NEW g \in Gens, OpenSteps(g) \/ CallbackSteps(g),
         watermark' >= watermark, watermark' \in Nat, current' \in {current, NoGen}
  PROVE  Foreclosed'
  <1>1. /\ watermark \in Nat /\ current <= watermark /\ CallTypeOK /\ RustTypeOK
        /\ \A h \in Gens : h # NoGen
        /\ ClientLife(g)
    BY MaxGenAssumption
    DEF Inductive, TypeOK, KotlinTypeOK, TablePart, GensOrdered, Gens, NoGen
  <1>2. /\ UNCHANGED <<closerPc, closerGen>>
        /\ \A h \in Gens :
             \/ connectPc'[h] = connectPc[h]
             \/ connectPc[h] = "opening" /\ connectPc'[h] = "waiting"
    <2>1. /\ UNCHANGED <<closerPc, closerGen>>
          /\ OpenGattReturns(g) \/ connectPc' = connectPc
      BY DEF OpenSteps, OpenGattSkips, OpenGattStarts, FactoryCreates,
             OpenGattPublishes, OpenGattFails, CallbackSteps, LinkUp, LinkDown,
             StaleStateCallback, DisconnectedCallback, ConnectedCallback,
             MtuSettled, callVars
    <2>2. CASE connectPc' = connectPc
      BY <2>1, <2>2
    <2>3. CASE connectPc[g] = "opening" /\ connectPc' = [connectPc EXCEPT ![g] = "waiting"]
      BY <1>1, <2>1, <2>3 DEF CallTypeOK
    <2>4. QED BY <2>1, <2>2, <2>3 DEF OpenGattReturns
  <1>3. \A h \in Gens : WillBeClosed(h) => WillBeClosed(h)'
    BY <1>2 DEF WillBeClosed
  <1>4. \/ attempt'.gen = attempt.gen
        \/ ReportDown(g) /\ current' # g /\ connectPc[g] # "begun"
    <2>1. CASE OpenGattFails(g)
      BY <1>1, <2>1 DEF OpenGattFails, ClientLife, rustVars
    <2>2. CASE DisconnectedCallback(g)
      BY <1>1, <2>2 DEF DisconnectedCallback, ClientLife
    <2>3. CASE MtuSettled(g)
      BY <1>1, <2>3 DEF MtuSettled, ReportUp, RustTypeOK, TableEntries, rustVars
    <2>4. CASE attempt' = attempt
      BY <2>4
    <2>5. QED
      BY <2>1, <2>2, <2>3, <2>4
      DEF OpenSteps, OpenGattSkips, OpenGattStarts, FactoryCreates,
          OpenGattPublishes, CallbackSteps, LinkUp, LinkDown,
          StaleStateCallback, ConnectedCallback, rustVars
  <1>5. ASSUME NEW h \in Gens PROVE LateConnect(h)' /\ Orphanless(h)'
    <2>1. attempt'.gen # h => attempt.gen # h \/ (current' # h /\ connectPc'[h] # "begun")
      BY <1>2, <1>4, ReportDownRetires
    <2>2. LateConnect(h) /\ Orphanless(h)
      BY DEF Foreclosed
    <2>3. QED BY <1>1, <1>2, <1>3, <2>1, <2>2, StaysForeclosed
  <1>6. \A d \in Closers : closerPc'[d] = "settling"
          => watermark' >= closerGen'[d] /\ current' # closerGen'[d]
    BY <1>1, <1>2 DEF Foreclosed, CallTypeOK, Gens
  <1>7. QED BY <1>5, <1>6 DEF Foreclosed

LEMMA ConnectForecloses ==
  ASSUME Inductive, Foreclosed, NEW g \in Gens, ConnectSteps(g),
         watermark' >= watermark, watermark' \in Nat,
         current' \in {current, NoGen} \/ KotlinConnects(g) \/ KotlinReconnects(g)
  PROVE  Foreclosed'
  <1>1. /\ watermark \in Nat /\ current <= watermark /\ CallTypeOK
        /\ g \in Nat /\ \A h \in Gens : h \in Nat /\ h # NoGen
        /\ \A d \in Closers : closerPc[d] # "idle" => closerGen[d] \in Gens
    BY MaxGenAssumption
    DEF Inductive, TypeOK, KotlinTypeOK, CallTypeOK, TablePart, GensOrdered, Gens, NoGen
  <1>2. /\ UNCHANGED <<closerPc, closerGen>>
        /\ \A h \in Gens : h # g => connectPc'[h] = connectPc[h]
        /\ connectPc'[g] # "begun" /\ connectPc'[g] # connectPc[g]
    BY <1>1
    DEF ConnectSteps, ConnectCallFails, KotlinRefuses, KotlinConnects,
        KotlinReconnects, ConnectSucceeds, ConnectFails, ConnectDropped,
        ConnectGuardRetires, ConnectGuardForces, CallTypeOK
  <1>3. ASSUME NEW h \in Gens PROVE LateConnect(h) /\ Orphanless(h)
    BY DEF Foreclosed
  <1>S. ASSUME NEW h \in Gens, WillBeClosed(h),
               g = h => connectPc[g] # "forcing" \/ connectPc'[g] = "forcing",
               (g > h /\ connectPc[g] \in {"begun", "retiring", "forcing"})
                 => connectPc'[g] \in {"begun", "retiring", "forcing"}
        PROVE  WillBeClosed(h)'
    <2>1. \A i \in Gens : i # g => connectPc'[i] = connectPc[i]
      BY <1>2
    <2>2. QED BY <1>2, <1>S, <2>1, ClosingStays
  <1>4. CASE KotlinConnects(g) \/ KotlinReconnects(g)
    <2>1. /\ watermark' = g /\ current' = g /\ g > watermark
          /\ attempt' = attempt
          /\ connectPc[g] = "begun"
      BY <1>4 DEF KotlinConnects, KotlinReconnects, rustVars
    <2>2. LateConnect(g)' /\ Orphanless(g)'
      <3>1. WillBeClosed(g) => WillBeClosed(g)'
        BY <1>1, <2>1, <1>S
      <3>2. attempt.gen # g => WillBeClosed(g)
        BY <1>1, <1>3, <2>1 DEF LateConnect
      <3>3. QED BY <1>2, <2>1, <3>1, <3>2 DEF LateConnect, Orphanless
    <2>3. ASSUME NEW h \in Gens, h # g PROVE LateConnect(h)' /\ Orphanless(h)'
      <3>1. CASE h < g
        BY <1>1, <1>2, <2>1, <2>3, <3>1 DEF LateConnect, Orphanless
      <3>2. CASE h > g
        <4>1. WillBeClosed(h) => WillBeClosed(h)'
          <5>1. h # g /\ ~(g > h)
            BY <1>1, <3>2
          <5>2. QED BY <5>1, <1>S
        <4>2. LateConnect(h)'
          BY <1>1, <1>2, <1>3, <2>1, <2>3, <4>1 DEF LateConnect
        <4>3. QED BY <2>1, <2>3, <4>2 DEF Orphanless
      <3>3. QED BY <1>1, <2>3, <3>1, <3>2
    <2>4. \A d \in Closers : closerPc[d] = "settling"
            => watermark' >= closerGen[d] /\ current' # closerGen[d]
      BY <1>1, <2>1 DEF Foreclosed
    <2>5. QED BY <1>2, <2>2, <2>3, <2>4 DEF Foreclosed
  <1>5. CASE current' \in {current, NoGen}
    <2>1. ASSUME NEW h \in Gens, WillBeClosed(h)
          PROVE  \/ WillBeClosed(h)'
                 \/ watermark' > h
                 \/ watermark' >= h /\ current' # h
      <3>1. CASE ConnectGuardForces(g)
        <4>1. watermark' >= g /\ current' # g
          BY <1>1, <3>1 DEF ConnectGuardForces, ForceClose
        <4>2. CASE h < g
          BY <1>1, <4>1, <4>2
        <4>3. CASE h = g
          BY <4>1, <4>3
        <4>4. CASE h > g
          <5>1. h # g /\ ~(g > h)
            BY <1>1, <4>4
          <5>2. QED BY <2>1, <5>1, <1>S
        <4>5. h < g \/ h = g \/ h > g
          BY DEF Gens
        <4>6. QED BY <4>2, <4>3, <4>4, <4>5
      <3>2. CASE KotlinRefuses(g) \/ KotlinConnects(g) \/ KotlinReconnects(g)
        <4>1. watermark' >= g /\ connectPc[g] = "begun"
          BY <1>1, <3>2 DEF KotlinRefuses, KotlinConnects, KotlinReconnects, kotlinVars
        <4>2. CASE h < g
          BY <1>1, <4>1, <4>2
        <4>3. CASE h >= g
          <5>1. ~(g > h)
            BY <1>1, <4>3
          <5>2. QED BY <2>1, <4>1, <5>1, <1>S
        <4>4. h < g \/ h >= g
          BY DEF Gens
        <4>5. QED BY <4>2, <4>3, <4>4
      <3>3. CASE connectPc[g] \in {"begun", "waiting", "retiring"}
                 /\ (connectPc[g] # "waiting" => connectPc'[g] \in {"retiring", "forcing"})
        BY <1>1, <2>1, <3>3, <1>S
      <3>4. QED
        BY <1>1, <3>1, <3>2, <3>3
        DEF ConnectSteps, ConnectCallFails, ConnectSucceeds, ConnectFails,
            ConnectDropped, ConnectGuardRetires, CallTypeOK
    <2>2. ASSUME NEW h \in Gens, attempt'.gen # h
          PROVE  \/ attempt.gen # h
                 \/ WillBeClosed(h)'
                 \/ current' # h /\ connectPc'[h] # "begun"
      <3>1. CASE ConnectGuardRetires(g)
        <4>1. connectPc'[g] = "forcing" /\ ReportDown(g)
          BY <1>1, <3>1 DEF ConnectGuardRetires, CallTypeOK
        <4>2. QED BY <2>2, <4>1, ReportDownRetires DEF WillBeClosed
      <3>2. CASE ConnectGuardForces(g)
        <4>1. current' # g /\ (ReportDown(g) \/ attempt' = attempt)
          BY <1>1, <3>2 DEF ConnectGuardForces, ForceClose, rustVars
        <4>2. QED BY <1>2, <2>2, <4>1, ReportDownRetires
      <3>3. CASE attempt' = attempt
        BY <2>2, <3>3
      <3>4. QED
        BY <3>1, <3>2, <3>3
        DEF ConnectSteps, ConnectCallFails, KotlinRefuses, KotlinConnects,
            KotlinReconnects, ConnectSucceeds, ConnectFails, ConnectDropped, rustVars
    <2>3. ASSUME NEW h \in Gens PROVE LateConnect(h)' /\ Orphanless(h)'
      <3>1. connectPc'[h] = "begun" => connectPc[h] = "begun"
        BY <1>2
      <3>2. current' = h => current = h
        BY <1>1, <1>5
      <3>3. QED BY <1>1, <1>3, <2>1, <2>2, <3>1, <3>2, StaysForeclosed
    <2>4. ASSUME NEW d \in Closers, closerPc[d] = "settling"
          PROVE  watermark' >= closerGen[d] /\ current' # closerGen[d]
      <3>1. closerGen[d] \in Gens
        BY <1>1, <2>4
      <3>2. watermark >= closerGen[d] /\ current # closerGen[d]
        BY <2>4 DEF Foreclosed
      <3>3. closerGen[d] \in Nat /\ closerGen[d] # NoGen
        BY <1>1, <3>1
      <3>4. QED BY <1>1, <1>5, <3>2, <3>3
    <2>5. QED BY <1>2, <2>3, <2>4 DEF Foreclosed
  <1>6. QED BY <1>4, <1>5

LEMMA CloserForecloses ==
  ASSUME Inductive, Foreclosed, NEW d \in Closers, CloserSteps(d),
         watermark' >= watermark, watermark' \in Nat, current' \in {current, NoGen}
  PROVE  Foreclosed'
  <1>1. /\ watermark \in Nat /\ current <= watermark /\ CallTypeOK /\ RustTypeOK
        /\ \A h \in Gens : h \in Nat /\ h # NoGen
        /\ \A e \in Closers : closerPc[e] # "idle" => closerGen[e] \in Gens
        /\ \A h \in Gens : ClientLife(h)
    BY MaxGenAssumption
    DEF Inductive, TypeOK, KotlinTypeOK, CallTypeOK, TablePart, GensOrdered, Gens, NoGen
  <1>2. /\ connectPc' = connectPc
        /\ \A e \in Closers : e # d => closerPc'[e] = closerPc[e]
                                       /\ closerGen'[e] = closerGen[e]
        /\ closerPc[d] # "idle" => closerGen' = closerGen
    BY <1>1
    DEF CallTypeOK, CloserSteps, MarkDisconnecting, DisconnectCallFails,
        KotlinDisconnects, KotlinDisconnectsUnknown, DisconnectWoken,
        DisconnectTimesOut, TimeoutForces, TimeoutSettles, DisconnectDropped,
        CloserGuardRetires, CloserGuardForces, SetCloser
  <1>3. ASSUME ForceClose(closerGen[d]), closerGen[d] \in Gens
        PROVE  /\ watermark' >= closerGen[d] /\ current' # closerGen[d]
               /\ \A h \in Gens : attempt'.gen # h =>
                    \/ attempt.gen # h
                    \/ current' # h /\ connectPc'[h] # "begun"
    <2>1. watermark' >= closerGen[d] /\ current' # closerGen[d]
      BY <1>1, <1>3 DEF ForceClose
    <2>2. \/ attempt' = attempt
          \/ ReportDown(closerGen[d]) /\ current = closerGen[d]
      BY <1>3 DEF ForceClose, rustVars
    <2>3. current = closerGen[d] => connectPc[closerGen[d]] # "begun"
      BY <1>1, <1>3 DEF ClientLife
    <2>4. QED BY <1>2, <1>3, <2>1, <2>2, <2>3, ReportDownRetires
  <1>4. ASSUME NEW h \in Gens, WillBeClosed(h)
        PROVE  WillBeClosed(h)' \/ (watermark' >= h /\ current' # h)
    <2>1. CASE CloserGuardForces(d)
      BY <1>1, <1>2, <1>3, <1>4, <2>1 DEF CloserGuardForces, WillBeClosed
    <2>2. CASE closerPc[d] # "forcing"
      BY <1>1, <1>2, <1>4, <2>2 DEF WillBeClosed
    <2>3. QED
      BY <2>1, <2>2
      DEF CloserSteps, MarkDisconnecting, DisconnectCallFails, KotlinDisconnects,
          KotlinDisconnectsUnknown, DisconnectWoken, DisconnectTimesOut,
          TimeoutForces, TimeoutSettles, DisconnectDropped, CloserGuardRetires
  <1>5. ASSUME NEW h \in Gens, attempt'.gen # h
        PROVE  \/ attempt.gen # h
               \/ WillBeClosed(h)'
               \/ current' # h /\ (connectPc'[h] # "begun" \/ watermark' >= h)
    <2>1. CASE KotlinDisconnectsUnknown(d) \/ TimeoutForces(d) \/ CloserGuardForces(d)
      BY <1>1, <1>3, <1>5, <2>1
      DEF KotlinDisconnectsUnknown, TimeoutForces, CloserGuardForces
    <2>2. CASE TimeoutSettles(d)
      <3>1. ReportDown(closerGen[d]) /\ closerGen[d] \in Gens
        BY <1>1, <2>2 DEF TimeoutSettles
      <3>2. watermark' >= closerGen[d] /\ current' # closerGen[d]
        BY <1>1, <2>2 DEF TimeoutSettles, Foreclosed, kotlinVars
      <3>3. QED BY <1>5, <3>1, <3>2, ReportDownRetires
    <2>3. CASE CloserGuardRetires(d)
      <3>1. ReportDown(closerGen[d]) /\ closerGen[d] \in Gens
        BY <1>1, <2>3 DEF CloserGuardRetires
      <3>2. closerPc'[d] = "forcing" /\ closerGen' = closerGen
        BY <1>1, <2>3 DEF CloserGuardRetires, SetCloser, CallTypeOK
      <3>3. QED BY <1>5, <3>1, <3>2, ReportDownRetires DEF WillBeClosed
    <2>4. CASE attempt'.gen = attempt.gen
      BY <1>5, <2>4
    <2>5. CASE MarkDisconnecting(d)
      BY <1>1, <2>4, <2>5 DEF MarkDisconnecting, RustTypeOK, TableEntries
    <2>6. QED
      BY <2>1, <2>2, <2>3, <2>4, <2>5
      DEF CloserSteps, DisconnectCallFails, KotlinDisconnects, DisconnectWoken,
          DisconnectTimesOut, DisconnectDropped, rustVars
  <1>6. ASSUME NEW h \in Gens PROVE LateConnect(h)' /\ Orphanless(h)'
    <2>1. LateConnect(h) /\ Orphanless(h)
      BY DEF Foreclosed
    <2>2. current' = h => current = h
      BY <1>1
    <2>3. connectPc'[h] = "begun" => connectPc[h] = "begun"
      BY <1>2
    <2>4. QED BY <1>1, <1>4, <1>5, <2>1, <2>2, <2>3, StaysForeclosed
  <1>7. ASSUME NEW e \in Closers, closerPc'[e] = "settling"
        PROVE  watermark' >= closerGen'[e] /\ current' # closerGen'[e]
    <2>1. CASE e = d
      <3>1. TimeoutForces(d)
        BY <1>1, <1>7, <2>1
        DEF CallTypeOK, CloserSteps, MarkDisconnecting, DisconnectCallFails,
            KotlinDisconnects, KotlinDisconnectsUnknown, DisconnectWoken,
            DisconnectTimesOut, TimeoutSettles, DisconnectDropped,
            CloserGuardRetires, CloserGuardForces, SetCloser
      <3>2. QED BY <1>1, <1>2, <1>3, <2>1, <3>1 DEF TimeoutForces
    <2>2. CASE e # d
      BY <1>1, <1>2, <1>7, <2>2 DEF Foreclosed
    <2>3. QED BY <2>1, <2>2
  <1>8. QED BY <1>6, <1>7 DEF Foreclosed

LEMMA BeginForecloses ==
  ASSUME Inductive, Foreclosed, Begin
  PROVE  Foreclosed'
  <1> DEFINE g == nextGeneration + 1
  <1>1. /\ g \in Gens /\ nextGeneration \in Nat /\ CallTypeOK
        /\ \A h \in Gens : h \in Nat
        /\ attempt.gen \in {NoGen, nextGeneration}
        /\ \A h \in Gens : connectPc[h] = "unborn" <=> h > nextGeneration
    BY MaxGenAssumption
    DEF Inductive, TypeOK, RustTypeOK, TablePart, GensOrdered, Begin, Gens
  <1>2. /\ attempt'.gen = g
        /\ connectPc' = [connectPc EXCEPT ![g] = "begun"]
        /\ UNCHANGED <<closerPc, closerGen, watermark, current>>
    BY DEF Begin, NoAttempt, kotlinVars
  <1> HIDE DEF g
  <1>3. ASSUME NEW h \in Gens PROVE LateConnect(h)' /\ Orphanless(h)'
    <2>1. CASE h = g
      BY <1>2, <2>1 DEF LateConnect, Orphanless
    <2>2. CASE h < g
      <3>1. connectPc'[g] = "begun" /\ g > h
        BY <1>1, <1>2, <2>2 DEF CallTypeOK
      <3>2. WillBeClosed(h)'
        BY <1>1, <3>1 DEF WillBeClosed
      <3>3. QED BY <3>2 DEF LateConnect, Orphanless
    <2>3. CASE h > g
      <3>1. connectPc'[h] = "unborn"
        BY <1>1, <1>2, <2>3 DEF CallTypeOK, g
      <3>2. current <= nextGeneration /\ nextGeneration < h
        BY <1>1, <2>3, MaxGenAssumption
        DEF Inductive, TablePart, GensOrdered, TypeOK, KotlinTypeOK, g
      <3>3. current # h
        BY <1>1, <3>2
      <3>4. QED BY <1>2, <3>1, <3>3 DEF LateConnect, Orphanless
    <2>4. QED BY <1>1, <2>1, <2>2, <2>3
  <1>4. QED BY <1>2, <1>3 DEF Foreclosed

\* A Kotlin attempt that nobody in Rust knows of any more has a call on its way
\* to close it, unless a newer generation has reached Kotlin.
THEOREM NeverOrphaned == Spec => []NoOrphanAttempt
  <1>1. Inductive /\ Foreclosed /\ [Next]_vars => Foreclosed'
    <2> SUFFICES ASSUME Inductive, Foreclosed, [Next]_vars PROVE Foreclosed'
      OBVIOUS
    <2>1. watermark' >= watermark /\ watermark' \in Nat
      BY WatermarkRises, TypeStep, MaxGenAssumption
      DEF Inductive, TypeOK, KotlinTypeOK
    <2>2. ASSUME NEW g \in Gens, ConnectSteps(g) PROVE Foreclosed'
      <3>1. current' \in {current, NoGen} \/ KotlinConnects(g) \/ KotlinReconnects(g)
        BY <2>2, MaxGenAssumption
        DEF ConnectSteps, ConnectCallFails, KotlinRefuses, ConnectSucceeds,
            ConnectFails, ConnectDropped, ConnectGuardRetires,
            ConnectGuardForces, ForceClose, kotlinVars
      <3>2. QED BY <2>1, <2>2, <3>1, ConnectForecloses
    <2>3. ASSUME NEW g \in Gens, OpenSteps(g) \/ CallbackSteps(g) PROVE Foreclosed'
      <3>1. current' \in {current, NoGen}
        BY <2>3
        DEF OpenSteps, OpenGattSkips, OpenGattStarts, FactoryCreates,
            OpenGattPublishes, OpenGattFails, CallbackSteps, LinkUp, LinkDown,
            StaleStateCallback, DisconnectedCallback, ConnectedCallback,
            MtuSettled, kotlinVars
      <3>2. QED BY <2>1, <2>3, <3>1, CallbacksForeclose
    <2>4. ASSUME NEW d \in Closers, CloserSteps(d) PROVE Foreclosed'
      <3>1. current' \in {current, NoGen}
        BY <2>4
        DEF CloserSteps, MarkDisconnecting, DisconnectCallFails, KotlinDisconnects,
            KotlinDisconnectsUnknown, DisconnectWoken, DisconnectTimesOut,
            TimeoutForces, TimeoutSettles, DisconnectDropped,
            CloserGuardRetires, CloserGuardForces, ForceClose, kotlinVars
      <3>2. QED BY <2>1, <2>4, <3>1, CloserForecloses
    <2>5. CASE UNCHANGED vars
      BY <2>5 DEF Foreclosed, LateConnect, Orphanless, WillBeClosed, vars,
                  rustVars, callVars, kotlinVars
    <2>6. QED BY <2>2, <2>3, <2>4, <2>5, BeginForecloses DEF Next
  <1>2. Foreclosed => NoOrphanAttempt
    BY DEF Foreclosed, Orphanless, NoOrphanAttempt
  <1>3. QED BY <1>1, <1>2, ForeclosedInit, AlwaysInductive, PTL DEF Spec

(***************************************************************************)
(* The two sides together implement ConnectionContract.                    *)
(***************************************************************************)

\* release() closes an open client or does nothing to it.
LEMMA ReleaseMaps ==
  ASSUME KotlinTypeOK, NEW g \in Gens, NEW k \in KotlinAttempts, ClientLife(g),
         k.released = kotlin[g].released, k.gatt => client[g] # "none",
         ReleaseClient(g, k)
  PROVE  \/ client' = client
         \/ client[g] = "open" /\ client' = [client EXCEPT ![g] = "closed"]
  <1>1. client' = [client EXCEPT ![g] = IF k.gatt /\ ~k.released THEN "closed" ELSE @]
    BY DEF ReleaseClient, Closes
  <1>2. CASE k.gatt /\ ~k.released
    <2>1. client[g] \in {"none", "open", "closed"}
      BY DEF KotlinTypeOK
    <2>2. client[g] = "open"
      BY <1>2, <2>1 DEF ClientLife
    <2>3. QED BY <1>1, <1>2, <2>2
  <1>3. CASE ~(k.gatt /\ ~k.released)
    BY <1>1, <1>3 DEF KotlinTypeOK
  <1>4. QED BY <1>2, <1>3

\* A report of a disconnection is the contract's Disconnected or nothing,
\* whatever becomes of the attempt's client in the same step.
LEMMA ReportDownMaps ==
  ASSUME NEW g \in Gens, ReportDown(g), attempt.gen = g,
         \/ client' = client
         \/ client[g] = "open" /\ client' = [client EXCEPT ![g] = "closed"]
  PROVE  Contract!Disconnected
  <1>1. g # NoGen /\ g # 0
    BY MaxGenAssumption DEF Gens, NoGen
  <1>2. /\ attempt'.gen = 0 /\ attempt'.waiter = FALSE /\ attempt'.disconnecting = FALSE
        /\ told' = [told EXCEPT ![g] = Append(@, "down")]
        /\ nextGeneration' = nextGeneration
    BY DEF ReportDown, NoAttempt, Tell, NoGen
  <1>3. QED BY <1>1, <1>2 DEF Contract!Disconnected

\* A client may be closed when its attempt does not count as connected.
LEMMA CloseMaps ==
  ASSUME NEW g \in Gens, attempt.gen = g => attempt.waiter,
         attempt.waiter \in BOOLEAN,
         UNCHANGED <<nextGeneration, attempt, told>>,
         \/ client' = client
         \/ client[g] = "open" /\ client' = [client EXCEPT ![g] = "closed"]
  PROVE  Contract!Next \/ UNCHANGED Contract!vars
  <1>1. CASE client' = client
    BY <1>1 DEF Contract!vars
  <1>2. CASE client[g] = "open" /\ client' = [client EXCEPT ![g] = "closed"]
    <2>1. Contract!CloseClient(g)
      BY <1>2 DEF Contract!CloseClient
    <2>2. QED BY <2>1 DEF Contract!Next, Gens
  <1>3. QED BY <1>1, <1>2

LEMMA ForceCloseMaps ==
  ASSUME Inductive, NEW g \in Gens, ForceClose(g)
  PROVE  Contract!Next \/ UNCHANGED Contract!vars
  <1>1. CASE current # g
    BY <1>1 DEF ForceClose, rustVars, Contract!vars
  <1>2. CASE current = g
    <2>1. ReportDown(g) /\ ReleaseClient(g, kotlin[g])
      BY <1>2 DEF ForceClose
    <2>2. /\ KotlinTypeOK /\ kotlin[g] \in KotlinAttempts /\ ClientLife(g)
          /\ attempt.waiter \in BOOLEAN
      BY DEF Inductive, TypeOK, KotlinTypeOK, RustTypeOK, TableEntries
    <2>3. \/ client' = client
          \/ client[g] = "open" /\ client' = [client EXCEPT ![g] = "closed"]
      <3>1. kotlin[g].gatt => client[g] # "none"
        BY <2>2 DEF ClientLife
      <3>2. QED BY <2>1, <2>2, <3>1, ReleaseMaps
    <2>4. CASE attempt.gen = g
      BY <2>1, <2>3, <2>4, ReportDownMaps DEF Contract!Next
    <2>5. CASE attempt.gen # g
      <3>1. UNCHANGED <<nextGeneration, attempt, told>>
        BY <2>1, <2>5 DEF ReportDown, rustVars
      <3>2. QED BY <2>2, <2>3, <2>5, <3>1, CloseMaps
    <2>6. QED BY <2>4, <2>5
  <1>3. QED BY <1>1, <1>2

LEMMA ConnectMaps ==
  ASSUME Inductive, NEW g \in Gens, ConnectSteps(g)
  PROVE  Contract!Next \/ UNCHANGED Contract!vars
  <1>1. CASE ConnectGuardForces(g)
    BY <1>1, ForceCloseMaps DEF ConnectGuardForces
  <1>2. CASE ConnectGuardRetires(g)
    <2>1. ReportDown(g) /\ client' = client
      BY <1>2 DEF ConnectGuardRetires, kotlinVars
    <2>2. CASE attempt.gen = g
      BY <2>1, <2>2, ReportDownMaps DEF Contract!Next
    <2>3. CASE attempt.gen # g
      BY <2>1, <2>3 DEF ReportDown, rustVars, Contract!vars
    <2>4. QED BY <2>2, <2>3
  <1>3. CASE KotlinReconnects(g)
    <2>1. /\ KotlinTypeOK /\ RustTypeOK /\ GensOrdered
          /\ current \in Nat /\ watermark \in Nat /\ nextGeneration \in Nat
      BY MaxGenAssumption
      DEF Inductive, TypeOK, KotlinTypeOK, RustTypeOK, TablePart
    <2>2. PICK c \in Gens : c = current
      BY <1>3, <2>1, MaxGenAssumption DEF KotlinReconnects, KotlinTypeOK, Gens, NoGen
    <2>3. ReleaseClient(c, kotlin[c]) /\ UNCHANGED <<nextGeneration, attempt, told>>
      BY <1>3, <2>2 DEF KotlinReconnects, rustVars
    <2>4. kotlin[c] \in KotlinAttempts /\ ClientLife(c) /\ attempt.waiter \in BOOLEAN
      BY <2>1 DEF Inductive, KotlinTypeOK, RustTypeOK, TableEntries
    <2>5. attempt.gen # c
      <3>1. g <= nextGeneration
        <4>1. connectPc[g] # "unborn" /\ g \in Nat
          BY <1>3 DEF KotlinReconnects, Gens
        <4>2. QED BY <2>1, <4>1 DEF GensOrdered
      <3>2. c < nextGeneration /\ c # NoGen
        BY <1>3, <2>1, <2>2, <3>1 DEF KotlinReconnects, GensOrdered, Gens
      <3>3. QED BY <2>1, <3>2 DEF GensOrdered
    <2>6. \/ client' = client
          \/ client[c] = "open" /\ client' = [client EXCEPT ![c] = "closed"]
      <3>1. kotlin[c].gatt => client[c] # "none"
        BY <2>4 DEF ClientLife
      <3>2. QED BY <2>1, <2>3, <2>4, <3>1, ReleaseMaps
    <2>7. QED BY <2>3, <2>4, <2>5, <2>6, CloseMaps
  <1>4. CASE UNCHANGED <<rustVars, client>>
    BY <1>4 DEF rustVars, Contract!vars
  <1>5. QED
    BY <1>1, <1>2, <1>3, <1>4
    DEF ConnectSteps, ConnectCallFails, KotlinRefuses, KotlinConnects,
        ConnectSucceeds, ConnectFails, ConnectDropped, kotlinVars

LEMMA OpenMaps ==
  ASSUME Inductive, NEW g \in Gens, OpenSteps(g)
  PROVE  Contract!Next \/ UNCHANGED Contract!vars
  <1>1. CASE OpenGattSkips(g) \/ OpenGattStarts(g)
    BY <1>1 DEF OpenGattSkips, OpenGattStarts, rustVars, Contract!vars
  <1>2. CASE FactoryCreates(g)
    <2>1. Contract!OpenClient(g)
      BY <1>2 DEF FactoryCreates, Contract!OpenClient, rustVars
    <2>2. QED BY <2>1 DEF Contract!Next, Gens
  <1>3. CASE OpenGattFails(g)
    <2>1. client' = client /\ (ReportDown(g) \/ UNCHANGED rustVars)
      BY <1>3 DEF OpenGattFails
    <2>2. CASE ReportDown(g) /\ attempt.gen = g
      BY <2>1, <2>2, ReportDownMaps DEF Contract!Next
    <2>3. CASE UNCHANGED rustVars
      BY <2>1, <2>3 DEF rustVars, Contract!vars
    <2>4. QED BY <2>1, <2>2, <2>3 DEF ReportDown
  <1>4. CASE OpenGattPublishes(g)
    <2> DEFINE held == [kotlin[g] EXCEPT !.gatt = TRUE]
    <2>1. /\ UNCHANGED <<nextGeneration, attempt, told>>
          /\ client[g] # "none"
          /\ current # g => ReleaseClient(g, held)
          /\ current = g => client' = client
      BY <1>4 DEF OpenGattPublishes, rustVars
    <2>2. KotlinTypeOK /\ ClientLife(g) /\ UpIsHeld /\ attempt.waiter \in BOOLEAN
      BY DEF Inductive, TablePart, TypeOK, RustTypeOK, TableEntries
    <2>3. held \in KotlinAttempts /\ held.released = kotlin[g].released
      BY <2>2 DEF KotlinTypeOK, KotlinAttempts
    <2> HIDE DEF held
    <2>4. CASE current = g
      BY <2>1, <2>4 DEF Contract!vars
    <2>5. CASE current # g
      <3>1. attempt.gen = g => attempt.waiter
        BY <2>2, <2>5 DEF UpIsHeld, Up, Held
      <3>2. QED BY <2>1, <2>2, <2>3, <2>5, <3>1, ReleaseMaps, CloseMaps
    <2>6. QED BY <2>4, <2>5
  <1>5. QED BY <1>1, <1>2, <1>3, <1>4 DEF OpenSteps

LEMMA CloserMaps ==
  ASSUME Inductive, NEW d \in Closers, CloserSteps(d)
  PROVE  Contract!Next \/ UNCHANGED Contract!vars
  <1>1. RustTypeOK /\ (closerPc[d] # "idle" => closerGen[d] \in Gens)
    BY DEF Inductive, TypeOK, CallTypeOK
  <1>2. CASE MarkDisconnecting(d)
    <2>1. /\ attempt.gen # 0 /\ attempt'.gen = attempt.gen
          /\ attempt'.waiter = attempt.waiter /\ attempt'.disconnecting = TRUE
          /\ UNCHANGED <<nextGeneration, told, client>>
      BY <1>1, <1>2
      DEF MarkDisconnecting, RustTypeOK, TableEntries, NoGen, kotlinVars
    <2>2. Contract!AskClose
      BY <2>1 DEF Contract!AskClose
    <2>3. QED BY <2>2 DEF Contract!Next
  <1>3. CASE KotlinDisconnectsUnknown(d) \/ TimeoutForces(d) \/ CloserGuardForces(d)
    BY <1>1, <1>3, ForceCloseMaps
    DEF KotlinDisconnectsUnknown, TimeoutForces, CloserGuardForces
  <1>4. CASE TimeoutSettles(d) \/ CloserGuardRetires(d)
    <2>1. PICK g \in Gens : ReportDown(g) /\ client' = client
      BY <1>1, <1>4 DEF TimeoutSettles, CloserGuardRetires, kotlinVars
    <2>2. CASE attempt.gen = g
      BY <2>1, <2>2, ReportDownMaps DEF Contract!Next
    <2>3. CASE attempt.gen # g
      BY <2>1, <2>3 DEF ReportDown, rustVars, Contract!vars
    <2>4. QED BY <2>2, <2>3
  <1>5. CASE UNCHANGED <<rustVars, client>>
    BY <1>5 DEF rustVars, Contract!vars
  <1>6. QED
    BY <1>2, <1>3, <1>4, <1>5
    DEF CloserSteps, DisconnectCallFails, KotlinDisconnects, DisconnectWoken,
        DisconnectTimesOut, DisconnectDropped, kotlinVars

LEMMA CallbackMaps ==
  ASSUME Inductive, NEW g \in Gens, CallbackSteps(g)
  PROVE  Contract!Next \/ UNCHANGED Contract!vars
  <1> DEFINE held == [kotlin[g] EXCEPT !.gatt = TRUE]
  <1>1. /\ KotlinTypeOK /\ RustTypeOK /\ ClientLife(g) /\ UpIsHeld
        /\ attempt.waiter \in BOOLEAN
    BY DEF Inductive, TablePart, TypeOK, RustTypeOK, TableEntries
  <1>2. ASSUME inbox[g] # <<>>, ReleaseClient(g, held)
        PROVE  \/ client' = client
               \/ client[g] = "open" /\ client' = [client EXCEPT ![g] = "closed"]
    <2>1. held \in KotlinAttempts /\ held.released = kotlin[g].released
      BY <1>1 DEF KotlinTypeOK, KotlinAttempts
    <2> HIDE DEF held
    <2>2. client[g] # "none"
      BY <1>1, <1>2 DEF ClientLife
    <2>3. QED BY <1>1, <1>2, <2>1, <2>2, ReleaseMaps
  <1>3. CASE StaleStateCallback(g)
    <2>1. /\ current # g /\ inbox[g] # <<>> /\ ReleaseClient(g, held)
          /\ UNCHANGED <<nextGeneration, attempt, told>>
      BY <1>3 DEF StaleStateCallback, rustVars
    <2>2. attempt.gen = g => attempt.waiter
      BY <1>1, <2>1 DEF UpIsHeld, Up, Held
    <2>3. QED BY <1>1, <1>2, <2>1, <2>2, CloseMaps
  <1>4. CASE DisconnectedCallback(g)
    <2>1. inbox[g] # <<>> /\ ReleaseClient(g, held) /\ ReportDown(g)
      BY <1>4 DEF DisconnectedCallback
    <2>2. CASE attempt.gen = g
      BY <1>2, <2>1, <2>2, ReportDownMaps DEF Contract!Next
    <2>3. CASE attempt.gen # g
      <3>1. UNCHANGED <<nextGeneration, attempt, told>>
        BY <2>1, <2>3 DEF ReportDown, rustVars
      <3>2. QED BY <1>1, <1>2, <2>1, <2>3, <3>1, CloseMaps
    <2>4. QED BY <2>2, <2>3
  <1>5. CASE MtuSettled(g)
    <2>1. client' = client
      BY <1>5 DEF MtuSettled
    <2>2. CASE UNCHANGED rustVars
      BY <2>1, <2>2 DEF rustVars, Contract!vars
    <2>3. CASE ReportUp(g) /\ current = g /\ ~UNCHANGED rustVars
      <3>1. /\ attempt.gen = g /\ attempt.waiter /\ ~attempt.disconnecting
            /\ attempt' = [attempt EXCEPT !.waiter = FALSE]
            /\ told' = [told EXCEPT ![g] = Append(@, "up")]
            /\ nextGeneration' = nextGeneration
        BY <2>3 DEF ReportUp, Tell
      <3>2. /\ attempt'.gen = attempt.gen /\ attempt'.waiter = FALSE
            /\ attempt'.disconnecting = attempt.disconnecting
        BY <1>1, <3>1 DEF RustTypeOK, TableEntries
      <3>3. client[g] = "open"
        <4>1. client[g] \in {"none", "open", "closed"}
          BY <1>1 DEF KotlinTypeOK
        <4>2. QED BY <1>1, <1>5, <2>3, <4>1 DEF MtuSettled, ClientLife
      <3>4. attempt.gen # 0
        BY <3>1, MaxGenAssumption DEF Gens
      <3>5. Contract!Connected
        BY <2>1, <3>1, <3>2, <3>3, <3>4 DEF Contract!Connected
      <3>6. QED BY <3>5 DEF Contract!Next
    <2>4. QED BY <1>5, <2>2, <2>3 DEF MtuSettled
  <1>6. CASE LinkUp(g) \/ LinkDown(g) \/ ConnectedCallback(g)
    BY <1>6 DEF LinkUp, LinkDown, ConnectedCallback, rustVars, kotlinVars, Contract!vars
  <1>7. QED BY <1>3, <1>4, <1>5, <1>6 DEF CallbackSteps

\* The table, the events and the native clients, seen from outside, behave as
\* ConnectionContract says: every step is one of its steps or changes nothing
\* an application can see.
THEOREM ContractKept == Spec => KeepsContract
  <1>1. Init => Contract!Init
    BY DEF Init, Contract!Init, NoAttempt, NoGen, Gens
  <1>2. Inductive /\ [Next]_vars => [Contract!Next]_(Contract!vars)
    <2> SUFFICES ASSUME Inductive, [Next]_vars
                 PROVE  Contract!Next \/ UNCHANGED Contract!vars
      OBVIOUS
    <2>1. CASE Begin
      <3>1. /\ attempt'.gen = nextGeneration + 1 /\ attempt'.waiter = TRUE
            /\ attempt'.disconnecting = FALSE
            /\ attempt.waiter = FALSE /\ attempt.disconnecting = FALSE
            /\ nextGeneration < MaxGen /\ nextGeneration' = nextGeneration + 1
            /\ UNCHANGED <<told, client>>
        BY <2>1
        DEF Begin, NoAttempt, kotlinVars, Inductive, TypeOK, RustTypeOK, TableEntries
      <3>2. Contract!Start
        BY <3>1 DEF Contract!Start
      <3>3. QED BY <3>2 DEF Contract!Next
    <2>2. CASE UNCHANGED vars
      BY <2>2 DEF vars, rustVars, kotlinVars, Contract!vars
    <2>3. QED
      BY <2>1, <2>2, ConnectMaps, OpenMaps, CallbackMaps, CloserMaps DEF Next
  <1>3. QED BY <1>1, <1>2, AlwaysInductive, PTL DEF Spec, Contract!Spec, KeepsContract

=============================================================================
