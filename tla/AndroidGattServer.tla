-------------------------- MODULE AndroidGattServer --------------------------
(***************************************************************************)
(* The GATT server of an Android peripheral: the server handle and its one *)
(* pending registration (GattServerHost.kt), the callbacks of one central  *)
(* on the binder thread - its link, its CCCD writes, its requests - and    *)
(* onAdapterOff on the main thread (BlePeripheralManager.kt), with the     *)
(* subscription table both use (Subscription.kt) and the tasks that answer *)
(* the requests (jni_hooks.rs).                                            *)
(*                                                                         *)
(* A service is named by the add_service() call that adds it.  Only one    *)
(* characteristic is subscribed to.  A step is a section of a monitor or   *)
(* one access of a concurrent map.                                         *)
(***************************************************************************)
EXTENDS Naturals, Sequences, FiniteSets

CONSTANTS
  Adds,       \* calls of add_service()
  Asks,       \* requests the central makes
  MaxOffs,    \* bound: how often the adapter goes off
  MaxEvents,  \* bound: links made and CCCD writes
  NoAdd       \* no call

ASSUME GattServerAssumption ==
  /\ NoAdd \notin Adds
  /\ Adds \cap Asks = {}
  /\ MaxOffs \in Nat /\ MaxEvents \in Nat

NoServer == 0

VARIABLES
  handle, generation,  \* GattServerHost.handle, by its generation, and generation
  pendingAdd,          \* GattServerHost.pending
  adder,               \* who holds addLock
  addPc,               \* where a call of add_service() is, and what it returned
  addedTo,             \* the server it adds to
  addStatus,           \* PendingAdd: "none", "success", "failure", "abandoned"
  table,               \* the services whose characteristics are served
  framework,           \* mPendingService of the live server, NoAdd when there is none
  registering,         \* services the stack has not answered for, <<server, service>>
  onStack,             \* history: services a server's stack registered
  radio, powerOffs,         \* the adapter, and how often it went off
  peerLinked, connectedTo,   \* the central is connected; connectedDevices has it
  subs,                \* SubscriptionTable has the subscription
  callbacks,           \* what the stack posted to the binder thread, and not yet ran
  binderAt,            \* what the binder thread is doing
  receiverAt,          \* what the adapter state receiver is doing
  toldSub, toldPower,  \* the last events of each kind the application was sent
  linkEvents,              \* links made and CCCD writes so far
  ask,                 \* where a request is
  awaits               \* the requests whose response the central waits for

hostVars == <<handle, generation, pendingAdd, adder, addPc, addedTo, addStatus, table>>
stackSide == <<framework, registering, onStack>>
radioSide == <<radio, powerOffs>>
peerSide == <<peerLinked, connectedTo, subs, linkEvents>>
threads == <<binderAt, receiverAt>>
toldVars == <<toldSub, toldPower>>
asks == <<ask, awaits>>
gattServerVars == <<hostVars, stackSide, radioSide, peerSide, callbacks, threads, toldVars, asks>>

GattServerInit ==
  /\ handle = NoServer /\ generation = 0
  /\ pendingAdd = NoAdd /\ adder = NoAdd
  /\ addPc = [a \in Adds |-> "idle"]
  /\ addedTo = [a \in Adds |-> NoServer]
  /\ addStatus = [a \in Adds |-> "none"]
  /\ table = {}
  /\ framework = NoAdd /\ registering = {} /\ onStack = {}
  /\ radio = TRUE /\ powerOffs = 0
  /\ peerLinked = FALSE /\ connectedTo = FALSE /\ subs = FALSE /\ linkEvents = 0
  /\ callbacks = <<>>
  /\ binderAt = "idle" /\ receiverAt = "idle"
  /\ toldSub = FALSE /\ toldPower = TRUE
  /\ ask = [r \in Asks |-> "none"] /\ awaits = {}

Post(cb) == callbacks' = Append(callbacks, cb)

----------------------------------------------------------------------------
(* Adding a service.                                                        *)

AddReturns(a, code) == addPc' = [addPc EXCEPT ![a] = code]

\* The slot is taken, by an add whose callback is still owed ...
AddFindsBusy(a) ==
  /\ addPc[a] = "idle" /\ adder = NoAdd
  /\ pendingAdd # NoAdd
  /\ AddReturns(a, "busy")
  /\ UNCHANGED <<handle, generation, pendingAdd, adder, addedTo, addStatus, table,
                 stackSide, radioSide, peerSide, callbacks, threads, toldVars, asks>>

\* ... or the server cannot be opened, as while Bluetooth is off, ...
AddFindsNoServer(a) ==
  /\ addPc[a] = "idle" /\ adder = NoAdd
  /\ pendingAdd = NoAdd /\ handle = NoServer
  /\ AddReturns(a, "unavailable")
  /\ UNCHANGED <<handle, generation, pendingAdd, adder, addedTo, addStatus, table,
                 stackSide, radioSide, peerSide, callbacks, threads, toldVars, asks>>

\* ... or the add takes the slot, of a server opened for it if there was none.
AddTakesSlot(a) ==
  /\ addPc[a] = "idle" /\ adder = NoAdd
  /\ pendingAdd = NoAdd
  /\ IF handle = NoServer
     THEN /\ radio
          /\ generation' = generation + 1
          /\ handle' = generation'
          /\ framework' = NoAdd
     ELSE UNCHANGED <<generation, handle, framework>>
  /\ addedTo' = [addedTo EXCEPT ![a] = handle']
  /\ pendingAdd' = a
  /\ adder' = a
  /\ AddReturns(a, "slot")
  /\ UNCHANGED <<addStatus, table, registering, onStack, radioSide, peerSide,
                 callbacks, threads, toldVars, asks>>

\* The framework takes the service, whatever it was holding, and asks the stack; a
\* server of an adapter that is off "takes addService and never reports".
AddReachesStack(a) ==
  /\ addPc[a] = "slot"
  /\ AddReturns(a, "waiting")
  /\ IF radio /\ handle = addedTo[a]
     THEN framework' = a /\ registering' = registering \cup {<<addedTo[a], a>>}
     ELSE UNCHANGED <<framework, registering>>
  /\ UNCHANGED <<handle, generation, pendingAdd, adder, addedTo, addStatus, table,
                 onStack, radioSide, peerSide, callbacks, threads, toldVars, asks>>

\* The call did not reach the stack: the slot, if it is still this add's, is free.
AddRefused(a) ==
  /\ addPc[a] = "slot"
  /\ AddReturns(a, "rejected")
  /\ adder' = NoAdd
  /\ pendingAdd' = IF pendingAdd = a THEN NoAdd ELSE pendingAdd
  /\ UNCHANGED <<handle, generation, addedTo, addStatus, table, stackSide, radioSide,
                 peerSide, callbacks, threads, toldVars, asks>>

\* Mutant of AddTimesOut: who gives up frees the slot.
AddTimesOutFreeing(a) ==
  /\ addPc[a] = "waiting" /\ addStatus[a] = "none"
  /\ AddReturns(a, "timedOut")
  /\ adder' = NoAdd
  /\ pendingAdd' = NoAdd
  /\ UNCHANGED <<handle, generation, addedTo, addStatus, table,
                 stackSide, radioSide, peerSide, callbacks, threads, toldVars, asks>>

\* Giving up on the callback does not give up the slot.
AddTimesOut(a) ==
  /\ addPc[a] = "waiting" /\ addStatus[a] = "none"
  /\ AddReturns(a, "timedOut")
  /\ adder' = NoAdd
  /\ UNCHANGED <<handle, generation, pendingAdd, addedTo, addStatus, table,
                 stackSide, radioSide, peerSide, callbacks, threads, toldVars, asks>>

\* Answered with an error, or abandoned by reset().
AddFails(a) ==
  /\ addPc[a] = "waiting" /\ addStatus[a] \in {"failure", "abandoned"}
  /\ AddReturns(a, IF addStatus[a] = "failure" THEN "rejected" ELSE "unavailable")
  /\ adder' = NoAdd
  /\ UNCHANGED <<handle, generation, pendingAdd, addedTo, addStatus, table,
                 stackSide, radioSide, peerSide, callbacks, threads, toldVars, asks>>

\* publish(): only into the table of the server that took the service.
AddPublishes(a) ==
  /\ addPc[a] = "waiting" /\ addStatus[a] = "success"
  /\ IF handle = addedTo[a]
     THEN table' = table \cup {a} /\ AddReturns(a, "ok")
     ELSE AddReturns(a, "unavailable") /\ UNCHANGED table
  /\ adder' = NoAdd
  /\ UNCHANGED <<handle, generation, pendingAdd, addedTo, addStatus, stackSide,
                 radioSide, peerSide, callbacks, threads, toldVars, asks>>

\* The stack has registered a service, or not.  The framework reports it if it
\* holds a pending service, which need not be this one.
StackAnswers ==
  /\ radio
  /\ \E one \in registering : \E ok \in BOOLEAN :
       /\ registering' = registering \ {one}
       /\ onStack' = IF ok THEN onStack \cup {one} ELSE onStack
       /\ one[1] = handle
       /\ framework' = NoAdd
       /\ IF framework = NoAdd THEN UNCHANGED callbacks
          ELSE Post(<<"added", handle, IF ok THEN "success" ELSE "failure">>)
  /\ UNCHANGED <<hostVars, radioSide, peerSide, threads, toldVars, asks>>

BinderRuns(kind) ==
  /\ binderAt = "idle" /\ callbacks # <<>>
  /\ Head(callbacks)[1] = kind
  /\ callbacks' = Tail(callbacks)

\* onServiceAdded(): for the live server it answers the add that holds the slot.
OnServiceAdded ==
  /\ BinderRuns("added")
  /\ IF Head(callbacks)[2] = generation
     THEN /\ pendingAdd' = NoAdd
          /\ addStatus' = IF pendingAdd = NoAdd THEN addStatus
                          ELSE [addStatus EXCEPT ![pendingAdd] = Head(callbacks)[3]]
     ELSE UNCHANGED <<pendingAdd, addStatus>>
  /\ UNCHANGED <<handle, generation, adder, addPc, addedTo, table, stackSide, radioSide,
                 peerSide, threads, toldVars, asks>>

----------------------------------------------------------------------------
(* The central, and its link.                                               *)

\* Not before the receiver has heard that the adapter went off.
CentralConnects ==
  /\ radio /\ handle # NoServer
  /\ ~peerLinked /\ receiverAt = "idle"
  /\ linkEvents < MaxEvents
  /\ peerLinked' = TRUE
  /\ linkEvents' = linkEvents + 1
  /\ Post(<<"up">>)
  /\ UNCHANGED <<hostVars, stackSide, radioSide, connectedTo, subs, threads, toldVars, asks>>

CentralDisconnects ==
  /\ peerLinked
  /\ peerLinked' = FALSE
  /\ awaits' = {}
  /\ Post(<<"down">>)
  /\ UNCHANGED <<hostVars, stackSide, radioSide, connectedTo, subs, linkEvents, threads,
                 toldVars, ask>>

CentralWritesCccd ==
  /\ peerLinked
  /\ linkEvents < MaxEvents
  /\ linkEvents' = linkEvents + 1
  /\ \E wanted \in BOOLEAN : Post(<<"cccd", wanted>>)
  /\ UNCHANGED <<hostVars, stackSide, radioSide, peerLinked, connectedTo, subs, threads, toldVars,
                 asks>>

CentralAsks(r) ==
  /\ peerLinked
  /\ ask[r] = "none"
  /\ ask' = [ask EXCEPT ![r] = "posted"]
  /\ awaits' = awaits \cup {r}
  /\ Post(<<"ask", r>>)
  /\ UNCHANGED <<hostVars, stackSide, radioSide, peerSide, threads, toldVars>>

OnConnected ==
  /\ BinderRuns("up")
  /\ connectedTo' = TRUE
  /\ UNCHANGED <<hostVars, stackSide, radioSide, peerLinked, subs, linkEvents, threads, toldVars, asks>>

\* Whoever takes the device out of connectedDevices reports it.
OnDisconnected ==
  /\ BinderRuns("down")
  /\ connectedTo' = FALSE
  /\ binderAt' = IF connectedTo THEN "removing" ELSE "idle"
  /\ UNCHANGED <<hostVars, stackSide, radioSide, peerLinked, subs, linkEvents, receiverAt, toldVars,
                 asks>>

\* reportDisconnected(): the device's subscriptions are taken out of the table, ...
BinderRemoves ==
  /\ binderAt = "removing"
  /\ subs' = FALSE
  /\ binderAt' = IF subs THEN "reportingGone" ELSE "idle"
  /\ UNCHANGED <<hostVars, stackSide, radioSide, peerLinked, connectedTo, linkEvents, callbacks,
                 receiverAt, toldVars, asks>>

\* ... and reported ended.
BinderReportsGone ==
  /\ binderAt = "reportingGone"
  /\ toldSub' = FALSE
  /\ binderAt' = "idle"
  /\ UNCHANGED <<hostVars, stackSide, radioSide, peerSide, callbacks, receiverAt,
                 toldPower, asks>>

Writing(wanted) == IF wanted THEN "subscribing" ELSE "unsubscribing"
Orphaned(wanted) == IF wanted THEN "orphanedOn" ELSE "orphanedOff"

\* onDescriptorWriteRequest: update() finds the device's map, or puts one, ...
OnCccd ==
  /\ BinderRuns("cccd")
  /\ binderAt' = Writing(Head(callbacks)[2])
  /\ UNCHANGED <<hostVars, stackSide, radioSide, peerSide, receiverAt, toldVars, asks>>

\* ... and changes it: nothing, if the map has been taken out meanwhile; ...
CccdUpdates ==
  /\ \E wanted \in BOOLEAN :
       /\ binderAt \in {Writing(wanted), Orphaned(wanted)}
       /\ subs' = IF binderAt = Writing(wanted) THEN wanted ELSE subs
       /\ binderAt' = IF wanted THEN "reportingOn" ELSE "reportingOff"
  /\ UNCHANGED <<hostVars, stackSide, radioSide, peerLinked, connectedTo, linkEvents, callbacks,
                 receiverAt, toldVars, asks>>

\* ... and reports what the central is now.
CccdReports ==
  /\ binderAt \in {"reportingOn", "reportingOff"}
  /\ toldSub' = (binderAt = "reportingOn")
  /\ binderAt' = "idle"
  /\ UNCHANGED <<hostVars, stackSide, radioSide, peerSide, callbacks, receiverAt,
                 toldPower, asks>>
\* A request for a static characteristic is answered there and then ...
OnStaticAsk ==
  /\ BinderRuns("ask")
  /\ LET r == Head(callbacks)[2]
     IN /\ ask' = [ask EXCEPT ![r] = "done"]
        /\ awaits' = IF handle = NoServer THEN awaits ELSE awaits \ {r}
  /\ UNCHANGED <<hostVars, stackSide, radioSide, peerSide, threads, toldVars>>

\* ... and any other goes to the application, with a responder a task waits on.
OnAsk ==
  /\ BinderRuns("ask")
  /\ ask' = [ask EXCEPT ![Head(callbacks)[2]] = "asked"]
  /\ UNCHANGED <<hostVars, stackSide, radioSide, peerSide, threads, toldVars, awaits>>

\* The application uses its responder, or drops it, which sends an error.
AppAnswers(r) ==
  /\ ask[r] = "asked"
  /\ \E verdict \in {"answered", "refused"} : ask' = [ask EXCEPT ![r] = verdict]
  /\ UNCHANGED <<hostVars, stackSide, radioSide, peerSide, callbacks, threads, toldVars,
                 awaits>>

\* Mutant of TaskResponds: only a value is passed on.
TaskRespondsOk(r) ==
  /\ ask[r] \in {"answered", "refused"}
  /\ ask' = [ask EXCEPT ![r] = "done"]
  /\ awaits' = IF ask[r] = "answered" /\ connectedTo /\ handle # NoServer
               THEN awaits \ {r} ELSE awaits
  /\ UNCHANGED <<hostVars, stackSide, radioSide, peerSide, callbacks, threads, toldVars>>

\* The task passes on what it is sent, to a central still connected.
TaskResponds(r) ==
  /\ ask[r] \in {"answered", "refused"}
  /\ ask' = [ask EXCEPT ![r] = "done"]
  /\ awaits' = IF connectedTo /\ handle # NoServer THEN awaits \ {r} ELSE awaits
  /\ UNCHANGED <<hostVars, stackSide, radioSide, peerSide, callbacks, threads, toldVars>>

----------------------------------------------------------------------------
(* The adapter.  The stack drops every link and registration; the callback  *)
(* of a lost link may still come.  What the stack posted of a link and its  *)
(* CCCD before it went down has reached the binder thread by then, whose    *)
(* last callback may still be running.                                      *)

AdapterGoesOff ==
  /\ radio /\ receiverAt = "idle"
  /\ \A i \in DOMAIN callbacks : callbacks[i][1] \notin {"up", "cccd"}
  /\ powerOffs < MaxOffs
  /\ radio' = FALSE /\ powerOffs' = powerOffs + 1
  /\ peerLinked' = FALSE /\ awaits' = {}
  /\ framework' = NoAdd /\ registering' = {} /\ onStack' = {}
  /\ receiverAt' = "resetting"
  /\ \/ peerLinked /\ Post(<<"down">>)
     \/ UNCHANGED callbacks
  /\ UNCHANGED <<hostVars, connectedTo, subs, linkEvents, binderAt, toldVars, ask>>

\* reset(): the server is closed, and the add that waits on it abandoned.
ReceiverResets ==
  /\ receiverAt = "resetting"
  /\ receiverAt' = "taking"
  /\ handle' = NoServer /\ generation' = generation + 1
  /\ pendingAdd' = NoAdd
  /\ addStatus' = IF pendingAdd = NoAdd THEN addStatus
                  ELSE [addStatus EXCEPT ![pendingAdd] = "abandoned"]
  /\ table' = {}
  /\ UNCHANGED <<adder, addPc, addedTo, stackSide, radioSide, peerSide, callbacks,
                 binderAt, toldVars, asks>>

ReceiverTakesDevice ==
  /\ receiverAt = "taking"
  /\ connectedTo' = FALSE
  /\ receiverAt' = IF connectedTo THEN "removing" ELSE "reportingOff"
  /\ UNCHANGED <<hostVars, stackSide, radioSide, peerLinked, subs, linkEvents, callbacks, binderAt,
                 toldVars, asks>>

\* A CCCD write that has found the device's map changes one no longer in the table.
ReceiverUnsubscribes ==
  /\ receiverAt = "removing"
  /\ subs' = FALSE
  /\ binderAt' = CASE binderAt = Writing(TRUE) -> Orphaned(TRUE)
                   [] binderAt = Writing(FALSE) -> Orphaned(FALSE)
                   [] OTHER -> binderAt
  /\ receiverAt' = IF subs THEN "reportingGone" ELSE "reportingOff"
  /\ UNCHANGED <<hostVars, stackSide, radioSide, peerLinked, connectedTo, linkEvents, callbacks,
                 toldVars, asks>>

ReceiverReportsGone ==
  /\ receiverAt = "reportingGone"
  /\ toldSub' = FALSE
  /\ receiverAt' = "reportingOff"
  /\ UNCHANGED <<hostVars, stackSide, radioSide, peerSide, callbacks, binderAt,
                 toldPower, asks>>

ReceiverReportsOff ==
  /\ receiverAt = "reportingOff"
  /\ toldPower' = FALSE
  /\ receiverAt' = "idle"
  /\ UNCHANGED <<hostVars, stackSide, radioSide, peerSide, callbacks, binderAt,
                 toldSub, asks>>

AdapterComesOn ==
  /\ ~radio /\ receiverAt = "idle"
  /\ radio' = TRUE
  /\ toldPower' = TRUE
  /\ UNCHANGED <<hostVars, stackSide, powerOffs, peerSide, callbacks, threads, toldSub, asks>>

GattServerNext ==
  \/ \E a \in Adds : \/ AddFindsBusy(a) \/ AddFindsNoServer(a) \/ AddTakesSlot(a)
                     \/ AddReachesStack(a) \/ AddRefused(a) \/ AddTimesOut(a)
                     \/ AddFails(a) \/ AddPublishes(a)
  \/ StackAnswers \/ OnServiceAdded
  \/ CentralConnects \/ CentralDisconnects \/ CentralWritesCccd
  \/ \E r \in Asks : CentralAsks(r) \/ AppAnswers(r) \/ TaskResponds(r)
  \/ OnConnected \/ OnDisconnected \/ BinderRemoves \/ BinderReportsGone
  \/ OnCccd \/ CccdUpdates \/ CccdReports \/ OnStaticAsk \/ OnAsk
  \/ AdapterGoesOff \/ ReceiverResets \/ ReceiverTakesDevice \/ ReceiverUnsubscribes
  \/ ReceiverReportsGone \/ ReceiverReportsOff \/ AdapterComesOn

GattServerSpec == GattServerInit /\ [][GattServerNext]_gattServerVars

----------------------------------------------------------------------------
(* Properties.                                                              *)

\* The callbacks the stack may post, up to the server of generation g.
CallbackTypes(g) ==
  ({"added"} \X (1..g) \X {"success", "failure"}) \cup ({"cccd"} \X BOOLEAN)
    \cup ({"ask"} \X Asks) \cup {<<"up">>, <<"down">>}

\* What a stack may be registering, or has, up to that server.
Registrations(g) == (1..g) \X Adds

\* Every variable has its type.
GattServerTypeOK ==
  /\ handle \in 0..generation /\ generation \in Nat
  /\ pendingAdd \in Adds \cup {NoAdd} /\ adder \in Adds \cup {NoAdd}
  /\ addPc \in [Adds -> {"idle", "slot", "waiting", "busy", "unavailable", "rejected",
                         "timedOut", "ok"}]
  /\ addedTo \in [Adds -> 0..generation]
  /\ addStatus \in [Adds -> {"none", "success", "failure", "abandoned"}]
  /\ table \subseteq Adds
  /\ framework \in Adds \cup {NoAdd}
  /\ registering \subseteq Registrations(generation)
  /\ onStack \subseteq Registrations(generation)
  /\ radio \in BOOLEAN /\ powerOffs \in 0..MaxOffs
  /\ peerLinked \in BOOLEAN /\ connectedTo \in BOOLEAN /\ subs \in BOOLEAN
  /\ linkEvents \in 0..MaxEvents
  /\ callbacks \in Seq(CallbackTypes(generation))
  /\ binderAt \in {"idle", "removing", "reportingGone", "subscribing", "unsubscribing",
                   "orphanedOn", "orphanedOff", "reportingOn",
                   "reportingOff"}
  /\ receiverAt \in {"idle", "resetting", "taking", "removing", "reportingGone",
                     "reportingOff"}
  /\ toldSub \in BOOLEAN /\ toldPower \in BOOLEAN
  /\ ask \in [Asks -> {"none", "posted", "asked", "answered", "refused", "done"}]
  /\ awaits \subseteq Asks

\* A service in the table was registered by the stack on the server that is open, from
\* a power cycle's reset() on: no callback of a closed server, of an add that gave up,
\* or of another service publishes one that is not there.
TableIsServed ==
  \A a \in table : \/ <<handle, a>> \in onStack
                   \/ ~radio /\ receiverAt = "resetting"

\* While a central waits for a response there is someone left to send it one: the
\* callback that is to come, the application's responder, or the task behind it.
RequestsAreOwed == \A r \in awaits : ask[r] # "done"

\* "By the time `powered: false` arrives, every backend has already dropped every
\* connected central, reporting each subscription it held": none is left subscribed
\* as the application was told.  (The code does not hold to it.)
OffMeansUnsubscribed == ~toldPower => ~toldSub
=============================================================================
