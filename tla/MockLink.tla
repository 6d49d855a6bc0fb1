------------------------------- MODULE MockLink -------------------------------
(***************************************************************************)
(* The in-memory backend applications test against (testing.rs): a central *)
(* and a peripheral that share one LinkState under one lock.               *)
(*                                                                         *)
(* A step is what one thread does under the lock, or one send on a         *)
(* channel.  Futures are lazy: what a call does before its future is       *)
(* polled is a step of its own, and so is what it does when polled.        *)
(* There is one service with one characteristic.  What is left out: names, *)
(* MTU, scanning, restoration, the events both sides are sent, which no    *)
(* step reads, and injected errors other than that they fail a call.       *)
(***************************************************************************)
EXTENDS Naturals, Sequences, FiniteSets

CONSTANTS
  Reads,       \* calls of read_characteristic() and write_characteristic()
  Subscribes,  \* calls of subscribe_characteristic()
  Dials,       \* calls of open_l2cap_channel()
  Listeners,   \* calls of l2cap_listener()
  MaxToggles,  \* bound: power-offs of the peripheral, connects and add_service()s
  Nil          \* no call

ASSUME MockAssumption ==
  /\ Nil \notin Reads \cup Subscribes \cup Dials \cup Listeners
  /\ MaxToggles \in Nat

VARIABLES
  mockConnected, served, subscription,  \* LinkState: connected, services, subscriptions
  acceptTx,      \* LinkState.l2cap_psm and l2cap_accept_tx, by the listener
  mockPowered,       \* MockPeripheral.powered
  poweringOff,   \* mock_emit_adapter_state(false) has still to take the link down
  adding,        \* add_service() has found the adapter powered
  readAt,        \* where a read or a write is
  inRequests,    \* the request channel; FALSE in requestsOpen once it is dropped
  requestsOpen,
  subscribeAt,   \* where a subscribe is
  dialAt,        \* where an open is, and the sender it holds
  accepted,      \* a listener's accept stream
  forwarding,    \* values a subscription's forwarder has still to pass on
  toggles        \* power-offs, connects and adds so far

mockLink == <<mockConnected, served, subscription, acceptTx>>
powerVars == <<mockPowered, poweringOff, adding, toggles>>
requestVars == <<readAt, inRequests, requestsOpen>>
channelVars == <<subscribeAt, dialAt, accepted, forwarding>>
mockVars == <<mockLink, powerVars, requestVars, channelVars>>

MockInit ==
  /\ mockConnected = FALSE /\ served = FALSE /\ subscription = Nil /\ acceptTx = Nil
  /\ mockPowered = TRUE /\ poweringOff = FALSE /\ adding = FALSE
  /\ readAt = [r \in Reads |-> "idle"]
  /\ inRequests = <<>> /\ requestsOpen = TRUE
  /\ subscribeAt = [s \in Subscribes |-> "idle"]
  /\ dialAt = [d \in Dials |-> Nil]
  /\ accepted = [l \in Listeners |-> <<>>]
  /\ forwarding = [s \in Subscribes |-> 0]
  /\ toggles = 0

Toggle == toggles < MaxToggles /\ toggles' = toggles + 1

----------------------------------------------------------------------------
(* The connection.  Neither end of it looks at the power.                   *)

MockConnect ==
  /\ Toggle
  /\ mockConnected' = TRUE
  /\ UNCHANGED <<served, subscription, acceptTx, mockPowered, poweringOff, adding,
                 requestVars, channelVars>>

\* Mutant of MockDisconnect: the subscriptions are left to the peripheral.
MockDisconnectOnly ==
  /\ mockConnected' = FALSE
  /\ UNCHANGED <<served, subscription, acceptTx, powerVars, requestVars, channelVars>>

\* disconnect(), simulate_disconnect() and the central's adapter going off.
MockDisconnect ==
  /\ mockConnected' = FALSE
  /\ subscription' = Nil
  /\ UNCHANGED <<served, acceptTx, powerVars, requestVars, channelVars>>

----------------------------------------------------------------------------
(* The peripheral.                                                          *)

\* mock_emit_adapter_state(false): first the flag, ...
PowersOff ==
  /\ mockPowered
  /\ Toggle
  /\ mockPowered' = FALSE
  /\ poweringOff' = TRUE
  /\ UNCHANGED <<mockLink, adding, requestVars, channelVars>>

\* ... then everything the link holds, under the lock.
PowerTakesDown ==
  /\ poweringOff
  /\ mockConnected' = FALSE /\ served' = FALSE
  /\ subscription' = Nil /\ acceptTx' = Nil
  /\ poweringOff' = FALSE
  /\ accepted' = [l \in Listeners |->
                    IF l = acceptTx THEN Append(accepted[l], "unpowered")
                    ELSE accepted[l]]
  /\ UNCHANGED <<mockPowered, adding, toggles, requestVars, subscribeAt, dialAt, forwarding>>

PowersOn ==
  /\ ~mockPowered /\ ~poweringOff
  /\ mockPowered' = TRUE
  /\ UNCHANGED <<mockLink, poweringOff, adding, toggles, requestVars, channelVars>>

\* add_service(): the flag is read, and the lock taken after.
AddChecks ==
  /\ mockPowered /\ ~adding
  /\ Toggle
  /\ adding' = TRUE
  /\ UNCHANGED <<mockLink, mockPowered, poweringOff, requestVars, channelVars>>

AddServes ==
  /\ adding
  /\ adding' = FALSE
  /\ served' = TRUE
  /\ UNCHANGED <<mockConnected, subscription, acceptTx, mockPowered, poweringOff, toggles,
                 requestVars, channelVars>>

\* notify_characteristic(): to the subscription's channel, or nobody.
MockNotify ==
  /\ subscription # Nil
  /\ forwarding[subscription] = 0
  /\ forwarding' = [forwarding EXCEPT ![subscription] = 1]
  /\ UNCHANGED <<mockLink, powerVars, requestVars, subscribeAt, dialAt, accepted>>

\* l2cap_listener(): a second one replaces the first.
MockListens(l) ==
  /\ accepted[l] = <<>> /\ acceptTx # l
  /\ acceptTx' = l
  /\ UNCHANGED <<mockConnected, served, subscription, powerVars, requestVars, channelVars>>

----------------------------------------------------------------------------
(* Reads and writes.                                                        *)

\* The precheck, when the call is made: not connected, no such characteristic or
\* an injected error; or the value is static.
ReadCalled(r) ==
  /\ readAt[r] = "idle"
  /\ \/ readAt' = [readAt EXCEPT ![r] = "returned"]
     \/ mockConnected /\ served /\ readAt' = [readAt EXCEPT ![r] = "checked"]
  /\ UNCHANGED <<mockLink, powerVars, inRequests, requestsOpen, channelVars>>

\* When polled it sends the request and waits for the responder; a request that
\* cannot be sent is dropped, which answers it.
ReadPolled(r) ==
  /\ readAt[r] = "checked"
  /\ IF requestsOpen
     THEN /\ inRequests' = Append(inRequests, r)
          /\ readAt' = [readAt EXCEPT ![r] = "waiting"]
     ELSE readAt' = [readAt EXCEPT ![r] = "answered"] /\ UNCHANGED inRequests
  /\ UNCHANGED <<mockLink, powerVars, requestsOpen, channelVars>>

AppTakes ==
  /\ requestsOpen /\ inRequests # <<>>
  /\ inRequests' = Tail(inRequests)
  /\ readAt' = [readAt EXCEPT ![Head(inRequests)] = "held"]
  /\ UNCHANGED <<mockLink, powerVars, requestsOpen, channelVars>>

\* The application drops the stream it took, and with it the responders in it.
AppCloses ==
  /\ requestsOpen
  /\ requestsOpen' = FALSE
  /\ inRequests' = <<>>
  /\ readAt' = [r \in Reads |-> IF readAt[r] = "waiting" THEN "answered" ELSE readAt[r]]
  /\ UNCHANGED <<mockLink, powerVars, channelVars>>

\* It uses a responder, or drops it.
MockAnswers(r) ==
  /\ readAt[r] = "held"
  /\ readAt' = [readAt EXCEPT ![r] = "answered"]
  /\ UNCHANGED <<mockLink, powerVars, inRequests, requestsOpen, channelVars>>

ReadReturns(r) ==
  /\ readAt[r] = "answered"
  /\ readAt' = [readAt EXCEPT ![r] = "returned"]
  /\ UNCHANGED <<mockLink, powerVars, inRequests, requestsOpen, channelVars>>

----------------------------------------------------------------------------
(* Subscriptions and channels.                                              *)

\* All checks and the insertion are under one lock, when the future is polled.
MockSubscribe(s) ==
  /\ subscribeAt[s] = "idle"
  /\ IF mockConnected /\ served /\ subscription = Nil
     THEN subscription' = s /\ subscribeAt' = [subscribeAt EXCEPT ![s] = "ok"]
     ELSE UNCHANGED subscription /\ subscribeAt' = [subscribeAt EXCEPT ![s] = "failed"]
  /\ UNCHANGED <<mockConnected, served, acceptTx, powerVars, requestVars, dialAt, accepted,
                 forwarding>>

MockUnsubscribe ==
  /\ subscription # Nil
  /\ subscription' = Nil
  /\ UNCHANGED <<mockConnected, served, acceptTx, powerVars, requestVars, channelVars>>

\* The forwarder drains its channel, also after the subscription has gone.
Forwards(s) ==
  /\ forwarding[s] > 0
  /\ forwarding' = [forwarding EXCEPT ![s] = @ - 1]
  /\ UNCHANGED <<mockLink, powerVars, requestVars, subscribeAt, dialAt, accepted>>

\* open_l2cap_channel() clones the listener's sender under the lock, ...
MockDials(d) ==
  /\ dialAt[d] = Nil /\ acceptTx # Nil
  /\ dialAt' = [dialAt EXCEPT ![d] = acceptTx]
  /\ UNCHANGED <<mockLink, powerVars, requestVars, subscribeAt, accepted, forwarding>>

\* ... and sends the peripheral's end after.
MockDialed(d) ==
  /\ dialAt[d] # Nil
  /\ \A l \in Listeners : \A i \in DOMAIN accepted[l] : accepted[l][i] # d
  /\ accepted' = [accepted EXCEPT ![dialAt[d]] = Append(@, d)]
  /\ UNCHANGED <<mockLink, powerVars, requestVars, subscribeAt, dialAt, forwarding>>

MockNext ==
  \/ MockConnect \/ MockDisconnect
  \/ PowersOff \/ PowerTakesDown \/ PowersOn
  \/ AddChecks \/ AddServes \/ MockNotify \/ AppTakes \/ AppCloses \/ MockUnsubscribe
  \/ \E l \in Listeners : MockListens(l)
  \/ \E r \in Reads : ReadCalled(r) \/ ReadPolled(r) \/ MockAnswers(r) \/ ReadReturns(r)
  \/ \E s \in Subscribes : MockSubscribe(s) \/ Forwards(s)
  \/ \E d \in Dials : MockDials(d) \/ MockDialed(d)

MockSpec == MockInit /\ [][MockNext]_mockVars

----------------------------------------------------------------------------
(* Properties.                                                              *)

\* Every variable has its type.
MockTypeOK ==
  /\ mockConnected \in BOOLEAN /\ served \in BOOLEAN
  /\ subscription \in Subscribes \cup {Nil} /\ acceptTx \in Listeners \cup {Nil}
  /\ mockPowered \in BOOLEAN /\ adding \in BOOLEAN /\ poweringOff \in BOOLEAN
  /\ readAt \in [Reads -> {"idle", "checked", "waiting", "held", "answered", "returned"}]
  /\ inRequests \in Seq(Reads) /\ requestsOpen \in BOOLEAN
  /\ subscribeAt \in [Subscribes -> {"idle", "ok", "failed"}]
  /\ dialAt \in [Dials -> Listeners \cup {Nil}]
  /\ accepted \in [Listeners -> Seq(Dials \cup {"unpowered"})]
  /\ forwarding \in [Subscribes -> 0..1]
  /\ toggles \in 0..MaxToggles

\* A subscription is that of a connected central, whatever took the connection down
\* while the subscribe was on its way, and a second subscribe finds it.
SubscribedIsConnected ==
  subscription # Nil => mockConnected /\ subscribeAt[subscription] = "ok"

=============================================================================
