------------------------- MODULE ConnectionContract -------------------------
(***************************************************************************)
(* What an application is promised about one device address, whatever the *)
(* platform does underneath: the attempts it makes are numbered, at most   *)
(* one is current, each is reported connected at most once and then        *)
(* disconnected at most once, and "connected" is only said, and only       *)
(* stays true, while the native client of that very attempt is open.       *)
(* A client is opened once, closed once, and never closed under a          *)
(* connection that still counts as up.                                     *)
(***************************************************************************)
EXTENDS Naturals, Sequences

CONSTANT MaxGen     \* bound: how many attempts are ever begun

VARIABLES
  begun,     \* the newest attempt begun so far
  holder,    \* the attempt the address belongs to, 0 when none
  waiting,   \* its connect() has no answer yet
  closing,   \* a disconnect() has been asked of it
  told,      \* the events about each attempt
  client     \* the native client of each attempt

vars == <<begun, holder, waiting, closing, told, client>>

Init ==
  /\ begun = 0
  /\ holder = 0
  /\ waiting = FALSE
  /\ closing = FALSE
  /\ told = [g \in 1..MaxGen |-> <<>>]
  /\ client = [g \in 1..MaxGen |-> "none"]

\* A new attempt takes the address, from nobody or from a connected one.
Start ==
  /\ begun < MaxGen
  /\ ~waiting /\ ~closing
  /\ begun' = begun + 1
  /\ holder' = begun + 1
  /\ waiting' = TRUE
  /\ UNCHANGED <<closing, told, client>>

AskClose ==
  /\ holder # 0
  /\ closing' = TRUE
  /\ UNCHANGED <<begun, holder, waiting, told, client>>

OpenClient(g) ==
  /\ client[g] = "none"
  /\ client' = [client EXCEPT ![g] = "open"]
  /\ UNCHANGED <<begun, holder, waiting, closing, told>>

\* A client may go by itself only if its attempt is not reported connected.
CloseClient(g) ==
  /\ client[g] = "open"
  /\ holder = g => waiting
  /\ client' = [client EXCEPT ![g] = "closed"]
  /\ UNCHANGED <<begun, holder, waiting, closing, told>>

Connected ==
  /\ holder # 0
  /\ waiting /\ ~closing
  /\ client[holder] = "open"
  /\ waiting' = FALSE
  /\ told' = [told EXCEPT ![holder] = Append(@, "up")]
  /\ UNCHANGED <<begun, holder, closing, client>>

\* The attempt ends, and its client may be closed in the same step.
Disconnected ==
  /\ holder # 0
  /\ holder' = 0
  /\ waiting' = FALSE
  /\ closing' = FALSE
  /\ told' = [told EXCEPT ![holder] = Append(@, "down")]
  /\ \/ UNCHANGED client
     \/ /\ client[holder] = "open"
        /\ client' = [client EXCEPT ![holder] = "closed"]
  /\ UNCHANGED begun

Next ==
  \/ Start \/ AskClose \/ Connected \/ Disconnected
  \/ \E g \in 1..MaxGen : OpenClient(g) \/ CloseClient(g)

Spec == Init /\ [][Next]_vars
=============================================================================
