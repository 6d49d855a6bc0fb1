----------------------------- MODULE MCApple -----------------------------
(* Instances of the four CoreBluetooth components for TLC.  They share no  *)
(* state, so a behaviour of all is one of each: each is explored while     *)
(* the others rest in an initial state.                                    *)
EXTENDS ApplePeripheral, AppleCentral, AttRequests, PowerUp, TLC

AppleInit == Init /\ CentralInit /\ AttInit /\ PowerUpInit

\* The central and PowerUp have several initial states: they rest in these.
CentralRests == CentralInit /\ link = 0

PowerUpRests == PowerUpInit /\ role = "central" /\ restored = "none"

AppleNext ==
  \/ /\ CentralRests /\ AttInit /\ PowerUpRests
     /\ Next /\ UNCHANGED <<centralVars, attVars, powerUpVars>>
  \/ /\ Init /\ AttInit /\ PowerUpRests
     /\ CentralNext /\ UNCHANGED <<vars, attVars, powerUpVars>>
  \/ /\ Init /\ CentralRests /\ PowerUpRests
     /\ AttNext /\ UNCHANGED <<vars, centralVars, powerUpVars>>
  \/ /\ Init /\ CentralRests /\ AttInit
     /\ PowerUpNext /\ UNCHANGED <<vars, centralVars, attVars>>

AppleSpec ==
  AppleInit /\ [][AppleNext]_<<vars, centralVars, attVars, powerUpVars>>

CONSTANT MaxBegun

Begun == {c \in Calls : callPc[c] # "idle"}

\* Bound: connects and writes begun. Operations and writes without response
\* share only the queue and the link, so they are checked apart.
FewCalls ==
  /\ Cardinality(Begun \ Askers) <= MaxBegun
  /\ Begun \cap Askers = {} \/ Begun \cap Writers = {}

\* The calls of the components have the same names, so that one group of
\* permutations serves both.
Alike == UNION {Permutations(S) : S \in {Requests, Notifies, Askers}}
=============================================================================
