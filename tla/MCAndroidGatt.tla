---------------------------- MODULE MCAndroidGatt ----------------------------
(* Instances for TLC of the GATT operations of an Android central, the GATT  *)
(* server of an Android peripheral, and the mock link.  They share no state, *)
(* so a behaviour of the three is one of each: each is explored while the    *)
(* others rest in their initial states.                                      *)
EXTENDS MCAndroidGattOps, AndroidGattServer, MockLink

gattVars == <<vars, gattServerVars, mockVars>>

GattInit == Init /\ GattServerInit /\ MockInit

\* The operations at rest, in one of their initial states.
OpsRest == Init /\ keyOf = [c \in Calls |-> cccdKey]

GattNext ==
  \/ GattServerInit /\ MockInit /\ Next /\ UNCHANGED <<gattServerVars, mockVars>>
  \/ OpsRest /\ MockInit /\ GattServerNext /\ UNCHANGED <<vars, mockVars>>
  \/ OpsRest /\ GattServerInit /\ MockNext /\ UNCHANGED <<vars, gattServerVars>>

\* The operations are those a fair system runs.
GattSpec == GattInit /\ [][GattNext]_gattVars /\ Fairness
=============================================================================
