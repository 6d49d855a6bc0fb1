-------------------------- MODULE MCAndroidGattOps --------------------------
(* Instances of AndroidGattOps for TLC: CCCD writes of one characteristic    *)
(* that contend for its key, and service discoveries beside them.            *)
EXTENDS AndroidGattOps

CONSTANTS cccdKey, servicesKey

AnyDemand == [Calls -> {cccdKey, servicesKey}]
=============================================================================
