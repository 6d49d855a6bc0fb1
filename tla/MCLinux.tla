----------------------------- MODULE MCLinux -----------------------------
(* Instances of the two BlueZ components for TLC.  They share no state, so *)
(* a behaviour of both is one of each: each is explored while the other    *)
(* rests in its initial state.                                             *)
EXTENDS LinuxPeripheral, LinuxCentral, TLC

LinuxInit == Init /\ CentralInit

LinuxNext ==
  \/ CentralInit /\ Next /\ UNCHANGED centralVars
  \/ Init /\ CentralNext /\ UNCHANGED vars

LinuxSpec == LinuxInit /\ [][LinuxNext]_<<vars, centralVars>>

CONSTANT MaxCalls

\* Bound: calls made of the central; and whether the peripheral's watcher is
\* subscribed, which matters to the handles alone, varies only while no notify
\* session has begun.
FewCalls ==
  /\ opened = {} \/ watching = "watching"
  /\ Cardinality({c \in Connects : connectPc[c] # "idle"})
    + Cardinality({s \in Scans : scanPc[s] # "idle"})
    + Cardinality({h \in Hangups : observer[h] # "none"})
    + Cardinality({u \in Subs : subPc[u] # "idle"}) <= MaxCalls

\* The calls of the two components have the same names, so that one group of
\* permutations serves both.
Alike == UNION {Permutations(S) : S \in {Starts, Sessions, Sends}}
=============================================================================
