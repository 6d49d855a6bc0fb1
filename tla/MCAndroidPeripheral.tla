------------------------ MODULE MCAndroidPeripheral ------------------------
(* Instances of AndroidAdvertising, AndroidNotify and AndroidL2cap for TLC.  *)
(* They share no state, so a behaviour of the three is one of each: each is  *)
(* explored while the others rest in their initial state.                    *)
EXTENDS MCAndroidAdvertising, AndroidNotify, AndroidL2cap

\* Advertising at rest, in one of its initial states.
AdvertisingRests == AdvertisingInit /\ wants \in Unnamed /\ adapterName = a

PeripheralInit == AdvertisingInit /\ Init /\ L2capInit

PeripheralNext ==
  \/ Init /\ L2capInit /\ AdvertisingNext /\ UNCHANGED <<vars, androidL2capVars>>
  \/ AdvertisingRests /\ L2capInit /\ Next /\ UNCHANGED <<advertisingVars, androidL2capVars>>
  \/ AdvertisingRests /\ Init /\ L2capNext /\ UNCHANGED <<advertisingVars, vars>>

PeripheralSpec ==
  PeripheralInit /\ [][PeripheralNext]_<<advertisingVars, vars, androidL2capVars>>

\* A socket that has only been opened, and at most lost its channel.
JustOpened ==
  {Closed, Registered, Bridged(Registered), DroppedChannel(Bridged(Registered))}

\* Bound: one channel is in use at a time, for channels share nothing once they
\* are open; there are opens or listens, for those share nothing either; and the
\* starts meet at most two of a stop, a rename and a power-off.
FewAtOnce ==
  /\ Cardinality({k \in Sockets : chan[k] \notin JustOpened}) <= 1
  /\ (\A o \in Opens : openPc[o] = "idle") \/ (\A l \in Listens : listenPc[l] = "idle")
  /\ stopPc[stop] = "idle" \/ renamePc[rename] = "idle" \/ offs = 0
=============================================================================
