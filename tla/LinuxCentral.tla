---------------------------- MODULE LinuxCentral ----------------------------
(***************************************************************************)
(* The BlueZ central and one device (platform/linux/central.rs): connect() *)
(* and disconnect(), the three observers that may find the link down - the *)
(* watcher a connect spawns, the discovery loop a scan spawns, and a       *)
(* disconnect() itself - and the reader tasks of one characteristic.       *)
(*                                                                         *)
(* A step is what happens between two awaits, cut once more where one lock *)
(* is let go and another task may get in before the next.  A task is named *)
(* by the call that spawned it.  Aborting the discovery loop is one step,  *)
(* taken when the loop is at an await.                                     *)
(***************************************************************************)
EXTENDS Integers, FiniteSets

CONSTANTS
  Connects,     \* calls of connect, each made once; also the watchers they spawn
  Scans,        \* calls of start_scan, likewise; also their discovery loops
  Hangups,      \* calls of disconnect
  Subs,         \* calls of subscribe_characteristic; also their readers
  Nobody        \* no task

Observers == Connects \cup Scans \cup Hangups

ASSUME LinuxCentralAssumption ==
  /\ \A S \in {Connects, Scans, Hangups, Subs} : IsFiniteSet(S) /\ Nobody \notin S
  /\ Connects \cap Scans = {} /\ Connects \cap Hangups = {} /\ Scans \cap Hangups = {}

VARIABLES
  link,         \* BlueZ: the device is connected
  pending,      \* pending_connects holds the device
  connected,    \* so does `connected`
  connectPc,    \* where each connect is
  observer,     \* where each observer is
  news,         \* observers with a Connected(false), or a DeviceRemoved, to read
  watcher,      \* the connection_tasks entry: whose watcher, or Nobody
  scanPc, scanTask, \* where each scan is; scan_task
  subPc,        \* where each subscribe is
  reader,       \* the notify_tasks entry: whose reader, or Nobody
  reading,      \* the reader tasks that live
  established, reported \* history: times `connected` took the device, and times
                \* DeviceDisconnected said it left

linkVars    == <<link, news>>
connectVars == <<pending, connectPc, watcher>>
scanVars    == <<scanPc, scanTask>>
subVars     == <<subPc, reader, reading>>
countVars   == <<connected, established, reported>>
centralVars == <<linkVars, connectVars, scanVars, subVars, countVars, observer>>

CentralInit ==
  /\ link = FALSE /\ pending = FALSE /\ connected = FALSE
  /\ connectPc = [c \in Connects |-> "idle"]
  /\ observer = [o \in Observers |-> "none"]
  /\ news = {}
  /\ watcher = Nobody
  /\ scanPc = [s \in Scans |-> "idle"]
  /\ scanTask = Nobody
  /\ subPc = [u \in Subs |-> "idle"]
  /\ reader = Nobody
  /\ reading = {}
  /\ established = 0 /\ reported = 0

SetConnect(c, pc) == connectPc' = [connectPc EXCEPT ![c] = pc]
SetScan(s, pc)    == scanPc' = [scanPc EXCEPT ![s] = pc]
SetSub(u, pc)     == subPc' = [subPc EXCEPT ![u] = pc]
Observe(o, pc)    == observer' = [observer EXCEPT ![o] = pc]

\* Where abort() ends a task: it is at an await.
AtAwait(o) == observer[o] \in {"starting", "watching", "asking"}

\* `observer` with the task of o aborted, if there is one.
Aborted(o) == IF o # Nobody /\ AtAwait(o) THEN [observer EXCEPT ![o] = "over"]
                                          ELSE observer

\* BlueZ takes the link down: the watchers that have subscribed will read of it,
\* and the readers' sockets close.
LinkFalls ==
  /\ link' = FALSE
  /\ news' = news \cup {c \in Connects : observer[c] = "watching"}

----------------------------------------------------------------------------
(* connect().                                                               *)

\* Refused with ConnectInFlight while another holds the device.
Connect(c) ==
  /\ connectPc[c] = "idle"
  /\ IF pending THEN SetConnect(c, "over") ELSE SetConnect(c, "dialing")
  /\ pending' = TRUE
  /\ UNCHANGED <<watcher, linkVars, scanVars, subVars, countVars, observer>>

\* Device::connect() returns Ok, at once if the link was up.
Dialed(c) ==
  /\ connectPc[c] = "dialing"
  /\ SetConnect(c, "linked")
  /\ link' = TRUE
  /\ UNCHANGED <<pending, watcher, news, scanVars, subVars, countVars, observer>>

DialFails(c) ==
  /\ connectPc[c] = "dialing"
  /\ SetConnect(c, "over")
  /\ pending' = FALSE
  /\ UNCHANGED <<watcher, linkVars, scanVars, subVars, countVars, observer>>

\* The timeout passes: BlueZ, which may have connected by now, is told to let go,
\* and only then is the timeout reported and the device let go.
TimesOut(c) ==
  /\ connectPc[c] = "dialing"
  /\ SetConnect(c, "abandoning")
  /\ link' \in {link, TRUE}
  /\ UNCHANGED <<pending, watcher, news, scanVars, subVars, countVars, observer>>

Abandoned(c) ==
  /\ connectPc[c] = "abandoning"
  /\ SetConnect(c, "over")
  /\ pending' = FALSE
  /\ \/ LinkFalls
     \/ UNCHANGED linkVars \* disconnect() failed
  /\ UNCHANGED <<watcher, scanVars, subVars, countVars, observer>>

\* The caller drops the future at an await, which BlueZ does not hear of.
ConnectDropped(c) ==
  /\ connectPc[c] \in {"dialing", "abandoning"}
  /\ SetConnect(c, "dropped")
  /\ link' \in {link, TRUE}
  /\ UNCHANGED <<pending, watcher, news, scanVars, subVars, countVars, observer>>

Track(c) ==
  /\ connectPc[c] = "linked"
  /\ SetConnect(c, "tracked")
  /\ connected' = TRUE
  /\ established' = established + IF connected THEN 0 ELSE 1
  /\ UNCHANGED <<pending, watcher, reported, linkVars, scanVars, subVars, observer>>

\* spawn_connection_watcher(): the task runs before it is in the map.
SpawnWatcher(c) ==
  /\ connectPc[c] = "tracked"
  /\ SetConnect(c, "spawned")
  /\ Observe(c, "starting")
  /\ UNCHANGED <<pending, watcher, linkVars, scanVars, subVars, countVars>>

\* Mutant of KeepWatcher: the watcher replaced is only dropped, and runs on.
KeepBoth(c) ==
  /\ connectPc[c] = "spawned"
  /\ SetConnect(c, "over")
  /\ watcher' = c
  /\ pending' = FALSE
  /\ UNCHANGED <<linkVars, scanVars, subVars, countVars, observer>>

\* The watcher it replaces is aborted; DeviceConnected; the device is let go.
KeepWatcher(c) ==
  /\ connectPc[c] = "spawned"
  /\ SetConnect(c, "over")
  /\ watcher' = c
  /\ observer' = Aborted(watcher)
  /\ pending' = FALSE
  /\ UNCHANGED <<linkVars, scanVars, subVars, countVars>>

----------------------------------------------------------------------------
(* What an observer does.                                                   *)

\* The watcher's subscription replays nothing; it may be refused.
WatcherSubscribes(c) ==
  /\ observer[c] = "starting"
  /\ \/ Observe(c, "watching")
     \/ Observe(c, "over")
  /\ UNCHANGED <<linkVars, connectVars, scanVars, subVars, countVars>>

\* It reads of the link down, and awaits involuntary_cause().
WatcherReads(c) ==
  /\ observer[c] = "watching"
  /\ c \in news
  /\ news' = news \ {c}
  /\ Observe(c, "asking")
  /\ UNCHANGED <<link, connectVars, scanVars, subVars, countVars>>

\* The loop reads of DeviceRemoved: it aborts the watcher, and asks only if the
\* device was connected.
LoopReads(s) ==
  /\ observer[s] = "watching"
  /\ s \in news
  /\ news' = news \ {s}
  /\ watcher' = Nobody
  /\ observer' = [Aborted(watcher) EXCEPT ![s] = IF connected THEN "asking"
                                                              ELSE "watching"]
  /\ UNCHANGED <<link, pending, connectPc, scanVars, subVars, countVars>>

CauseKnown(o) ==
  /\ observer[o] = "asking"
  /\ Observe(o, "emitting")
  /\ UNCHANGED <<linkVars, connectVars, scanVars, subVars, countVars>>

Finished(o) == IF o \in Scans THEN "watching" ELSE "over"

\* Mutant of EmitDisconnect: whoever sees the link down says so.
EmitDisconnectAnyway(o) ==
  /\ observer[o] = "emitting"
  /\ connected' = FALSE
  /\ Observe(o, "closing")
  /\ UNCHANGED <<established, reported, linkVars, connectVars, scanVars, subVars>>

\* emit_disconnect(): the first to take the device out of `connected` ...
EmitDisconnect(o) ==
  /\ observer[o] = "emitting"
  /\ connected' = FALSE
  /\ Observe(o, IF connected THEN "closing" ELSE Finished(o))
  /\ UNCHANGED <<established, reported, linkVars, connectVars, scanVars, subVars>>

\* ... drains the readers, and reports.
Close(o) ==
  /\ observer[o] = "closing"
  /\ Observe(o, Finished(o))
  /\ reported' = reported + 1
  /\ reader' = Nobody
  /\ reading' = reading \ {reader}
  /\ UNCHANGED <<connected, established, linkVars, connectVars, scanVars, subPc>>

----------------------------------------------------------------------------
(* disconnect().                                                            *)

\* It stops the watcher before it asks BlueZ.
Hangup(h) ==
  /\ observer[h] = "none"
  /\ watcher' = Nobody
  /\ observer' = [Aborted(watcher) EXCEPT ![h] = "hanging up"]
  /\ UNCHANGED <<pending, connectPc, linkVars, scanVars, subVars, countVars>>

HungUp(h) ==
  /\ observer[h] = "hanging up"
  /\ Observe(h, "emitting")
  /\ LinkFalls
  /\ UNCHANGED <<connectVars, scanVars, subVars, countVars>>

\* BlueZ refuses, or the caller drops the future.
HangupFails(h) ==
  /\ observer[h] = "hanging up"
  /\ Observe(h, "over")
  /\ UNCHANGED <<linkVars, connectVars, scanVars, subVars, countVars>>

----------------------------------------------------------------------------
(* start_scan() and stop_scan().                                            *)

\* abort_scan_task(), which waits until the loop is gone.
AbortLoop ==
  /\ scanTask # Nobody => AtAwait(scanTask)
  /\ observer' = Aborted(scanTask)
  /\ news' = news \ {scanTask}
  /\ scanTask' = Nobody

StartScan(s) ==
  /\ scanPc[s] = "idle"
  /\ AbortLoop
  /\ SetScan(s, "evicting")
  /\ UNCHANGED <<link, connectVars, subVars, countVars>>

\* evict_stale_cache_entries() keeps a device that is connected, paired or trusted,
\* or is gone, ...
Spare(s) ==
  /\ scanPc[s] = "evicting"
  /\ SetScan(s, "discovering")
  /\ UNCHANGED <<scanTask, linkVars, connectVars, subVars, countVars, observer>>

\* ... and removes one that was not, when it asked.
Condemn(s) ==
  /\ scanPc[s] = "evicting"
  /\ ~link
  /\ SetScan(s, "removing")
  /\ UNCHANGED <<scanTask, linkVars, connectVars, subVars, countVars, observer>>

Evict(s) ==
  /\ scanPc[s] = "removing"
  /\ SetScan(s, "discovering")
  /\ LinkFalls
  /\ UNCHANGED <<scanTask, connectVars, subVars, countVars, observer>>

\* BlueZ begins the discovery, and the loop is spawned ...
Discover(s) ==
  /\ scanPc[s] = "discovering"
  /\ SetScan(s, "looking")
  /\ Observe(s, "watching")
  /\ UNCHANGED <<scanTask, linkVars, connectVars, subVars, countVars>>

\* ... and kept, over whatever was there.
KeepLoop(s) ==
  /\ scanPc[s] = "looking"
  /\ SetScan(s, "over")
  /\ scanTask' = s
  /\ UNCHANGED <<linkVars, connectVars, subVars, countVars, observer>>

\* BlueZ refuses the filter or the discovery, or the caller drops the future.
ScanFails(s) ==
  /\ scanPc[s] \in {"evicting", "removing", "discovering"}
  /\ SetScan(s, "over")
  /\ UNCHANGED <<scanTask, linkVars, connectVars, subVars, countVars, observer>>

StopScan ==
  /\ scanTask # Nobody
  /\ AbortLoop
  /\ UNCHANGED <<link, scanPc, connectVars, subVars, countVars>>

----------------------------------------------------------------------------
(* subscribe_characteristic() and unsubscribe_characteristic().             *)

Subscribe(u) ==
  /\ subPc[u] = "idle"
  /\ SetSub(u, IF reader = Nobody THEN "opening" ELSE "refused")
  /\ UNCHANGED <<reader, reading, linkVars, connectVars, scanVars, countVars, observer>>

\* notify_io() gives a socket, and the reader is spawned.
OpenReader(u) ==
  /\ subPc[u] = "opening"
  /\ link
  /\ SetSub(u, "spawned")
  /\ reading' = reading \cup {u}
  /\ UNCHANGED <<reader, linkVars, connectVars, scanVars, countVars, observer>>

SubFails(u) ==
  /\ subPc[u] = "opening"
  /\ SetSub(u, "refused")
  /\ UNCHANGED <<reader, reading, linkVars, connectVars, scanVars, countVars, observer>>

KeepReader(u) ==
  /\ subPc[u] = "spawned"
  /\ IF reader = Nobody
     THEN SetSub(u, "ok") /\ reader' = u /\ UNCHANGED reading
     ELSE SetSub(u, "refused") /\ reading' = reading \ {u} /\ UNCHANGED reader
  /\ UNCHANGED <<linkVars, connectVars, scanVars, countVars, observer>>

\* Its socket closed with the link.
ReaderEnds(u) ==
  /\ u \in reading
  /\ ~link
  /\ reading' = reading \ {u}
  /\ UNCHANGED <<subPc, reader, linkVars, connectVars, scanVars, countVars, observer>>

Unsubscribe ==
  /\ reader # Nobody
  /\ reader' = Nobody
  /\ reading' = reading \ {reader}
  /\ UNCHANGED <<subPc, linkVars, connectVars, scanVars, countVars, observer>>

----------------------------------------------------------------------------
(* BlueZ.                                                                   *)

LinkLost ==
  /\ link
  /\ LinkFalls
  /\ UNCHANGED <<connectVars, scanVars, subVars, countVars, observer>>

\* It forgets the device, which only a discovery hears of.
DeviceRemoved ==
  /\ ~link
  /\ news' = news \cup {s \in Scans : AtAwait(s)}
  /\ UNCHANGED <<link, connectVars, scanVars, subVars, countVars, observer>>

----------------------------------------------------------------------------
ConnectSteps(c) ==
  \/ Connect(c) \/ Dialed(c) \/ DialFails(c) \/ TimesOut(c) \/ Abandoned(c)
  \/ ConnectDropped(c) \/ Track(c) \/ SpawnWatcher(c) \/ KeepWatcher(c)
  \/ WatcherSubscribes(c) \/ WatcherReads(c)

ScanSteps(s) ==
  \/ StartScan(s) \/ Spare(s) \/ Condemn(s) \/ Evict(s) \/ Discover(s) \/ KeepLoop(s)
  \/ ScanFails(s) \/ LoopReads(s)

SubSteps(u) ==
  \/ Subscribe(u) \/ OpenReader(u) \/ SubFails(u) \/ KeepReader(u) \/ ReaderEnds(u)

CentralNext ==
  \/ \E c \in Connects : ConnectSteps(c)
  \/ \E o \in Observers : CauseKnown(o) \/ EmitDisconnect(o) \/ Close(o)
  \/ \E h \in Hangups : Hangup(h) \/ HungUp(h) \/ HangupFails(h)
  \/ \E s \in Scans : ScanSteps(s)
  \/ \E u \in Subs : SubSteps(u)
  \/ StopScan \/ Unsubscribe \/ LinkLost \/ DeviceRemoved

CentralSpec == CentralInit /\ [][CentralNext]_centralVars

----------------------------------------------------------------------------
(* Properties.                                                              *)

CentralTypeOK ==
  /\ {link, pending, connected} \subseteq BOOLEAN
  /\ connectPc \in [Connects -> {"idle", "dialing", "abandoning", "linked", "tracked",
                                 "spawned", "over", "dropped"}]
  /\ observer \in [Observers -> {"none", "starting", "watching", "asking", "emitting",
                                 "closing", "hanging up", "over"}]
  /\ news \subseteq Connects \cup Scans
  /\ watcher \in Connects \cup {Nobody}
  /\ scanPc \in [Scans -> {"idle", "evicting", "removing", "discovering", "looking",
                           "over"}]
  /\ scanTask \in Scans \cup {Nobody}
  /\ subPc \in [Subs -> {"idle", "opening", "spawned", "ok", "refused"}]
  /\ reader \in Subs \cup {Nobody}
  /\ reading \subseteq Subs
  /\ established \in 0..Cardinality(Connects)
  /\ reported \in 0..established

Closing == {o \in Observers : observer[o] = "closing"}

\* However many observers see one link down - the watcher, the discovery loop and a
\* disconnect() among them - each time the device entered `connected` it leaves
\* it, and is reported, once.
ReportedOnce ==
  established = reported + Cardinality(Closing) + (IF connected THEN 1 ELSE 0)

\* No task outlives the entry that can abort it: a watcher or a reader that may
\* still act is the one in the map, or its call has yet to put it there; so
\* whatever connect, disconnect, scan and subscribe interleave, no old watcher
\* reports over a new link and no second reader steals notifications.
NoStrayTask ==
  /\ \A c \in Connects :
       AtAwait(c) => watcher = c \/ connectPc[c] = "spawned"
  /\ \A u \in reading : reader = u \/ subPc[u] = "spawned"

\* A link that is gone is about to be reported: while the device is in `connected`
\* with no link, some observer has still to read of it or is reporting it, or a
\* call is at work that will find out.
LossIsObserved ==
  connected /\ ~link =>
    \/ \E c \in Connects : connectPc[c] \in {"tracked", "spawned"}
    \/ \E o \in Observers : observer[o] \in {"asking", "emitting", "hanging up"}
    \/ \E o \in news : observer[o] = "watching"
=============================================================================
