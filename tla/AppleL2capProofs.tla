--------------------------- MODULE AppleL2capProofs ---------------------------
(***************************************************************************)
(* Proofs about AppleL2cap, for every size of the queues and buffers and   *)
(* any number of chunks either way.                                        *)
(***************************************************************************)
EXTENDS AppleL2cap, TLAPS

(***************************************************************************)
(* The inductive invariant.                                                *)
(***************************************************************************)

\* The counts, without their bounds, and the places.
Counts ==
  /\ wrote \in Nat /\ toTask \in Nat /\ got \in Nat /\ toApp \in Nat
  /\ inq \in Nat /\ outq \in Nat /\ pending \in Nat
  /\ readable \in Nat /\ room \in Nat /\ sent \in Nat /\ credits \in Nat /\ received \in Nat

Places ==
  /\ app \in {"open", "shut", "closed", "dropped"}
  /\ eof \in {"none", "clean", "failed"} /\ reason \in {"none", "closed", "failed"}
  /\ inbound \in {"receiving", "writing", "marking", "over"}
  /\ outbound \in {"reading", "sending", "marking", "over"}
  /\ channel \in {"queued", "live", "gone"}
  /\ reactor \in {"commands", "selecting", "output", "input", "checking", "ending",
                  "failing", "dropping", "asleep"}
  /\ stream \in {"open", "ended", "failed"}

Flags ==
  /\ closeSent \in BOOLEAN /\ closing \in BOOLEAN /\ expired \in BOOLEAN
  /\ ready \in BOOLEAN /\ torn \in BOOLEAN /\ outDone \in BOOLEAN

\* The chunk a task has in its hands.
InHand  == IF inbound = "writing" THEN 1 ELSE 0
OutHand == IF outbound = "sending" THEN 1 ELSE 0

\* Every chunk the peer sent is in one place, as long as the application is there to
\* take it; and every chunk the application wrote, as long as the channel is.
InFlow ==
  /\ got + toApp + InHand + inq + readable <= sent
  /\ app # "dropped" => got + toApp + InHand + inq + readable = sent

OutFlow ==
  /\ received + pending + outq + OutHand + toTask <= wrote
  /\ channel # "gone" => received + pending + outq + OutHand + toTask = wrote
  /\ received + room = credits

Capacity ==
  /\ toTask <= Buffer /\ toApp <= Buffer /\ inq <= Queue /\ outq <= Queue /\ pending <= 1
  /\ wrote <= MaxOut /\ sent <= MaxIn /\ credits <= MaxOut

\* The reactor services a live channel only; whether it is closing does not change
\* in a pass.
PassIsLive ==
  /\ reactor \in {"output", "input", "checking", "ending", "failing", "dropping"}
       => channel = "live"
  /\ reactor = "input" => ~closing

\* The end was asked for by the application.
ClosingAsked == closing \/ closeSent => app \in {"closed", "dropped"}

\* The tasks end for a reason: the inbound one has delivered all it had, ...
InboundOver == inbound = "over" => app = "dropped" \/ (channel = "gone" /\ inq = 0)

\* ... and the outbound one has sent all that was written.
OutboundOver ==
  channel # "gone" =>
    /\ outbound = "over" => toTask = 0 /\ app # "open"
    /\ outDone => outbound = "over" /\ outq = 0

\* Why the channel goes, if the application did not ask for it ...
EndedOrFailed ==
  app \in {"open", "shut"} =>
    /\ reactor = "ending" => readable = 0 /\ stream = "ended"
    /\ reactor = "dropping" \/ channel = "gone"
         => reason = "failed" \/ (readable = 0 /\ stream = "ended")
    /\ reactor # "dropping" /\ channel # "gone" => reason = "none"

\* ... and why it goes, whether it did or not: all is written, or the time or the stream
\* is over, or the input was found abandoned, ...
GoesWhenDone ==
  /\ reactor = "failing" => stream # "open"
  /\ reactor \in {"ending", "dropping"}
       => \/ closing /\ ((outDone /\ pending = 0) \/ expired)
          \/ stream # "open" \/ torn

\* ... which takes a drop: a close() alone leaves the inbound task where it is.
TornByDrop == torn => app = "dropped"

\* What holds of a channel that went so.
GoneForACause ==
  channel = "gone"
    => (closing /\ (received = wrote \/ expired)) \/ stream # "open" \/ torn

AppleInv ==
  /\ Counts /\ Places /\ Flags
  /\ InFlow /\ OutFlow /\ Capacity
  /\ PassIsLive /\ ClosingAsked /\ InboundOver /\ OutboundOver
  /\ EndedOrFailed /\ GoesWhenDone /\ TornByDrop /\ GoneForACause
  /\ CleanEndIsComplete

(***************************************************************************)
(* Each part, action by action.                                            *)
(***************************************************************************)

\* No count goes below zero.
LEMMA CountsStep ==
  ASSUME Counts, Next
  PROVE  Counts'
  <1> USE DEF Counts,
            appVars, duplexVars, taskVars, queueVars, reactorVars, peerVars
  <1>1. CASE Write
    BY <1>1 DEF Write
  <1>2. CASE Read
    BY <1>2 DEF Read
  <1>3. CASE ReadEnd
    BY <1>3 DEF ReadEnd
  <1>4. CASE Shut
    BY <1>4 DEF Shut
  <1>5. CASE Close
    BY <1>5 DEF Close, SetReason
  <1>6. CASE Drop
    BY <1>6 DEF Drop
  <1>7. CASE InReceive
    BY <1>7 DEF InReceive
  <1>8. CASE InWrite
    BY <1>8 DEF InWrite
  <1>9. CASE InMark
    BY <1>9 DEF InMark
  <1>10. CASE OutRead
    BY <1>10 DEF OutRead
  <1>11. CASE OutSend
    BY <1>11 DEF OutSend
  <1>12. CASE OutMark
    BY <1>12 DEF OutMark
  <1>13. CASE DrainCommands
    BY <1>13 DEF DrainCommands
  <1>14. CASE Select
    BY <1>14 DEF Select
  <1>15. CASE OutputFails
    BY <1>15 DEF OutputFails
  <1>16. CASE OutputTakes
    BY <1>16 DEF OutputTakes
  <1>17. CASE OutputWrites
    BY <1>17 DEF OutputWrites
  <1>18. CASE OutputRests
    BY <1>18 DEF OutputRests, AfterOutput
  <1>19. CASE InputMoves
    BY <1>19 DEF InputMoves
  <1>20. CASE InputEnds
    BY <1>20 DEF InputEnds
  <1>21. CASE InputRests
    BY <1>21 DEF InputRests
  <1>22. CASE CheckLinger
    BY <1>22 DEF CheckLinger, LingerFinished
  <1>23. CASE Remove
    BY <1>23 DEF Remove, SetReason
  <1>24. CASE Wake
    BY <1>24 DEF Wake
  <1>25. CASE LingerPasses
    BY <1>25 DEF LingerPasses
  <1>26. CASE PeerSends
    BY <1>26 DEF PeerSends
  <1>27. CASE PeerGivesRoom
    BY <1>27 DEF PeerGivesRoom
  <1>28. CASE StreamEnds
    BY <1>28 DEF StreamEnds
  <1>29. QED BY <1>1, <1>2, <1>3, <1>4, <1>5, <1>6, <1>7, <1>8, <1>9, <1>10, <1>11, <1>12,
                <1>13, <1>14, <1>15, <1>16, <1>17, <1>18, <1>19, <1>20, <1>21, <1>22, <1>23,
                <1>24, <1>25, <1>26, <1>27, <1>28 DEF Next, AppSteps, InboundSteps,
                OutboundSteps, ReactorSteps

\* The places are those named.
LEMMA PlacesStep ==
  ASSUME Places, Next
  PROVE  Places'
  <1> USE DEF Places,
            appVars, duplexVars, taskVars, queueVars, reactorVars, peerVars
  <1>1. CASE Write
    BY <1>1 DEF Write
  <1>2. CASE Read
    BY <1>2 DEF Read
  <1>3. CASE ReadEnd
    BY <1>3 DEF ReadEnd
  <1>4. CASE Shut
    BY <1>4 DEF Shut
  <1>5. CASE Close
    BY <1>5 DEF Close, SetReason
  <1>6. CASE Drop
    BY <1>6 DEF Drop
  <1>7. CASE InReceive
    BY <1>7 DEF InReceive
  <1>8. CASE InWrite
    BY <1>8 DEF InWrite
  <1>9. CASE InMark
    BY <1>9 DEF InMark
  <1>10. CASE OutRead
    BY <1>10 DEF OutRead
  <1>11. CASE OutSend
    BY <1>11 DEF OutSend
  <1>12. CASE OutMark
    BY <1>12 DEF OutMark
  <1>13. CASE DrainCommands
    BY <1>13 DEF DrainCommands
  <1>14. CASE Select
    BY <1>14 DEF Select
  <1>15. CASE OutputFails
    BY <1>15 DEF OutputFails
  <1>16. CASE OutputTakes
    BY <1>16 DEF OutputTakes
  <1>17. CASE OutputWrites
    BY <1>17 DEF OutputWrites
  <1>18. CASE OutputRests
    BY <1>18 DEF OutputRests, AfterOutput
  <1>19. CASE InputMoves
    BY <1>19 DEF InputMoves
  <1>20. CASE InputEnds
    BY <1>20 DEF InputEnds
  <1>21. CASE InputRests
    BY <1>21 DEF InputRests
  <1>22. CASE CheckLinger
    BY <1>22 DEF CheckLinger, LingerFinished
  <1>23. CASE Remove
    BY <1>23 DEF Remove, SetReason
  <1>24. CASE Wake
    BY <1>24 DEF Wake
  <1>25. CASE LingerPasses
    BY <1>25 DEF LingerPasses
  <1>26. CASE PeerSends
    BY <1>26 DEF PeerSends
  <1>27. CASE PeerGivesRoom
    BY <1>27 DEF PeerGivesRoom
  <1>28. CASE StreamEnds
    BY <1>28 DEF StreamEnds
  <1>29. QED BY <1>1, <1>2, <1>3, <1>4, <1>5, <1>6, <1>7, <1>8, <1>9, <1>10, <1>11, <1>12,
                <1>13, <1>14, <1>15, <1>16, <1>17, <1>18, <1>19, <1>20, <1>21, <1>22, <1>23,
                <1>24, <1>25, <1>26, <1>27, <1>28 DEF Next, AppSteps, InboundSteps,
                OutboundSteps, ReactorSteps

\* Flags stay flags.
LEMMA FlagsStep ==
  ASSUME Flags, Next
  PROVE  Flags'
  <1> USE DEF Flags,
            appVars, duplexVars, taskVars, queueVars, reactorVars, peerVars
  <1>1. CASE Write
    BY <1>1 DEF Write
  <1>2. CASE Read
    BY <1>2 DEF Read
  <1>3. CASE ReadEnd
    BY <1>3 DEF ReadEnd
  <1>4. CASE Shut
    BY <1>4 DEF Shut
  <1>5. CASE Close
    BY <1>5 DEF Close, SetReason
  <1>6. CASE Drop
    BY <1>6 DEF Drop
  <1>7. CASE InReceive
    BY <1>7 DEF InReceive
  <1>8. CASE InWrite
    BY <1>8 DEF InWrite
  <1>9. CASE InMark
    BY <1>9 DEF InMark
  <1>10. CASE OutRead
    BY <1>10 DEF OutRead
  <1>11. CASE OutSend
    BY <1>11 DEF OutSend
  <1>12. CASE OutMark
    BY <1>12 DEF OutMark
  <1>13. CASE DrainCommands
    BY <1>13 DEF DrainCommands
  <1>14. CASE Select
    BY <1>14 DEF Select
  <1>15. CASE OutputFails
    BY <1>15 DEF OutputFails
  <1>16. CASE OutputTakes
    BY <1>16 DEF OutputTakes
  <1>17. CASE OutputWrites
    BY <1>17 DEF OutputWrites
  <1>18. CASE OutputRests
    BY <1>18 DEF OutputRests, AfterOutput
  <1>19. CASE InputMoves
    BY <1>19 DEF InputMoves
  <1>20. CASE InputEnds
    BY <1>20 DEF InputEnds
  <1>21. CASE InputRests
    BY <1>21 DEF InputRests
  <1>22. CASE CheckLinger
    BY <1>22 DEF CheckLinger, LingerFinished
  <1>23. CASE Remove
    BY <1>23 DEF Remove, SetReason
  <1>24. CASE Wake
    BY <1>24 DEF Wake
  <1>25. CASE LingerPasses
    BY <1>25 DEF LingerPasses
  <1>26. CASE PeerSends
    BY <1>26 DEF PeerSends
  <1>27. CASE PeerGivesRoom
    BY <1>27 DEF PeerGivesRoom
  <1>28. CASE StreamEnds
    BY <1>28 DEF StreamEnds
  <1>29. QED BY <1>1, <1>2, <1>3, <1>4, <1>5, <1>6, <1>7, <1>8, <1>9, <1>10, <1>11, <1>12,
                <1>13, <1>14, <1>15, <1>16, <1>17, <1>18, <1>19, <1>20, <1>21, <1>22, <1>23,
                <1>24, <1>25, <1>26, <1>27, <1>28 DEF Next, AppSteps, InboundSteps,
                OutboundSteps, ReactorSteps

\* Chunks on their way in move from place to place.
LEMMA InFlowStep ==
  ASSUME Counts, Places, InFlow, Next
  PROVE  InFlow'
  <1> USE DEF Counts, Places, InFlow, InHand,
            appVars, duplexVars, taskVars, queueVars, reactorVars, peerVars
  <1>1. CASE Write
    BY <1>1 DEF Write
  <1>2. CASE Read
    BY <1>2 DEF Read
  <1>3. CASE ReadEnd
    BY <1>3 DEF ReadEnd
  <1>4. CASE Shut
    BY <1>4 DEF Shut
  <1>5. CASE Close
    BY <1>5 DEF Close, SetReason
  <1>6. CASE Drop
    BY <1>6 DEF Drop
  <1>7. CASE InReceive
    BY <1>7 DEF InReceive
  <1>8. CASE InWrite
    BY <1>8 DEF InWrite
  <1>9. CASE InMark
    BY <1>9 DEF InMark
  <1>10. CASE OutRead
    BY <1>10 DEF OutRead
  <1>11. CASE OutSend
    BY <1>11 DEF OutSend
  <1>12. CASE OutMark
    BY <1>12 DEF OutMark
  <1>13. CASE DrainCommands
    BY <1>13 DEF DrainCommands
  <1>14. CASE Select
    BY <1>14 DEF Select
  <1>15. CASE OutputFails
    BY <1>15 DEF OutputFails
  <1>16. CASE OutputTakes
    BY <1>16 DEF OutputTakes
  <1>17. CASE OutputWrites
    BY <1>17 DEF OutputWrites
  <1>18. CASE OutputRests
    BY <1>18 DEF OutputRests, AfterOutput
  <1>19. CASE InputMoves
    BY <1>19 DEF InputMoves
  <1>20. CASE InputEnds
    BY <1>20 DEF InputEnds
  <1>21. CASE InputRests
    BY <1>21 DEF InputRests
  <1>22. CASE CheckLinger
    BY <1>22 DEF CheckLinger, LingerFinished
  <1>23. CASE Remove
    BY <1>23 DEF Remove, SetReason
  <1>24. CASE Wake
    BY <1>24 DEF Wake
  <1>25. CASE LingerPasses
    BY <1>25 DEF LingerPasses
  <1>26. CASE PeerSends
    BY <1>26 DEF PeerSends
  <1>27. CASE PeerGivesRoom
    BY <1>27 DEF PeerGivesRoom
  <1>28. CASE StreamEnds
    BY <1>28 DEF StreamEnds
  <1>29. QED BY <1>1, <1>2, <1>3, <1>4, <1>5, <1>6, <1>7, <1>8, <1>9, <1>10, <1>11, <1>12,
                <1>13, <1>14, <1>15, <1>16, <1>17, <1>18, <1>19, <1>20, <1>21, <1>22, <1>23,
                <1>24, <1>25, <1>26, <1>27, <1>28 DEF Next, AppSteps, InboundSteps,
                OutboundSteps, ReactorSteps

\* So do those on their way out, until the channel goes.
LEMMA OutFlowStep ==
  ASSUME Counts, Places, OutFlow, Next
  PROVE  OutFlow'
  <1> USE DEF Counts, Places, OutFlow, OutHand,
            appVars, duplexVars, taskVars, queueVars, reactorVars, peerVars
  <1>1. CASE Write
    BY <1>1 DEF Write
  <1>2. CASE Read
    BY <1>2 DEF Read
  <1>3. CASE ReadEnd
    BY <1>3 DEF ReadEnd
  <1>4. CASE Shut
    BY <1>4 DEF Shut
  <1>5. CASE Close
    BY <1>5 DEF Close, SetReason
  <1>6. CASE Drop
    BY <1>6 DEF Drop
  <1>7. CASE InReceive
    BY <1>7 DEF InReceive
  <1>8. CASE InWrite
    BY <1>8 DEF InWrite
  <1>9. CASE InMark
    BY <1>9 DEF InMark
  <1>10. CASE OutRead
    BY <1>10 DEF OutRead
  <1>11. CASE OutSend
    BY <1>11 DEF OutSend
  <1>12. CASE OutMark
    BY <1>12 DEF OutMark
  <1>13. CASE DrainCommands
    BY <1>13 DEF DrainCommands
  <1>14. CASE Select
    BY <1>14 DEF Select
  <1>15. CASE OutputFails
    BY <1>15 DEF OutputFails
  <1>16. CASE OutputTakes
    BY <1>16 DEF OutputTakes
  <1>17. CASE OutputWrites
    BY <1>17 DEF OutputWrites
  <1>18. CASE OutputRests
    BY <1>18 DEF OutputRests, AfterOutput
  <1>19. CASE InputMoves
    BY <1>19 DEF InputMoves
  <1>20. CASE InputEnds
    BY <1>20 DEF InputEnds
  <1>21. CASE InputRests
    BY <1>21 DEF InputRests
  <1>22. CASE CheckLinger
    BY <1>22 DEF CheckLinger, LingerFinished
  <1>23. CASE Remove
    BY <1>23 DEF Remove, SetReason
  <1>24. CASE Wake
    BY <1>24 DEF Wake
  <1>25. CASE LingerPasses
    BY <1>25 DEF LingerPasses
  <1>26. CASE PeerSends
    BY <1>26 DEF PeerSends
  <1>27. CASE PeerGivesRoom
    BY <1>27 DEF PeerGivesRoom
  <1>28. CASE StreamEnds
    BY <1>28 DEF StreamEnds
  <1>29. QED BY <1>1, <1>2, <1>3, <1>4, <1>5, <1>6, <1>7, <1>8, <1>9, <1>10, <1>11, <1>12,
                <1>13, <1>14, <1>15, <1>16, <1>17, <1>18, <1>19, <1>20, <1>21, <1>22, <1>23,
                <1>24, <1>25, <1>26, <1>27, <1>28 DEF Next, AppSteps, InboundSteps,
                OutboundSteps, ReactorSteps

\* No queue takes more than it holds.
LEMMA CapacityStep ==
  ASSUME Counts, Capacity, Next
  PROVE  Capacity'
  <1> USE DEF Counts, Capacity,
            appVars, duplexVars, taskVars, queueVars, reactorVars, peerVars
  <1>1. CASE Write
    BY <1>1, AppleL2capAssumption DEF Write
  <1>2. CASE Read
    BY <1>2, AppleL2capAssumption DEF Read
  <1>3. CASE ReadEnd
    BY <1>3, AppleL2capAssumption DEF ReadEnd
  <1>4. CASE Shut
    BY <1>4, AppleL2capAssumption DEF Shut
  <1>5. CASE Close
    BY <1>5, AppleL2capAssumption DEF Close, SetReason
  <1>6. CASE Drop
    BY <1>6, AppleL2capAssumption DEF Drop
  <1>7. CASE InReceive
    BY <1>7, AppleL2capAssumption DEF InReceive
  <1>8. CASE InWrite
    BY <1>8, AppleL2capAssumption DEF InWrite
  <1>9. CASE InMark
    BY <1>9, AppleL2capAssumption DEF InMark
  <1>10. CASE OutRead
    BY <1>10, AppleL2capAssumption DEF OutRead
  <1>11. CASE OutSend
    BY <1>11, AppleL2capAssumption DEF OutSend
  <1>12. CASE OutMark
    BY <1>12, AppleL2capAssumption DEF OutMark
  <1>13. CASE DrainCommands
    BY <1>13, AppleL2capAssumption DEF DrainCommands
  <1>14. CASE Select
    BY <1>14, AppleL2capAssumption DEF Select
  <1>15. CASE OutputFails
    BY <1>15, AppleL2capAssumption DEF OutputFails
  <1>16. CASE OutputTakes
    BY <1>16, AppleL2capAssumption DEF OutputTakes
  <1>17. CASE OutputWrites
    BY <1>17, AppleL2capAssumption DEF OutputWrites
  <1>18. CASE OutputRests
    BY <1>18, AppleL2capAssumption DEF OutputRests, AfterOutput
  <1>19. CASE InputMoves
    BY <1>19, AppleL2capAssumption DEF InputMoves
  <1>20. CASE InputEnds
    BY <1>20, AppleL2capAssumption DEF InputEnds
  <1>21. CASE InputRests
    BY <1>21, AppleL2capAssumption DEF InputRests
  <1>22. CASE CheckLinger
    BY <1>22, AppleL2capAssumption DEF CheckLinger, LingerFinished
  <1>23. CASE Remove
    BY <1>23, AppleL2capAssumption DEF Remove, SetReason
  <1>24. CASE Wake
    BY <1>24, AppleL2capAssumption DEF Wake
  <1>25. CASE LingerPasses
    BY <1>25, AppleL2capAssumption DEF LingerPasses
  <1>26. CASE PeerSends
    BY <1>26, AppleL2capAssumption DEF PeerSends
  <1>27. CASE PeerGivesRoom
    BY <1>27, AppleL2capAssumption DEF PeerGivesRoom
  <1>28. CASE StreamEnds
    BY <1>28, AppleL2capAssumption DEF StreamEnds
  <1>29. QED BY <1>1, <1>2, <1>3, <1>4, <1>5, <1>6, <1>7, <1>8, <1>9, <1>10, <1>11, <1>12,
                <1>13, <1>14, <1>15, <1>16, <1>17, <1>18, <1>19, <1>20, <1>21, <1>22, <1>23,
                <1>24, <1>25, <1>26, <1>27, <1>28 DEF Next, AppSteps, InboundSteps,
                OutboundSteps, ReactorSteps

\* A pass ends when the channel goes, and asks for the end between passes.
LEMMA PassIsLiveStep ==
  ASSUME Places, PassIsLive, Next
  PROVE  PassIsLive'
  <1> USE DEF Places, PassIsLive,
            appVars, duplexVars, taskVars, queueVars, reactorVars, peerVars
  <1>1. CASE Write
    BY <1>1 DEF Write
  <1>2. CASE Read
    BY <1>2 DEF Read
  <1>3. CASE ReadEnd
    BY <1>3 DEF ReadEnd
  <1>4. CASE Shut
    BY <1>4 DEF Shut
  <1>5. CASE Close
    BY <1>5 DEF Close, SetReason
  <1>6. CASE Drop
    BY <1>6 DEF Drop
  <1>7. CASE InReceive
    BY <1>7 DEF InReceive
  <1>8. CASE InWrite
    BY <1>8 DEF InWrite
  <1>9. CASE InMark
    BY <1>9 DEF InMark
  <1>10. CASE OutRead
    BY <1>10 DEF OutRead
  <1>11. CASE OutSend
    BY <1>11 DEF OutSend
  <1>12. CASE OutMark
    BY <1>12 DEF OutMark
  <1>13. CASE DrainCommands
    BY <1>13 DEF DrainCommands
  <1>14. CASE Select
    BY <1>14 DEF Select
  <1>15. CASE OutputFails
    BY <1>15 DEF OutputFails
  <1>16. CASE OutputTakes
    BY <1>16 DEF OutputTakes
  <1>17. CASE OutputWrites
    BY <1>17 DEF OutputWrites
  <1>18. CASE OutputRests
    BY <1>18 DEF OutputRests, AfterOutput
  <1>19. CASE InputMoves
    BY <1>19 DEF InputMoves
  <1>20. CASE InputEnds
    BY <1>20 DEF InputEnds
  <1>21. CASE InputRests
    BY <1>21 DEF InputRests
  <1>22. CASE CheckLinger
    BY <1>22 DEF CheckLinger, LingerFinished
  <1>23. CASE Remove
    BY <1>23 DEF Remove, SetReason
  <1>24. CASE Wake
    BY <1>24 DEF Wake
  <1>25. CASE LingerPasses
    BY <1>25 DEF LingerPasses
  <1>26. CASE PeerSends
    BY <1>26 DEF PeerSends
  <1>27. CASE PeerGivesRoom
    BY <1>27 DEF PeerGivesRoom
  <1>28. CASE StreamEnds
    BY <1>28 DEF StreamEnds
  <1>29. QED BY <1>1, <1>2, <1>3, <1>4, <1>5, <1>6, <1>7, <1>8, <1>9, <1>10, <1>11, <1>12,
                <1>13, <1>14, <1>15, <1>16, <1>17, <1>18, <1>19, <1>20, <1>21, <1>22, <1>23,
                <1>24, <1>25, <1>26, <1>27, <1>28 DEF Next, AppSteps, InboundSteps,
                OutboundSteps, ReactorSteps

\* Only the application asks for the end, once.
LEMMA ClosingAskedStep ==
  ASSUME Places, ClosingAsked, Next
  PROVE  ClosingAsked'
  <1> USE DEF Places, ClosingAsked,
            appVars, duplexVars, taskVars, queueVars, reactorVars, peerVars
  <1>1. CASE Write
    BY <1>1 DEF Write
  <1>2. CASE Read
    BY <1>2 DEF Read
  <1>3. CASE ReadEnd
    BY <1>3 DEF ReadEnd
  <1>4. CASE Shut
    BY <1>4 DEF Shut
  <1>5. CASE Close
    BY <1>5 DEF Close, SetReason
  <1>6. CASE Drop
    BY <1>6 DEF Drop
  <1>7. CASE InReceive
    BY <1>7 DEF InReceive
  <1>8. CASE InWrite
    BY <1>8 DEF InWrite
  <1>9. CASE InMark
    BY <1>9 DEF InMark
  <1>10. CASE OutRead
    BY <1>10 DEF OutRead
  <1>11. CASE OutSend
    BY <1>11 DEF OutSend
  <1>12. CASE OutMark
    BY <1>12 DEF OutMark
  <1>13. CASE DrainCommands
    BY <1>13 DEF DrainCommands
  <1>14. CASE Select
    BY <1>14 DEF Select
  <1>15. CASE OutputFails
    BY <1>15 DEF OutputFails
  <1>16. CASE OutputTakes
    BY <1>16 DEF OutputTakes
  <1>17. CASE OutputWrites
    BY <1>17 DEF OutputWrites
  <1>18. CASE OutputRests
    BY <1>18 DEF OutputRests, AfterOutput
  <1>19. CASE InputMoves
    BY <1>19 DEF InputMoves
  <1>20. CASE InputEnds
    BY <1>20 DEF InputEnds
  <1>21. CASE InputRests
    BY <1>21 DEF InputRests
  <1>22. CASE CheckLinger
    BY <1>22 DEF CheckLinger, LingerFinished
  <1>23. CASE Remove
    BY <1>23 DEF Remove, SetReason
  <1>24. CASE Wake
    BY <1>24 DEF Wake
  <1>25. CASE LingerPasses
    BY <1>25 DEF LingerPasses
  <1>26. CASE PeerSends
    BY <1>26 DEF PeerSends
  <1>27. CASE PeerGivesRoom
    BY <1>27 DEF PeerGivesRoom
  <1>28. CASE StreamEnds
    BY <1>28 DEF StreamEnds
  <1>29. QED BY <1>1, <1>2, <1>3, <1>4, <1>5, <1>6, <1>7, <1>8, <1>9, <1>10, <1>11, <1>12,
                <1>13, <1>14, <1>15, <1>16, <1>17, <1>18, <1>19, <1>20, <1>21, <1>22, <1>23,
                <1>24, <1>25, <1>26, <1>27, <1>28 DEF Next, AppSteps, InboundSteps,
                OutboundSteps, ReactorSteps

\* The inbound task ends with nothing left to deliver.
LEMMA InboundOverStep ==
  ASSUME Counts, Places, PassIsLive, InboundOver, Next
  PROVE  InboundOver'
  <1> USE DEF Counts, Places, PassIsLive, InboundOver,
            appVars, duplexVars, taskVars, queueVars, reactorVars, peerVars
  <1>1. CASE Write
    BY <1>1 DEF Write
  <1>2. CASE Read
    BY <1>2 DEF Read
  <1>3. CASE ReadEnd
    BY <1>3 DEF ReadEnd
  <1>4. CASE Shut
    BY <1>4 DEF Shut
  <1>5. CASE Close
    BY <1>5 DEF Close, SetReason
  <1>6. CASE Drop
    BY <1>6 DEF Drop
  <1>7. CASE InReceive
    BY <1>7 DEF InReceive
  <1>8. CASE InWrite
    BY <1>8 DEF InWrite
  <1>9. CASE InMark
    BY <1>9 DEF InMark
  <1>10. CASE OutRead
    BY <1>10 DEF OutRead
  <1>11. CASE OutSend
    BY <1>11 DEF OutSend
  <1>12. CASE OutMark
    BY <1>12 DEF OutMark
  <1>13. CASE DrainCommands
    BY <1>13 DEF DrainCommands
  <1>14. CASE Select
    BY <1>14 DEF Select
  <1>15. CASE OutputFails
    BY <1>15 DEF OutputFails
  <1>16. CASE OutputTakes
    BY <1>16 DEF OutputTakes
  <1>17. CASE OutputWrites
    BY <1>17 DEF OutputWrites
  <1>18. CASE OutputRests
    BY <1>18 DEF OutputRests, AfterOutput
  <1>19. CASE InputMoves
    BY <1>19 DEF InputMoves
  <1>20. CASE InputEnds
    BY <1>20 DEF InputEnds
  <1>21. CASE InputRests
    BY <1>21 DEF InputRests
  <1>22. CASE CheckLinger
    BY <1>22 DEF CheckLinger, LingerFinished
  <1>23. CASE Remove
    BY <1>23 DEF Remove, SetReason
  <1>24. CASE Wake
    BY <1>24 DEF Wake
  <1>25. CASE LingerPasses
    BY <1>25 DEF LingerPasses
  <1>26. CASE PeerSends
    BY <1>26 DEF PeerSends
  <1>27. CASE PeerGivesRoom
    BY <1>27 DEF PeerGivesRoom
  <1>28. CASE StreamEnds
    BY <1>28 DEF StreamEnds
  <1>29. QED BY <1>1, <1>2, <1>3, <1>4, <1>5, <1>6, <1>7, <1>8, <1>9, <1>10, <1>11, <1>12,
                <1>13, <1>14, <1>15, <1>16, <1>17, <1>18, <1>19, <1>20, <1>21, <1>22, <1>23,
                <1>24, <1>25, <1>26, <1>27, <1>28 DEF Next, AppSteps, InboundSteps,
                OutboundSteps, ReactorSteps

\* The outbound task ends with nothing left to send.
LEMMA OutboundOverStep ==
  ASSUME Counts, Places, OutboundOver, Next
  PROVE  OutboundOver'
  <1> USE DEF Counts, Places, OutboundOver,
            appVars, duplexVars, taskVars, queueVars, reactorVars, peerVars
  <1>1. CASE Write
    BY <1>1 DEF Write
  <1>2. CASE Read
    BY <1>2 DEF Read
  <1>3. CASE ReadEnd
    BY <1>3 DEF ReadEnd
  <1>4. CASE Shut
    BY <1>4 DEF Shut
  <1>5. CASE Close
    BY <1>5 DEF Close, SetReason
  <1>6. CASE Drop
    BY <1>6 DEF Drop
  <1>7. CASE InReceive
    BY <1>7 DEF InReceive
  <1>8. CASE InWrite
    BY <1>8 DEF InWrite
  <1>9. CASE InMark
    BY <1>9 DEF InMark
  <1>10. CASE OutRead
    BY <1>10 DEF OutRead
  <1>11. CASE OutSend
    BY <1>11 DEF OutSend
  <1>12. CASE OutMark
    BY <1>12 DEF OutMark
  <1>13. CASE DrainCommands
    BY <1>13 DEF DrainCommands
  <1>14. CASE Select
    BY <1>14 DEF Select
  <1>15. CASE OutputFails
    BY <1>15 DEF OutputFails
  <1>16. CASE OutputTakes
    BY <1>16 DEF OutputTakes
  <1>17. CASE OutputWrites
    BY <1>17 DEF OutputWrites
  <1>18. CASE OutputRests
    <2>1. /\ UNCHANGED <<channel, outbound, toTask, app, outq>>
          /\ outDone' => outDone \/ (pending = 0 /\ outbound = "over")
          /\ IF pending = 1 THEN room = 0 ELSE outq = 0
      BY <1>18, Zenon DEF OutputRests
    <2>2. outDone' => outDone \/ (outbound = "over" /\ outq = 0)
      BY <2>1
    <2>3. QED BY <2>1, <2>2
  <1>19. CASE InputMoves
    BY <1>19 DEF InputMoves
  <1>20. CASE InputEnds
    BY <1>20 DEF InputEnds
  <1>21. CASE InputRests
    BY <1>21 DEF InputRests
  <1>22. CASE CheckLinger
    BY <1>22 DEF CheckLinger, LingerFinished
  <1>23. CASE Remove
    BY <1>23 DEF Remove, SetReason
  <1>24. CASE Wake
    BY <1>24 DEF Wake
  <1>25. CASE LingerPasses
    BY <1>25 DEF LingerPasses
  <1>26. CASE PeerSends
    BY <1>26 DEF PeerSends
  <1>27. CASE PeerGivesRoom
    BY <1>27 DEF PeerGivesRoom
  <1>28. CASE StreamEnds
    BY <1>28 DEF StreamEnds
  <1>29. QED BY <1>1, <1>2, <1>3, <1>4, <1>5, <1>6, <1>7, <1>8, <1>9, <1>10, <1>11, <1>12,
                <1>13, <1>14, <1>15, <1>16, <1>17, <1>18, <1>19, <1>20, <1>21, <1>22, <1>23,
                <1>24, <1>25, <1>26, <1>27, <1>28 DEF Next, AppSteps, InboundSteps,
                OutboundSteps, ReactorSteps

\* The reactor lets go of a channel nobody closed at its end, or records a failure.
LEMMA EndedOrFailedStep ==
  ASSUME Counts, Places, PassIsLive, ClosingAsked, InboundOver, EndedOrFailed, Next
  PROVE  EndedOrFailed'
  <1> USE DEF Counts, Places, PassIsLive, ClosingAsked, InboundOver, EndedOrFailed,
            appVars, duplexVars, taskVars, queueVars, reactorVars, peerVars
  <1>1. CASE Write
    BY <1>1 DEF Write
  <1>2. CASE Read
    BY <1>2 DEF Read
  <1>3. CASE ReadEnd
    BY <1>3 DEF ReadEnd
  <1>4. CASE Shut
    BY <1>4 DEF Shut
  <1>5. CASE Close
    BY <1>5 DEF Close, SetReason
  <1>6. CASE Drop
    BY <1>6 DEF Drop
  <1>7. CASE InReceive
    BY <1>7 DEF InReceive
  <1>8. CASE InWrite
    BY <1>8 DEF InWrite
  <1>9. CASE InMark
    BY <1>9 DEF InMark
  <1>10. CASE OutRead
    BY <1>10 DEF OutRead
  <1>11. CASE OutSend
    BY <1>11 DEF OutSend
  <1>12. CASE OutMark
    BY <1>12 DEF OutMark
  <1>13. CASE DrainCommands
    BY <1>13 DEF DrainCommands
  <1>14. CASE Select
    BY <1>14 DEF Select
  <1>15. CASE OutputFails
    BY <1>15 DEF OutputFails
  <1>16. CASE OutputTakes
    BY <1>16 DEF OutputTakes
  <1>17. CASE OutputWrites
    BY <1>17 DEF OutputWrites
  <1>18. CASE OutputRests
    BY <1>18 DEF OutputRests, AfterOutput
  <1>19. CASE InputMoves
    BY <1>19 DEF InputMoves
  <1>20. CASE InputEnds
    BY <1>20 DEF InputEnds
  <1>21. CASE InputRests
    BY <1>21 DEF InputRests
  <1>22. CASE CheckLinger
    BY <1>22 DEF CheckLinger, LingerFinished
  <1>23. CASE Remove
    BY <1>23 DEF Remove, SetReason
  <1>24. CASE Wake
    BY <1>24 DEF Wake
  <1>25. CASE LingerPasses
    BY <1>25 DEF LingerPasses
  <1>26. CASE PeerSends
    BY <1>26 DEF PeerSends
  <1>27. CASE PeerGivesRoom
    BY <1>27 DEF PeerGivesRoom
  <1>28. CASE StreamEnds
    BY <1>28 DEF StreamEnds
  <1>29. QED BY <1>1, <1>2, <1>3, <1>4, <1>5, <1>6, <1>7, <1>8, <1>9, <1>10, <1>11, <1>12,
                <1>13, <1>14, <1>15, <1>16, <1>17, <1>18, <1>19, <1>20, <1>21, <1>22, <1>23,
                <1>24, <1>25, <1>26, <1>27, <1>28 DEF Next, AppSteps, InboundSteps,
                OutboundSteps, ReactorSteps

\* A channel goes when all is written, or the time or the stream is over, or the input
\* is found abandoned.
LEMMA GoesWhenDoneStep ==
  ASSUME Counts, Places, PassIsLive, GoesWhenDone, Next
  PROVE  GoesWhenDone'
  <1> USE DEF Counts, Places, PassIsLive, GoesWhenDone,
            appVars, duplexVars, taskVars, queueVars, reactorVars, peerVars
  <1>1. CASE Write
    BY <1>1 DEF Write
  <1>2. CASE Read
    BY <1>2 DEF Read
  <1>3. CASE ReadEnd
    BY <1>3 DEF ReadEnd
  <1>4. CASE Shut
    BY <1>4 DEF Shut
  <1>5. CASE Close
    BY <1>5 DEF Close, SetReason
  <1>6. CASE Drop
    BY <1>6 DEF Drop
  <1>7. CASE InReceive
    BY <1>7 DEF InReceive
  <1>8. CASE InWrite
    BY <1>8 DEF InWrite
  <1>9. CASE InMark
    BY <1>9 DEF InMark
  <1>10. CASE OutRead
    BY <1>10 DEF OutRead
  <1>11. CASE OutSend
    BY <1>11 DEF OutSend
  <1>12. CASE OutMark
    BY <1>12 DEF OutMark
  <1>13. CASE DrainCommands
    BY <1>13 DEF DrainCommands
  <1>14. CASE Select
    BY <1>14 DEF Select
  <1>15. CASE OutputFails
    BY <1>15 DEF OutputFails
  <1>16. CASE OutputTakes
    BY <1>16 DEF OutputTakes
  <1>17. CASE OutputWrites
    BY <1>17 DEF OutputWrites
  <1>18. CASE OutputRests
    <2>1. reactor' \in {"checking", "input"}
      BY <1>18 DEF OutputRests, AfterOutput
    <2>2. QED BY <2>1
  <1>19. CASE InputMoves
    BY <1>19 DEF InputMoves
  <1>20. CASE InputEnds
    BY <1>20 DEF InputEnds
  <1>21. CASE InputRests
    BY <1>21 DEF InputRests
  <1>22. CASE CheckLinger
    BY <1>22 DEF CheckLinger, LingerFinished
  <1>23. CASE Remove
    BY <1>23 DEF Remove, SetReason
  <1>24. CASE Wake
    BY <1>24 DEF Wake
  <1>25. CASE LingerPasses
    BY <1>25 DEF LingerPasses
  <1>26. CASE PeerSends
    BY <1>26 DEF PeerSends
  <1>27. CASE PeerGivesRoom
    BY <1>27 DEF PeerGivesRoom
  <1>28. CASE StreamEnds
    BY <1>28 DEF StreamEnds
  <1>29. QED BY <1>1, <1>2, <1>3, <1>4, <1>5, <1>6, <1>7, <1>8, <1>9, <1>10, <1>11, <1>12,
                <1>13, <1>14, <1>15, <1>16, <1>17, <1>18, <1>19, <1>20, <1>21, <1>22, <1>23,
                <1>24, <1>25, <1>26, <1>27, <1>28 DEF Next, AppSteps, InboundSteps,
                OutboundSteps, ReactorSteps

(***************************************************************************)
(* What the application is promised.                                       *)
(***************************************************************************)

\* The read that comes to a clean end finds every place on the way in empty; and
\* nothing is sent after the end.
LEMMA CleanEndStep ==
  ASSUME AppleInv, Next
  PROVE  CleanEndIsComplete'
  <1> USE DEF AppleInv,
            appVars, duplexVars, taskVars, queueVars, reactorVars, peerVars
  <1>1. CASE ReadEnd
    <2>1. SUFFICES ASSUME eof' = "clean", app' \in {"open", "shut"}
                   PROVE  got' = sent' /\ stream' = "ended"
      BY DEF CleanEndIsComplete
    <2>2. app \in {"open", "shut"} /\ toApp = 0 /\ inbound = "over" /\ reason # "failed"
      BY <1>1, <2>1 DEF ReadEnd, BridgeGone
    <2>3. channel = "gone" /\ inq = 0
      BY <2>2 DEF InboundOver
    <2>4. readable = 0 /\ stream = "ended"
      BY <2>2, <2>3 DEF EndedOrFailed
    <2>5. got = sent
      BY <2>2, <2>3, <2>4 DEF Counts, InFlow, InHand
    <2>6. QED BY <1>1, <2>4, <2>5 DEF ReadEnd
  <1>2. CASE Read
    BY <1>2 DEF Read, CleanEndIsComplete, Counts, Places, InFlow, InHand
  <1>3. CASE PeerSends \/ PeerGivesRoom \/ StreamEnds
    BY <1>3 DEF PeerSends, PeerGivesRoom, StreamEnds, CleanEndIsComplete
  <1>4. CASE Shut \/ Close \/ Drop
    BY <1>4 DEF Shut, Close, Drop, CleanEndIsComplete
  <1>5. ASSUME UNCHANGED <<app, eof, got, sent, stream>> PROVE CleanEndIsComplete'
    BY <1>5 DEF CleanEndIsComplete
  <1>6. CASE Write \/ InboundSteps \/ OutboundSteps \/ ReactorSteps \/ LingerPasses
    <2>1. UNCHANGED <<app, eof, got, sent, stream>>
      BY <1>6 DEF Write, InboundSteps, InReceive, InWrite, InMark, OutboundSteps, OutRead,
                  OutSend, OutMark, ReactorSteps, DrainCommands, Select, OutputFails,
                  OutputTakes, OutputWrites, OutputRests, InputMoves, InputEnds, InputRests,
                  CheckLinger, Remove, Wake, LingerPasses
    <2>2. QED BY <1>5, <2>1
  <1>7. QED BY <1>1, <1>2, <1>3, <1>4, <1>6 DEF Next, AppSteps

\* Only a drop ends the inbound task of a live channel.
LEMMA TornStep ==
  ASSUME AppleInv, Next
  PROVE  TornByDrop'
  <1> USE DEF AppleInv,
            appVars, duplexVars, taskVars, queueVars, reactorVars, peerVars
  <1>1. CASE InputEnds
    <2>1. UNCHANGED app /\ (torn' => torn \/ inbound = "over") /\ reactor = "input"
      BY <1>1 DEF InputEnds
    <2>2. channel # "gone"
      BY <2>1 DEF PassIsLive
    <2>3. QED BY <2>1, <2>2 DEF TornByDrop, InboundOver
  <1>2. ASSUME torn' = torn, app' = app \/ app' = "dropped" \/ app # "dropped"
        PROVE  TornByDrop'
    BY <1>2 DEF TornByDrop
  <1>3. CASE AppSteps
    <2>1. torn' = torn /\ (app' = app \/ app' = "dropped" \/ app # "dropped")
      BY <1>3 DEF AppSteps, Write, Read, ReadEnd, Shut, Close, Drop
    <2>2. QED BY <1>2, <2>1
  <1>4. CASE \/ InboundSteps \/ OutboundSteps \/ LingerPasses
             \/ PeerSends \/ PeerGivesRoom \/ StreamEnds
    <2>1. torn' = torn /\ app' = app
      BY <1>4 DEF InboundSteps, InReceive, InWrite, InMark, OutboundSteps, OutRead, OutSend,
                  OutMark, LingerPasses, PeerSends, PeerGivesRoom, StreamEnds
    <2>2. QED BY <1>2, <2>1
  <1>5. CASE \/ DrainCommands \/ Select \/ OutputFails \/ OutputTakes \/ OutputWrites
             \/ OutputRests \/ InputMoves \/ InputRests \/ CheckLinger \/ Remove \/ Wake
    <2>1. torn' = torn /\ app' = app
      BY <1>5 DEF DrainCommands, Select, OutputFails, OutputTakes, OutputWrites, OutputRests,
                  InputMoves, InputRests, CheckLinger, Remove, Wake
    <2>2. QED BY <1>2, <2>1
  <1>6. QED BY <1>1, <1>3, <1>4, <1>5 DEF Next, ReactorSteps

\* When a channel goes whose input was not abandoned, its time or its stream is over, or
\* every place on the way out is empty; and nothing is written to it afterwards.
LEMMA GoneStep ==
  ASSUME AppleInv, Next
  PROVE  GoneForACause'
  <1> USE DEF AppleInv,
            appVars, duplexVars, taskVars, queueVars, reactorVars, peerVars
  <1>1. CASE Remove
    <2>1. SUFFICES ASSUME channel' = "gone"
                   PROVE  \/ closing' /\ (received' = wrote' \/ expired')
                          \/ stream' # "open" \/ torn'
      BY DEF GoneForACause
    <2>2. /\ UNCHANGED <<closing, received, wrote, expired, stream, torn>>
          /\ channel = "gone" \/ reactor = "dropping"
      BY <1>1, <2>1 DEF Remove
    <2>3. CASE channel = "gone"
      BY <2>2, <2>3 DEF GoneForACause
    <2>4. CASE reactor = "dropping" /\ closing /\ outDone /\ pending = 0
      <3>1. channel = "live"
        BY <2>4 DEF PassIsLive
      <3>2. outbound = "over" /\ outq = 0 /\ toTask = 0
        BY <2>4, <3>1 DEF OutboundOver
      <3>3. received + pending + outq + OutHand + toTask = wrote
        BY <3>1 DEF OutFlow
      <3>4. received = wrote
        BY <2>4, <3>2, <3>3 DEF Counts, OutHand
      <3>5. QED BY <2>2, <2>4, <3>4
    <2>5. CASE reactor = "dropping" /\ ((closing /\ expired) \/ stream # "open" \/ torn)
      BY <2>2, <2>5
    <2>6. QED BY <2>2, <2>3, <2>4, <2>5 DEF GoesWhenDone
  <1>2. CASE Write
    BY <1>2 DEF Write, GoneForACause, ClosingAsked
  <1>3. CASE DrainCommands
    BY <1>3 DEF DrainCommands, GoneForACause
  <1>4. CASE OutputWrites
    BY <1>4 DEF OutputWrites, GoneForACause, PassIsLive
  <1>5. CASE LingerPasses \/ StreamEnds \/ InputEnds
    BY <1>5 DEF LingerPasses, StreamEnds, InputEnds, GoneForACause
  <1>6. ASSUME UNCHANGED <<channel, closing, received, wrote, expired, stream, torn>>
        PROVE  GoneForACause'
    BY <1>6 DEF GoneForACause
  <1>7. CASE \/ Read \/ ReadEnd \/ Shut \/ Close \/ Drop \/ InboundSteps \/ OutboundSteps
             \/ PeerSends \/ PeerGivesRoom
    <2>1. UNCHANGED <<channel, closing, received, wrote, expired, stream, torn>>
      BY <1>7 DEF Read, ReadEnd, Shut, Close, Drop, InboundSteps, InReceive, InWrite, InMark,
                  OutboundSteps, OutRead, OutSend, OutMark, PeerSends, PeerGivesRoom
    <2>2. QED BY <1>6, <2>1
  <1>8. CASE \/ Select \/ OutputFails \/ OutputTakes \/ OutputRests \/ InputMoves
             \/ InputRests \/ CheckLinger \/ Wake
    <2>1. UNCHANGED <<channel, closing, received, wrote, expired, stream, torn>>
      BY <1>8 DEF Select, OutputFails, OutputTakes, OutputRests, InputMoves, InputRests,
                  CheckLinger, Wake
    <2>2. QED BY <1>6, <2>1
  <1>9. QED
    BY <1>1, <1>2, <1>3, <1>4, <1>5, <1>7, <1>8 DEF Next, AppSteps, ReactorSteps

\* The channel opens with everything empty and alive.
LEMMA InvInitially == Init => AppleInv
  <1> SUFFICES ASSUME Init PROVE AppleInv
    OBVIOUS
  <1>1. Flags
    BY Zenon DEF Init, Flags
  <1>2. QED
    BY <1>1, AppleL2capAssumption
    DEF Init, AppleInv, Counts, Places, InFlow, OutFlow, InHand, OutHand, Capacity,
      PassIsLive, ClosingAsked, InboundOver, OutboundOver, EndedOrFailed, GoesWhenDone,
      TornByDrop, GoneForACause, CleanEndIsComplete

\* The parts together.
LEMMA InvStep == AppleInv /\ [Next]_l2capVars => AppleInv'
  <1> SUFFICES ASSUME AppleInv, [Next]_l2capVars PROVE AppleInv'
    OBVIOUS
  <1>1. CASE Next
    BY <1>1, CountsStep, PlacesStep, FlagsStep, InFlowStep, OutFlowStep, CapacityStep,
       PassIsLiveStep, ClosingAskedStep, InboundOverStep, OutboundOverStep,
       EndedOrFailedStep, GoesWhenDoneStep, TornStep, GoneStep, CleanEndStep
    DEF AppleInv
  <1>2. CASE UNCHANGED l2capVars
    BY <1>2
    DEF AppleInv, Counts, Places, Flags, InFlow, OutFlow, InHand, OutHand, Capacity,
        PassIsLive, ClosingAsked, InboundOver, OutboundOver, EndedOrFailed, GoesWhenDone,
        TornByDrop, GoneForACause, CleanEndIsComplete, l2capVars, appVars, duplexVars, taskVars,
        queueVars, reactorVars, peerVars
  <1>3. QED BY <1>1, <1>2

\* It is an invariant.
LEMMA InvAlways == Spec => []AppleInv
  BY InvInitially, InvStep, PTL DEF Spec

(***************************************************************************)
(* The theorems.                                                           *)
(***************************************************************************)

\* Every variable of the channel keeps its type: no queue or buffer holds more than its
\* capacity, and no more chunks arrive anywhere than were sent.
THEOREM TypeCorrect == Spec => []TypeOK
  <1>1. AppleInv => TypeOK
    <2> SUFFICES ASSUME AppleInv PROVE TypeOK
      OBVIOUS
    <2>1. InHand \in Nat /\ OutHand \in Nat
      BY DEF InHand, OutHand
    <2>2. /\ wrote \in 0..MaxOut /\ received \in 0..MaxOut /\ credits \in 0..MaxOut
          /\ room \in 0..MaxOut
      BY <2>1, AppleL2capAssumption DEF AppleInv, Counts, Capacity, OutFlow
    <2>3. got \in 0..MaxIn /\ sent \in 0..MaxIn /\ readable \in 0..MaxIn
      BY <2>1, AppleL2capAssumption DEF AppleInv, Counts, Capacity, InFlow
    <2>4. /\ toTask \in 0..Buffer /\ toApp \in 0..Buffer
          /\ inq \in 0..Queue /\ outq \in 0..Queue /\ pending \in 0..1
      BY AppleL2capAssumption DEF AppleInv, Counts, Capacity
    <2>5. QED BY <2>2, <2>3, <2>4 DEF AppleInv, Places, Flags, TypeOK
  <1>2. QED BY <1>1, InvAlways, PTL

\* An application that reads a clean end, and did not close the channel itself, has all
\* that the peer sent, for every capacity and whatever the tasks and the reactor were
\* doing when the stream ended.
THEOREM CleanEndAlwaysComplete == Spec => []CleanEndIsComplete
  <1>1. AppleInv => CleanEndIsComplete
    BY DEF AppleInv
  <1>2. QED BY <1>1, InvAlways, PTL

\* A channel that was closed or dropped goes with all that was written delivered, unless
\* the deadline passed or the stream ended first, or, for a drop alone, the reactor met
\* the abandoned input before it drained the Close.
THEOREM LingerAlwaysDelivers == Spec => []LingerDelivers
  <1>1. AppleInv => LingerDelivers
    BY DEF AppleInv, GoneForACause, TornByDrop, LingerDelivers
  <1>2. QED BY <1>1, InvAlways, PTL
=============================================================================
