------------------------- MODULE MediaSessionProofs -------------------------
(***************************************************************************)
(* Proofs about the audio of a session and about its end, for any          *)
(* capacities of the channels and any number of messages.                  *)
(***************************************************************************)
EXTENDS MediaSession, SequenceTheorems, TLAPS

\* The interruptions read are among the items sent.
TurnsCounted == turn + (IF reader = "interrupt" THEN 1 ELSE 0) <= items

\* What the monitor has taken up is what readLoop has read, or less: then a signal
\* is on its way to it.  As long as it has an interruption to take up or to finish
\* with, all that is queued came since that interruption.
DrainHasCause ==
  /\ heeded <= turn
  /\ signal => heeded < turn
  /\ (heeded < turn \/ monitor = "drain") /\ ~SignalClosed =>
       \A i \in 1..Len(recvCh) : recvCh[i].cut

MediaInv == TypeOK /\ TurnsCounted /\ InterruptedIsSilent /\ DrainHasCause

\* The types, apart from those of flags and of the queued audio.
StatesOK ==
  /\ reader \in {"read", "text", "tool", "interrupt", "audio", "ending", "gone"}
  /\ closed \in 0..4
  /\ texts \in 0..TextCap
  /\ tools \in 0..ToolCap
  /\ turn \in 0..MaxItems
  /\ heeded \in 0..MaxItems
  /\ pump \in {"recv", "write", "tick", "gone"}
  /\ frames \in 0..MaxFrames
  /\ pump = "write" => frames > 0
  /\ monitor \in {"poll", "drain", "gone"}
  /\ forward \in {"none", "recv", "send", "failed", "gone"}
  /\ toolForward \in {"none", "recv", "send", "failed", "gone"}
  /\ inbound \in {"none", "read", "gone"}
  /\ dc \in {"none", "open", "gone"}
  /\ scope \in {"live", "cancelled", "stopping", "stopped", "closed"}
  /\ items \in 0..MaxItems

AudioOK == recvCh \in Seq(Chunk) /\ Len(recvCh) <= AudioCap
FlagsOK == signal \in BOOLEAN

\* The parts together are the types.
LEMMA TypeParts ==
  /\ TypeOK <=> StatesOK /\ AudioOK /\ FlagsOK
  /\ TypeOK' <=> StatesOK' /\ AudioOK' /\ FlagsOK'
BY Zenon DEF TypeOK, StatesOK, AudioOK, FlagsOK

\* The invariant holds initially.
LEMMA InitMediaInv == Init => MediaInv
<1> SUFFICES ASSUME Init PROVE MediaInv
  OBVIOUS
<1>1. StatesOK
  BY MediaAssumption DEF Init, StatesOK
<1>2. AudioOK
  BY MediaAssumption DEF Init, AudioOK
<1>3. FlagsOK
  BY Zenon DEF Init, FlagsOK
<1>4. ~signal
  BY Zenon DEF Init
<1>5. TurnsCounted /\ InterruptedIsSilent
  BY DEF Init, TurnsCounted, InterruptedIsSilent
<1>6. heeded = 0 /\ turn = 0 /\ monitor # "drain"
  BY DEF Init
<1>7. DrainHasCause
  BY <1>4, <1>6 DEF DrainHasCause
<1> QED BY <1>1, <1>2, <1>3, <1>5, <1>7, TypeParts, Zenon DEF MediaInv

\* Every step keeps the flags Boolean.
LEMMA NextFlagsOK ==
  ASSUME FlagsOK, [Next]_vars
  PROVE  FlagsOK'
<1> USE DEF FlagsOK, adapterVars, pumpVars, monitorVars, forwardVars
<1>1. CASE ReadMessage
  BY <1>1, Zenon DEF ReadMessage
<1>2. CASE EmitText
  BY <1>2, Zenon DEF EmitText, Handled, After
<1>3. CASE EmitToolCall
  BY <1>3, Zenon DEF EmitToolCall, Handled, After
<1>4. CASE SignalInterrupted
  BY <1>4, Zenon DEF SignalInterrupted, Handled, After
<1>5. CASE EmitAudio
  BY <1>5, Zenon DEF EmitAudio, Handled, After
<1>6. CASE ReadEnds
  BY <1>6, Zenon DEF ReadEnds
<1>7. CASE CloseNext
  BY <1>7, Zenon DEF CloseNext
<1>8. CASE PumpRecv
  BY <1>8, Zenon DEF PumpRecv
<1>9. CASE PumpEnds
  BY <1>9, Zenon DEF PumpEnds
<1>10. CASE PumpWrite
  BY <1>10, Zenon DEF PumpWrite
<1>11. CASE PumpTick
  BY <1>11, Zenon DEF PumpTick
<1>12. CASE Poll
  BY <1>12, Zenon DEF Poll
<1>13. CASE MonitorEnds
  BY <1>13, Zenon DEF MonitorEnds
<1>14. CASE DrainChunk
  BY <1>14, Zenon DEF DrainChunk
<1>15. CASE DrainEnds
  BY <1>15, Zenon DEF DrainEnds
<1>16. CASE OpenChannel
  BY <1>16, Zenon DEF OpenChannel
<1>17. CASE CloseChannel
  BY <1>17, Zenon DEF CloseChannel
<1>18. CASE RecvTranscript
  BY <1>18, Zenon DEF RecvTranscript
<1>19. CASE SendTranscript
  BY <1>19, Zenon DEF SendTranscript
<1>20. CASE RecvToolCall
  BY <1>20, Zenon DEF RecvToolCall
<1>21. CASE SendToolCall
  BY <1>21, Zenon DEF SendToolCall
<1>22. CASE InboundStarts
  BY <1>22, Zenon DEF InboundStarts
<1>23. CASE InboundEnds
  BY <1>23, Zenon DEF InboundEnds
<1>24. CASE CloseScope
  BY <1>24, Zenon DEF CloseScope
<1>25. CASE StopModel
  BY <1>25, Zenon DEF StopModel
<1>26. CASE ModelStopped
  BY <1>26, Zenon DEF ModelStopped
<1>27. CASE ClosePeer
  BY <1>27, Zenon DEF ClosePeer
<1>28. CASE UNCHANGED vars
  BY <1>28, Zenon DEF vars
<1> QED
  BY <1>1, <1>2, <1>3, <1>4, <1>5, <1>6, <1>7, <1>8, <1>9, <1>10, <1>11, <1>12, <1>13, <1>14, <1>15, <1>16, <1>17, <1>18, <1>19, <1>20, <1>21, <1>22, <1>23, <1>24, <1>25, <1>26, <1>27, <1>28, Zenon
  DEF Next, Fan, Pump, Monitor, Forward, ForwardTools, Closing

\* Every step keeps the other types, and the count of interruptions.
LEMMA NextStatesOK ==
  ASSUME StatesOK, TurnsCounted, [Next]_vars
  PROVE  StatesOK' /\ TurnsCounted'
<1> USE MediaAssumption DEF StatesOK, TurnsCounted, adapterVars, pumpVars, monitorVars, forwardVars, ToolsClosed, TextsClosed, SignalClosed, AudioClosed, ModelDone, MediaDone
<1>1. CASE ReadMessage
  BY <1>1 DEF ReadMessage
<1>2. CASE EmitText
  BY <1>2 DEF EmitText, Handled, After
<1>3. CASE EmitToolCall
  BY <1>3 DEF EmitToolCall, Handled, After
<1>4. CASE SignalInterrupted
  BY <1>4 DEF SignalInterrupted, Handled, After
<1>5. CASE EmitAudio
  BY <1>5 DEF EmitAudio, Handled, After
<1>6. CASE ReadEnds
  BY <1>6 DEF ReadEnds
<1>7. CASE CloseNext
  BY <1>7 DEF CloseNext
<1>8. CASE PumpRecv
  BY <1>8 DEF PumpRecv
<1>9. CASE PumpEnds
  BY <1>9 DEF PumpEnds
<1>10. CASE PumpWrite
  BY <1>10 DEF PumpWrite
<1>11. CASE PumpTick
  BY <1>11 DEF PumpTick
<1>12. CASE Poll
  BY <1>12 DEF Poll
<1>13. CASE MonitorEnds
  BY <1>13 DEF MonitorEnds
<1>14. CASE DrainChunk
  BY <1>14 DEF DrainChunk
<1>15. CASE DrainEnds
  BY <1>15 DEF DrainEnds
<1>16. CASE OpenChannel
  BY <1>16 DEF OpenChannel
<1>17. CASE CloseChannel
  BY <1>17 DEF CloseChannel
<1>18. CASE RecvTranscript
  BY <1>18 DEF RecvTranscript
<1>19. CASE SendTranscript
  BY <1>19 DEF SendTranscript
<1>20. CASE RecvToolCall
  BY <1>20 DEF RecvToolCall
<1>21. CASE SendToolCall
  BY <1>21 DEF SendToolCall
<1>22. CASE InboundStarts
  BY <1>22 DEF InboundStarts
<1>23. CASE InboundEnds
  BY <1>23 DEF InboundEnds
<1>24. CASE CloseScope
  BY <1>24 DEF CloseScope
<1>25. CASE StopModel
  BY <1>25 DEF StopModel
<1>26. CASE ModelStopped
  BY <1>26 DEF ModelStopped
<1>27. CASE ClosePeer
  BY <1>27 DEF ClosePeer
<1>28. CASE UNCHANGED vars
  BY <1>28 DEF vars
<1> QED
  BY <1>1, <1>2, <1>3, <1>4, <1>5, <1>6, <1>7, <1>8, <1>9, <1>10, <1>11, <1>12, <1>13, <1>14, <1>15, <1>16, <1>17, <1>18, <1>19, <1>20, <1>21, <1>22, <1>23, <1>24, <1>25, <1>26, <1>27, <1>28, Zenon
  DEF Next, Fan, Pump, Monitor, Forward, ForwardTools, Closing

\* Every step keeps the queued audio of one turn.
LEMMA NextAudio ==
  ASSUME StatesOK, AudioOK, FlagsOK, InterruptedIsSilent, [Next]_vars
  PROVE  AudioOK' /\ InterruptedIsSilent'
<1> USE MediaAssumption DEF StatesOK, AudioOK, FlagsOK, InterruptedIsSilent, Chunk, NewChunk, adapterVars, pumpVars, monitorVars, forwardVars
<1>1. CASE ReadMessage
  BY <1>1 DEF ReadMessage
<1>2. CASE EmitText
  BY <1>2 DEF EmitText, Handled, After
<1>3. CASE EmitToolCall
  BY <1>3 DEF EmitToolCall, Handled, After
<1>4. CASE SignalInterrupted
  BY <1>4 DEF SignalInterrupted, Handled, After
<1>5. CASE EmitAudio
  BY <1>5 DEF EmitAudio, Handled, After
<1>6. CASE ReadEnds
  BY <1>6 DEF ReadEnds
<1>7. CASE CloseNext
  BY <1>7 DEF CloseNext
<1>8. CASE PumpRecv
  BY <1>8 DEF PumpRecv
<1>9. CASE PumpEnds
  BY <1>9 DEF PumpEnds
<1>10. CASE PumpWrite
  BY <1>10 DEF PumpWrite
<1>11. CASE PumpTick
  BY <1>11 DEF PumpTick
<1>12. CASE Poll
  BY <1>12 DEF Poll
<1>13. CASE MonitorEnds
  BY <1>13 DEF MonitorEnds
<1>14. CASE DrainChunk
  BY <1>14 DEF DrainChunk
<1>15. CASE DrainEnds
  BY <1>15 DEF DrainEnds
<1>16. CASE OpenChannel
  BY <1>16 DEF OpenChannel
<1>17. CASE CloseChannel
  BY <1>17 DEF CloseChannel
<1>18. CASE RecvTranscript
  BY <1>18 DEF RecvTranscript
<1>19. CASE SendTranscript
  BY <1>19 DEF SendTranscript
<1>20. CASE RecvToolCall
  BY <1>20 DEF RecvToolCall
<1>21. CASE SendToolCall
  BY <1>21 DEF SendToolCall
<1>22. CASE InboundStarts
  BY <1>22 DEF InboundStarts
<1>23. CASE InboundEnds
  BY <1>23 DEF InboundEnds
<1>24. CASE CloseScope
  BY <1>24 DEF CloseScope
<1>25. CASE StopModel
  BY <1>25 DEF StopModel
<1>26. CASE ModelStopped
  BY <1>26 DEF ModelStopped
<1>27. CASE ClosePeer
  BY <1>27 DEF ClosePeer
<1>28. CASE UNCHANGED vars
  BY <1>28 DEF vars
<1> QED
  BY <1>1, <1>2, <1>3, <1>4, <1>5, <1>6, <1>7, <1>8, <1>9, <1>10, <1>11, <1>12, <1>13, <1>14, <1>15, <1>16, <1>17, <1>18, <1>19, <1>20, <1>21, <1>22, <1>23, <1>24, <1>25, <1>26, <1>27, <1>28, Zenon
  DEF Next, Fan, Pump, Monitor, Forward, ForwardTools, Closing

\* Every step keeps the causes of dropped audio.
LEMMA NextDrain ==
  ASSUME StatesOK, AudioOK, FlagsOK, DrainHasCause, [Next]_vars
  PROVE  DrainHasCause'
<1> USE MediaAssumption DEF StatesOK, AudioOK, FlagsOK, DrainHasCause, SignalClosed, Chunk, NewChunk, adapterVars, pumpVars, monitorVars, forwardVars
<1>1. CASE ReadMessage
  BY <1>1 DEF ReadMessage
<1>2. CASE EmitText
  BY <1>2 DEF EmitText, Handled, After
<1>3. CASE EmitToolCall
  BY <1>3 DEF EmitToolCall, Handled, After
<1>4. CASE SignalInterrupted
  BY <1>4 DEF SignalInterrupted, Handled, After
<1>5. CASE EmitAudio
  <2> USE <1>5 DEF EmitAudio
  <2>1. UNCHANGED <<closed, signal, turn, heeded, monitor>>
    OBVIOUS
  <2>2. recvCh \in Seq(Chunk) /\ recvCh' = Append(recvCh, NewChunk)
    OBVIOUS
  <2>3. \A i \in 1..Len(recvCh') : recvCh'[i] = IF i <= Len(recvCh) THEN recvCh[i] ELSE NewChunk
    BY <2>2
  <2>4. \A i \in 1..Len(recvCh') : i <= Len(recvCh) => i \in 1..Len(recvCh)
    BY <2>2
  <2>5. (turn > heeded \/ monitor = "drain") => NewChunk.cut
    OBVIOUS
  <2> QED BY <2>1, <2>3, <2>4, <2>5
<1>6. CASE ReadEnds
  BY <1>6 DEF ReadEnds
<1>7. CASE CloseNext
  BY <1>7 DEF CloseNext
<1>8. CASE PumpRecv
  BY <1>8 DEF PumpRecv
<1>9. CASE PumpEnds
  BY <1>9 DEF PumpEnds
<1>10. CASE PumpWrite
  BY <1>10 DEF PumpWrite
<1>11. CASE PumpTick
  BY <1>11 DEF PumpTick
<1>12. CASE Poll
  BY <1>12 DEF Poll
<1>13. CASE MonitorEnds
  BY <1>13 DEF MonitorEnds
<1>14. CASE DrainChunk
  BY <1>14 DEF DrainChunk
<1>15. CASE DrainEnds
  BY <1>15 DEF DrainEnds
<1>16. CASE OpenChannel
  BY <1>16 DEF OpenChannel
<1>17. CASE CloseChannel
  BY <1>17 DEF CloseChannel
<1>18. CASE RecvTranscript
  BY <1>18 DEF RecvTranscript
<1>19. CASE SendTranscript
  BY <1>19 DEF SendTranscript
<1>20. CASE RecvToolCall
  BY <1>20 DEF RecvToolCall
<1>21. CASE SendToolCall
  BY <1>21 DEF SendToolCall
<1>22. CASE InboundStarts
  BY <1>22 DEF InboundStarts
<1>23. CASE InboundEnds
  BY <1>23 DEF InboundEnds
<1>24. CASE CloseScope
  BY <1>24 DEF CloseScope
<1>25. CASE StopModel
  BY <1>25 DEF StopModel
<1>26. CASE ModelStopped
  BY <1>26 DEF ModelStopped
<1>27. CASE ClosePeer
  BY <1>27 DEF ClosePeer
<1>28. CASE UNCHANGED vars
  BY <1>28 DEF vars
<1> QED
  BY <1>1, <1>2, <1>3, <1>4, <1>5, <1>6, <1>7, <1>8, <1>9, <1>10, <1>11, <1>12, <1>13, <1>14, <1>15, <1>16, <1>17, <1>18, <1>19, <1>20, <1>21, <1>22, <1>23, <1>24, <1>25, <1>26, <1>27, <1>28, Zenon
  DEF Next, Fan, Pump, Monitor, Forward, ForwardTools, Closing

\* Every step keeps the invariant.
LEMMA NextMediaInv ==
  ASSUME MediaInv, [Next]_vars
  PROVE  MediaInv'
<1>1. StatesOK /\ AudioOK /\ FlagsOK /\ TurnsCounted /\ InterruptedIsSilent /\ DrainHasCause
  BY TypeParts, Zenon DEF MediaInv
<1>2. StatesOK' /\ TurnsCounted'
  BY <1>1, NextStatesOK
<1>3. AudioOK' /\ InterruptedIsSilent'
  BY <1>1, NextAudio
<1>4. FlagsOK' /\ DrainHasCause'
  BY <1>1, NextFlagsOK, NextDrain
<1> QED BY <1>2, <1>3, <1>4, TypeParts, Zenon DEF MediaInv

----------------------------------------------------------------------------
(* A session that is closed runs out of steps                              *)

\* What a chunk costs its reader, its frames included, and an item readLoop, with
\* what it queues.
ChunkCost == 2 * MaxFrames + 3
ItemCost == ChunkCost + 1

\* What the items that are still to come cost.
ItemsLeft == ItemCost * (MaxItems - items)

\* What readLoop has left: items of the message it handles, then its defers.
ReaderLeft ==
  IF reader = "gone" THEN 0
  ELSE IF reader = "ending" THEN 5 - closed
  ELSE IF reader = "read" THEN 6
  ELSE 6 + ItemCost + ItemsLeft

\* What the pump has left of the chunk it holds.
PumpLeft ==
  IF pump = "gone" THEN 0
  ELSE IF pump = "recv" THEN 1
  ELSE IF pump = "tick" THEN 2 * frames + 2
  ELSE 2 * frames + 1

\* What a forwarder has left: the item it holds.
ForwarderLeft(f) ==
  IF f = "send" THEN 2 ELSE IF f = "recv" THEN 1 ELSE 0

\* What is left of the close itself, of the microphone, and of the data channel
\* with the forwarders that it may yet start.
CloseLeft ==
  IF scope = "stopping" THEN 2 ELSE IF scope = "stopped" THEN 1 ELSE 0
InboundLeft == IF inbound = "none" THEN 2 ELSE IF inbound = "read" THEN 1 ELSE 0
ChannelLeft == IF dc = "none" THEN 4 ELSE IF dc = "open" THEN 1 ELSE 0

\* What all goroutines but readLoop have left.
OthersLeft ==
  PumpLeft + ForwarderLeft(forward) + ForwarderLeft(toolForward)
    + CloseLeft + InboundLeft + ChannelLeft

\* What the queued items cost their readers.
AudioLeft == ChunkCost * Len(recvCh)
QueuedLeft == AudioLeft + 2 * texts + 2 * tools

\* The steps that a session has left at most, its monitor's apart.
StepsLeft == ReaderLeft + QueuedLeft + OthersLeft

\* Once the model is closed a step is one of them, or one of its monitor, which
\* adds none.
RunsOut ==
  ModelDone =>
    \/ StepsLeft' < StepsLeft
    \/ (Poll \/ MonitorEnds \/ DrainEnds) /\ UNCHANGED StepsLeft

\* The costs are numbers.
LEMMA CostsNat == ChunkCost \in Nat /\ ItemCost \in Nat /\ ChunkCost >= 3
BY MediaAssumption DEF ChunkCost, ItemCost

\* The product of numbers is one.
LEMMA TimesNat ==
  ASSUME NEW a \in Nat, NEW n \in Nat
  PROVE  a * n \in Nat
OBVIOUS

\* One chunk more is its cost more.
LEMMA TimesMore ==
  ASSUME NEW a \in Nat, NEW n \in Nat
  PROVE  a * (n + 1) = a * n + a
OBVIOUS

\* One item more that has come is its cost less.
LEMMA TimesLess ==
  ASSUME NEW a \in Nat, NEW m \in Nat, NEW i \in Nat, i < m
  PROVE  a * (m - (i + 1)) = a * (m - i) - a
OBVIOUS

\* What the items and the queued audio cost.
LEMMA CostLeftNat ==
  ASSUME StatesOK, AudioOK
  PROVE  ItemsLeft \in Nat /\ AudioLeft \in Nat
<1>1. MaxItems - items \in Nat /\ Len(recvCh) \in Nat
  BY MediaAssumption DEF StatesOK, AudioOK
<1> QED BY <1>1, CostsNat, TimesNat, Zenon DEF ItemsLeft, AudioLeft

\* So are all the parts of what the others have left.
LEMMA OthersNat ==
  ASSUME StatesOK
  PROVE  /\ PumpLeft \in Nat /\ CloseLeft \in Nat /\ InboundLeft \in Nat /\ ChannelLeft \in Nat
         /\ \A f : ForwarderLeft(f) \in Nat
BY MediaAssumption DEF StatesOK, PumpLeft, CloseLeft, InboundLeft, ChannelLeft, ForwarderLeft

\* The parts of StepsLeft are numbers.
LEMMA LeftNat ==
  ASSUME StatesOK, AudioOK
  PROVE  ReaderLeft \in Nat /\ QueuedLeft \in Nat /\ OthersLeft \in Nat /\ StepsLeft \in Nat
<1>1. ReaderLeft \in Nat
  BY CostsNat, CostLeftNat DEF StatesOK, ReaderLeft
<1>2. texts \in Nat /\ tools \in Nat
  BY MediaAssumption DEF StatesOK
<1>3. QueuedLeft \in Nat
  BY <1>2, CostLeftNat DEF QueuedLeft
<1>4. OthersLeft \in Nat
  BY OthersNat DEF OthersLeft
<1> QED BY <1>1, <1>3, <1>4 DEF StepsLeft

\* A difference and the sums that the parts are made of are numbers.
LEMMA DifferenceNat ==
  ASSUME NEW m \in Nat, NEW i \in 0..m
  PROVE  m - i \in Nat
OBVIOUS

LEMMA ReaderSumNat ==
  ASSUME NEW c \in 0..4, NEW a \in Nat, NEW b \in Nat
  PROVE  5 - c \in Nat /\ 6 + a + b \in Nat /\ 0 \in Nat /\ 6 \in Nat
OBVIOUS

LEMMA QueuedSumNat ==
  ASSUME NEW a \in Nat, NEW t \in Nat, NEW u \in Nat
  PROVE  a + 2 * t + 2 * u \in Nat
OBVIOUS

LEMMA PumpSumNat ==
  ASSUME NEW f \in Nat
  PROVE  2 * f + 2 \in Nat /\ 2 * f + 1 \in Nat /\ 0 \in Nat /\ 1 \in Nat
OBVIOUS

LEMMA OthersSumNat ==
  ASSUME NEW a \in Nat, NEW b \in Nat, NEW c \in Nat, NEW d \in Nat, NEW e \in Nat, NEW f \in Nat
  PROVE  a + b + c + d + e + f \in Nat
OBVIOUS

\* A part of a sum that gets less.
LEMMA LeftLess ==
  ASSUME NEW q \in Nat, NEW o \in Nat, NEW n \in Nat, n < o
  PROVE  q + n < q + o /\ n + q < o + q
OBVIOUS

\* A text, a call or a chunk more in its queue costs no more than a chunk.
LEMMA QueuedMore ==
  ASSUME NEW a \in Nat, NEW t \in Nat, NEW u \in Nat, NEW c \in Nat, c >= 3
  PROVE  /\ a + 2 * t + 2 * u <= a + 2 * t + 2 * u + c
         /\ a + 2 * (t + 1) + 2 * u <= a + 2 * t + 2 * u + c
         /\ a + 2 * t + 2 * (u + 1) <= a + 2 * t + 2 * u + c
         /\ (a + c) + 2 * t + 2 * u <= a + 2 * t + 2 * u + c
         /\ 0 + 2 * t + 2 * u <= a + 2 * t + 2 * u + c
OBVIOUS

\* What a chunk costs is something.
LEMMA LessByCost ==
  ASSUME NEW p \in Nat, NEW q \in Nat, NEW c \in Nat, c >= 3, q = p + c
  PROVE  p < q
OBVIOUS

\* A chunk pays for the frames that the pump makes of it.
LEMMA FramesPaid ==
  ASSUME NEW m \in Nat, NEW f \in 0..m
  PROVE  2 * f + 1 < (2 * m + 3) + 1 /\ 1 < (2 * m + 3) + 1
OBVIOUS

LEMMA ChunkPumped ==
  ASSUME NEW p \in Nat, NEW q \in Nat, NEW c \in Nat, NEW g \in Nat, q = p + c, g < c + 1
  PROVE  p + g < q + 1
OBVIOUS

\* A text or a call that its forwarder takes, or the end of the forwarder.
LEMMA TextForwarded ==
  ASSUME NEW a \in Nat, NEW t \in Nat, NEW u \in Nat
  PROVE  /\ (a + 2 * (t - 1) + 2 * u) + 2 < (a + 2 * t + 2 * u) + 1
         /\ (a + 2 * t + 2 * (u - 1)) + 2 < (a + 2 * t + 2 * u) + 1
         /\ (a + 2 * t + 2 * u) + 0 < (a + 2 * t + 2 * u) + 1
OBVIOUS

\* A step of readLoop that takes more than it queues.
LEMMA LessReader ==
  ASSUME NEW r \in Nat, NEW q \in Nat, NEW o \in Nat, NEW s \in Nat, NEW p \in Nat,
         s + p < r + q
  PROVE  s + p + o < r + q + o
OBVIOUS

\* The same for what is queued and the other goroutines.
LEMMA LessOthers ==
  ASSUME NEW r \in Nat, NEW q \in Nat, NEW o \in Nat, NEW p \in Nat, NEW n \in Nat,
         p + n < q + o
  PROVE  r + p + n < r + q + o
OBVIOUS

\* A goroutine and its queue have less between them, and the others the same.
LEMMA LessForwarder ==
  ASSUME NEW q \in Nat, NEW p \in Nat, NEW o \in Nat, NEW n \in Nat, NEW f \in Nat, NEW g \in Nat,
         p + g < q + f, n - o = g - f
  PROVE  p + n < q + o
OBVIOUS

\* An item that is handled pays for what it queues.
LEMMA FewerLeft ==
  ASSUME NEW r \in Nat, NEW q \in Nat, NEW s \in Nat, NEW p \in Nat, NEW c \in Nat,
         s + (c + 1) <= r, p <= q + c
  PROVE  s + p < r + q
OBVIOUS

\* An item handled leaves one item less, or the end of the message.
LEMMA ItemHandled ==
  ASSUME StatesOK, StatesOK', AudioOK, NEW item \in {"text", "tool", "interrupt", "audio"},
         Handled(item)
  PROVE  ReaderLeft' + (ChunkCost + 1) <= ReaderLeft
<1>1. ReaderLeft = 6 + ItemCost + ItemsLeft
  BY DEF ReaderLeft, Handled
<1>2. ChunkCost \in Nat /\ ItemCost = ChunkCost + 1 /\ ItemsLeft \in Nat
  BY CostsNat, CostLeftNat DEF ItemCost
<1>3. CASE reader' = "read"
  <2>1. ReaderLeft' = 6
    BY <1>3 DEF ReaderLeft
  <2> QED BY <1>1, <1>2, <2>1
<1>4. CASE reader' # "read"
  <2>1. items < MaxItems /\ reader' \in {"text", "tool", "interrupt", "audio"} /\ items' = items + 1
    BY <1>4 DEF Handled, After
  <2>2. items \in Nat /\ MaxItems \in Nat
    BY MediaAssumption DEF StatesOK
  <2>3. ItemsLeft' = ItemsLeft - ItemCost
    <3>1. ItemCost * (MaxItems - (items + 1)) = ItemCost * (MaxItems - items) - ItemCost
      <4>1. ItemCost \in Nat
        BY CostsNat, Zenon
      <4>2. items < MaxItems
        BY <2>1, Zenon
      <4> QED BY <2>2, <4>1, <4>2, TimesLess, Zenon
    <3>2. ItemsLeft' = ItemCost * (MaxItems - items')
      BY DEF ItemsLeft, ItemCost, ChunkCost
    <3> QED BY <2>1, <3>1, <3>2, Zenon DEF ItemsLeft
  <2>4. ReaderLeft' = 6 + ItemCost + ItemsLeft'
    BY <2>1 DEF ReaderLeft
  <2> QED BY <1>1, <1>2, <2>3, <2>4
<1> QED BY <1>3, <1>4

\* A step of a session whose model is closed takes one from what is left, but for
\* the monitor's.
LEMMA NextRunsOut ==
  ASSUME StatesOK, AudioOK, StatesOK', AudioOK', [Next]_vars
  PROVE  RunsOut \/ UNCHANGED vars
<1> SUFFICES ASSUME ModelDone
             PROVE  \/ StepsLeft' < StepsLeft
                    \/ (Poll \/ MonitorEnds \/ DrainEnds) /\ UNCHANGED StepsLeft
                    \/ UNCHANGED vars
  BY DEF RunsOut
<1> DEFINE others == <<pump, frames, forward, toolForward, dc, inbound, scope>>
<1>0. MediaDone /\ scope \in {"stopping", "stopped", "closed"}
  BY DEF ModelDone, MediaDone, StatesOK
<1>n. Len(recvCh) \in Nat /\ texts \in Nat /\ tools \in Nat
  BY MediaAssumption DEF AudioOK, StatesOK
<1>c. ItemCost' = ItemCost /\ ChunkCost' = ChunkCost
  BY DEF ItemCost, ChunkCost
<1>t. /\ ReaderLeft \in Nat /\ QueuedLeft \in Nat /\ OthersLeft \in Nat
      /\ ReaderLeft' \in Nat /\ QueuedLeft' \in Nat /\ OthersLeft' \in Nat
      /\ PumpLeft \in Nat /\ PumpLeft' \in Nat /\ AudioLeft \in Nat /\ AudioLeft' \in Nat
  <2>1. ItemsLeft' \in Nat /\ AudioLeft' \in Nat
    <3>1. items' \in 0..MaxItems /\ MaxItems \in Nat
      BY MediaAssumption, Zenon DEF StatesOK
    <3>2. MaxItems - items' \in Nat
      BY <3>1, DifferenceNat, Zenon
    <3>3. Len(recvCh') \in Nat
      BY DEF AudioOK
    <3> QED BY <1>c, <3>2, <3>3, CostsNat, TimesNat, Zenon DEF ItemsLeft, AudioLeft
  <2>2. ReaderLeft' \in Nat
    <3>1. closed' \in 0..4
      BY Zenon DEF StatesOK
    <3> QED BY <1>c, <2>1, <3>1, CostsNat, ReaderSumNat, Zenon DEF ReaderLeft
  <2>3. QueuedLeft' \in Nat
    <3>1. texts' \in 0..TextCap /\ tools' \in 0..ToolCap /\ TextCap \in Nat /\ ToolCap \in Nat
      BY MediaAssumption DEF StatesOK
    <3>2. texts' \in Nat /\ tools' \in Nat
      BY <3>1
    <3> QED BY <2>1, <3>2, QueuedSumNat, Zenon DEF QueuedLeft
  <2>4. PumpLeft' \in Nat
    <3>1. frames' \in 0..MaxFrames /\ MaxFrames \in Nat
      BY MediaAssumption DEF StatesOK
    <3>2. frames' \in Nat
      BY <3>1
    <3> QED BY <3>2, PumpSumNat, Zenon DEF PumpLeft
  <2>5. OthersLeft' \in Nat
    <3>1. /\ CloseLeft' \in Nat /\ InboundLeft' \in Nat /\ ChannelLeft' \in Nat
          /\ ForwarderLeft(forward)' \in Nat /\ ForwarderLeft(toolForward)' \in Nat
      BY DEF ForwarderLeft, CloseLeft, InboundLeft, ChannelLeft
    <3> QED BY <2>4, <3>1, OthersSumNat, Zenon DEF OthersLeft
  <2> QED BY <2>1, <2>2, <2>3, <2>4, <2>5, LeftNat, CostLeftNat, OthersNat, Zenon
<1>a. AudioLeft \in Nat /\ AudioLeft' \in Nat
  BY <1>t, Zenon
<1>b. UNCHANGED recvCh => AudioLeft' = AudioLeft
  BY DEF AudioLeft
<1>r. ASSUME UNCHANGED others, ReaderLeft' + QueuedLeft' < ReaderLeft + QueuedLeft
      PROVE  StepsLeft' < StepsLeft
  <2>1. OthersLeft' = OthersLeft
    BY <1>r DEF OthersLeft, PumpLeft, ForwarderLeft, CloseLeft, InboundLeft, ChannelLeft
  <2> QED BY <1>r, <1>t, <2>1, LessReader, Zenon DEF StepsLeft
<1>o. ASSUME UNCHANGED <<reader, closed, items>>, QueuedLeft' + OthersLeft' < QueuedLeft + OthersLeft
      PROVE  StepsLeft' < StepsLeft
  <2>1. ReaderLeft' = ReaderLeft
    BY <1>o DEF ReaderLeft, ItemsLeft
  <2> QED BY <1>o, <1>t, <2>1, LessOthers, Zenon DEF StepsLeft
<1>p. ASSUME UNCHANGED <<adapterVars, forward, toolForward, dc, inbound, scope>>, PumpLeft' < PumpLeft
      PROVE  StepsLeft' < StepsLeft
  <2>1. QueuedLeft' = QueuedLeft
    BY <1>p DEF QueuedLeft, AudioLeft, adapterVars
  <2>2. OthersLeft' < OthersLeft
    <3>1. UNCHANGED <<ForwarderLeft(forward), ForwarderLeft(toolForward), CloseLeft, InboundLeft, ChannelLeft>>
      BY <1>p DEF ForwarderLeft, CloseLeft, InboundLeft, ChannelLeft
    <3> QED BY <1>p, <1>t, <3>1, OthersNat DEF OthersLeft
  <2>3. QueuedLeft' + OthersLeft' < QueuedLeft + OthersLeft
    BY <1>t, <2>1, <2>2, LeftLess, Zenon
  <2> QED BY <1>o, <1>p, <2>3, Zenon DEF adapterVars
<1> DEFINE OtherThanPump == ForwarderLeft(forward) + ForwarderLeft(toolForward)
                              + CloseLeft + InboundLeft + ChannelLeft
<1>s. ASSUME UNCHANGED <<adapterVars, pumpVars>>, OtherThanPump' < OtherThanPump
      PROVE  StepsLeft' < StepsLeft
  <2>1. QueuedLeft' = QueuedLeft /\ PumpLeft' = PumpLeft
    BY <1>s DEF QueuedLeft, AudioLeft, PumpLeft, adapterVars, pumpVars
  <2>2. /\ ForwarderLeft(forward') \in Nat /\ ForwarderLeft(toolForward') \in Nat
        /\ CloseLeft' \in Nat /\ InboundLeft' \in Nat /\ ChannelLeft' \in Nat
    BY DEF ForwarderLeft, CloseLeft, InboundLeft, ChannelLeft
  <2>3. OthersLeft' < OthersLeft
    BY <1>s, <1>t, <2>1, <2>2, OthersNat DEF OthersLeft
  <2>4. QueuedLeft' + OthersLeft' < QueuedLeft + OthersLeft
    BY <1>t, <2>1, <2>3, LeftLess, Zenon
  <2> QED BY <1>o, <1>s, <2>4, Zenon DEF adapterVars
<1>1. CASE EmitText
  <2>1. ReaderLeft' + (ChunkCost + 1) <= ReaderLeft
    BY <1>1, ItemHandled DEF EmitText
  <2>2. (texts' = texts + 1 \/ texts' = texts) /\ UNCHANGED <<recvCh, tools>>
    BY <1>1 DEF EmitText, AudioOK
  <2>3. QueuedLeft' <= QueuedLeft + ChunkCost
    BY <1>n, <1>a, <1>b, <2>2, CostsNat, QueuedMore, Zenon DEF QueuedLeft
  <2>4. UNCHANGED others
    BY <1>1 DEF EmitText, pumpVars, forwardVars
  <2>5. ReaderLeft' + QueuedLeft' < ReaderLeft + QueuedLeft
    BY <1>t, <2>1, <2>3, CostsNat, FewerLeft, Zenon
  <2> QED BY <1>r, <2>4, <2>5, Zenon
<1>2. CASE EmitToolCall
  <2>1. ReaderLeft' + (ChunkCost + 1) <= ReaderLeft
    BY <1>2, ItemHandled DEF EmitToolCall
  <2>2. (tools' = tools + 1 \/ tools' = tools) /\ UNCHANGED <<recvCh, texts>>
    BY <1>2 DEF EmitToolCall, AudioOK
  <2>3. QueuedLeft' <= QueuedLeft + ChunkCost
    BY <1>n, <1>a, <1>b, <2>2, CostsNat, QueuedMore, Zenon DEF QueuedLeft
  <2>4. UNCHANGED others
    BY <1>2 DEF EmitToolCall, pumpVars, forwardVars
  <2>5. ReaderLeft' + QueuedLeft' < ReaderLeft + QueuedLeft
    BY <1>t, <2>1, <2>3, CostsNat, FewerLeft, Zenon
  <2> QED BY <1>r, <2>4, <2>5, Zenon
<1>3. CASE SignalInterrupted
  <2>1. ReaderLeft' + (ChunkCost + 1) <= ReaderLeft
    BY <1>3, ItemHandled DEF SignalInterrupted
  <2>2. Len(recvCh') = 0 /\ UNCHANGED <<texts, tools>>
    BY <1>3 DEF SignalInterrupted, AudioOK
  <2>3. QueuedLeft' <= QueuedLeft + ChunkCost
    <3>1. AudioLeft' = 0
      BY <2>2, <1>c, CostsNat DEF AudioLeft
    <3> QED BY <1>n, <1>a, <2>2, <3>1, CostsNat, QueuedMore, Zenon DEF QueuedLeft
  <2>4. UNCHANGED others
    BY <1>3 DEF SignalInterrupted, pumpVars, forwardVars
  <2>5. ReaderLeft' + QueuedLeft' < ReaderLeft + QueuedLeft
    BY <1>t, <2>1, <2>3, CostsNat, FewerLeft, Zenon
  <2> QED BY <1>r, <2>4, <2>5, Zenon
<1>4. CASE EmitAudio
  <2>1. ReaderLeft' + (ChunkCost + 1) <= ReaderLeft
    BY <1>4, ItemHandled DEF EmitAudio
  <2>2. Len(recvCh') = Len(recvCh) + 1 /\ UNCHANGED <<texts, tools>>
    BY <1>4 DEF EmitAudio, AudioOK
  <2>3. QueuedLeft' <= QueuedLeft + ChunkCost
    <3>1. AudioLeft' = AudioLeft + ChunkCost
      BY <1>c, <1>n, <2>2, CostsNat, TimesMore, Zenon DEF AudioLeft
    <3> QED BY <1>n, <1>a, <2>2, <3>1, CostsNat, QueuedMore, Zenon DEF QueuedLeft
  <2>4. UNCHANGED others
    BY <1>4 DEF EmitAudio, pumpVars, forwardVars
  <2>5. ReaderLeft' + QueuedLeft' < ReaderLeft + QueuedLeft
    BY <1>t, <2>1, <2>3, CostsNat, FewerLeft, Zenon
  <2> QED BY <1>r, <2>4, <2>5, Zenon
<1>5. CASE ReadEnds
  <2>1. ReaderLeft' < ReaderLeft
    BY <1>5, CostsNat, CostLeftNat DEF ReadEnds, ReaderLeft, StatesOK
  <2>2. QueuedLeft' = QueuedLeft /\ UNCHANGED others
    BY <1>5 DEF ReadEnds, QueuedLeft, AudioLeft, pumpVars, forwardVars
  <2>3. ReaderLeft' + QueuedLeft' < ReaderLeft + QueuedLeft
    BY <1>t, <2>1, <2>2, LeftLess, Zenon
  <2> QED BY <1>r, <2>2, <2>3, Zenon
<1>6. CASE CloseNext
  <2>1. ReaderLeft' < ReaderLeft
    <3>1. /\ reader = "ending" /\ closed \in 0..4
          /\ (reader' = "ending" /\ closed' = closed + 1) \/ reader' = "gone"
      BY <1>6 DEF CloseNext, StatesOK
    <3>2. CASE reader' = "gone"
      BY <3>1, <3>2 DEF ReaderLeft
    <3>3. CASE reader' = "ending" /\ closed' = closed + 1
      BY <3>1, <3>3 DEF ReaderLeft
    <3> QED BY <3>1, <3>2, <3>3
  <2>2. QueuedLeft' = QueuedLeft /\ UNCHANGED others
    BY <1>6 DEF CloseNext, QueuedLeft, AudioLeft, pumpVars, forwardVars
  <2>3. ReaderLeft' + QueuedLeft' < ReaderLeft + QueuedLeft
    BY <1>t, <2>1, <2>2, LeftLess, Zenon
  <2> QED BY <1>r, <2>2, <2>3, Zenon
<1>7. CASE PumpRecv
  <2>1. QueuedLeft' + OthersLeft' < QueuedLeft + OthersLeft
    <3>1. AudioLeft = AudioLeft' + ChunkCost
      <4>1. Len(recvCh') \in Nat /\ Len(recvCh) = Len(recvCh') + 1
        BY <1>7 DEF PumpRecv, AudioOK
      <4> QED BY <4>1, <1>c, CostsNat, TimesMore, Zenon DEF AudioLeft
    <3>2. QueuedLeft = QueuedLeft' + ChunkCost
      <4>1. QueuedLeft' = AudioLeft' + 2 * texts + 2 * tools
        BY <1>7, Zenon DEF PumpRecv, QueuedLeft
      <4>2. QueuedLeft = (AudioLeft' + ChunkCost) + 2 * texts + 2 * tools
        BY <3>1, Zenon DEF QueuedLeft
      <4>3. ChunkCost \in Nat /\ AudioLeft' \in Nat /\ texts \in Nat /\ tools \in Nat
        BY <1>n, <1>a, CostsNat, Zenon
      <4>4. QueuedLeft = (AudioLeft' + 2 * texts + 2 * tools) + ChunkCost
        BY <4>2, <4>3
      <4> QED BY <4>1, <4>4, Zenon
    <3>3. PumpLeft = 1 /\ PumpLeft' < ChunkCost + 1
      <4>1. pump = "recv" /\ pump' \in {"recv", "write"} /\ frames' \in 0..MaxFrames
        BY <1>7 DEF PumpRecv
      <4>2. PumpLeft = 1 /\ PumpLeft' \in {1, 2 * frames' + 1}
        BY <4>1 DEF PumpLeft
      <4>3. ChunkCost = 2 * MaxFrames + 3 /\ MaxFrames \in Nat
        BY MediaAssumption DEF ChunkCost
      <4> QED BY <4>1, <4>2, <4>3, FramesPaid, Zenon
    <3>4. UNCHANGED <<ForwarderLeft(forward), ForwarderLeft(toolForward), CloseLeft, InboundLeft, ChannelLeft>>
      BY <1>7 DEF PumpRecv, ForwarderLeft, CloseLeft, InboundLeft, ChannelLeft, forwardVars
    <3>5. OthersLeft' - OthersLeft = PumpLeft' - PumpLeft
      BY <1>t, <3>4, OthersNat DEF OthersLeft
    <3>6. QueuedLeft' + PumpLeft' < QueuedLeft + PumpLeft
      BY <1>t, <3>2, <3>3, CostsNat, ChunkPumped, Zenon
    <3> QED BY <1>t, <3>5, <3>6, LessForwarder, Zenon
  <2>2. UNCHANGED <<reader, closed, items>>
    BY <1>7 DEF PumpRecv, adapterVars
  <2> QED BY <1>o, <2>1, <2>2, Zenon
<1>8. CASE RecvTranscript
  <2>1. QueuedLeft' + OthersLeft' < QueuedLeft + OthersLeft
    <3>1. /\ forward = "recv"
          /\ \/ texts' = texts - 1 /\ forward' = "send"
             \/ texts' = texts /\ forward' = "gone"
          /\ UNCHANGED <<recvCh, tools, pump, frames, toolForward, dc, inbound, scope>>
      BY <1>8 DEF RecvTranscript, pumpVars
    <3>2. QueuedLeft' + ForwarderLeft(forward') < QueuedLeft + ForwarderLeft(forward)
      <4>1. QueuedLeft' = AudioLeft + 2 * texts' + 2 * tools
        BY <1>b, <3>1, Zenon DEF QueuedLeft
      <4>2. /\ ForwarderLeft(forward) = 1
            /\ forward' = "send" => ForwarderLeft(forward') = 2
            /\ forward' = "gone" => ForwarderLeft(forward') = 0
        BY <3>1 DEF ForwarderLeft
      <4> QED BY <1>n, <1>a, <3>1, <4>1, <4>2, TextForwarded, Zenon DEF QueuedLeft
    <3>3. UNCHANGED <<PumpLeft, ForwarderLeft(toolForward), CloseLeft, InboundLeft, ChannelLeft>>
      BY <3>1 DEF PumpLeft, ForwarderLeft, CloseLeft, InboundLeft, ChannelLeft
    <3>4. OthersLeft' - OthersLeft = ForwarderLeft(forward') - ForwarderLeft(forward)
      BY <3>3, OthersNat DEF OthersLeft
    <3> QED BY <1>t, <3>2, <3>4, OthersNat, LessForwarder, Zenon
  <2>2. UNCHANGED <<reader, closed, items>>
    BY <1>8 DEF RecvTranscript, adapterVars
  <2> QED BY <1>o, <2>1, <2>2, Zenon
<1>9. CASE RecvToolCall
  <2>1. QueuedLeft' + OthersLeft' < QueuedLeft + OthersLeft
    <3>1. /\ toolForward = "recv"
          /\ \/ tools' = tools - 1 /\ toolForward' = "send"
             \/ tools' = tools /\ toolForward' = "gone"
          /\ UNCHANGED <<recvCh, texts, pump, frames, forward, dc, inbound, scope>>
      BY <1>9 DEF RecvToolCall, pumpVars
    <3>2. QueuedLeft' + ForwarderLeft(toolForward') < QueuedLeft + ForwarderLeft(toolForward)
      <4>1. QueuedLeft' = AudioLeft + 2 * texts + 2 * tools'
        BY <1>b, <3>1, Zenon DEF QueuedLeft
      <4>2. /\ ForwarderLeft(toolForward) = 1
            /\ toolForward' = "send" => ForwarderLeft(toolForward') = 2
            /\ toolForward' = "gone" => ForwarderLeft(toolForward') = 0
        BY <3>1 DEF ForwarderLeft
      <4> QED BY <1>n, <1>a, <3>1, <4>1, <4>2, TextForwarded, Zenon DEF QueuedLeft
    <3>3. UNCHANGED <<PumpLeft, ForwarderLeft(forward), CloseLeft, InboundLeft, ChannelLeft>>
      BY <3>1 DEF PumpLeft, ForwarderLeft, CloseLeft, InboundLeft, ChannelLeft
    <3>4. OthersLeft' - OthersLeft = ForwarderLeft(toolForward') - ForwarderLeft(toolForward)
      BY <3>3, OthersNat DEF OthersLeft
    <3> QED BY <1>t, <3>2, <3>4, OthersNat, LessForwarder, Zenon
  <2>2. UNCHANGED <<reader, closed, items>>
    BY <1>9 DEF RecvToolCall, adapterVars
  <2> QED BY <1>o, <2>1, <2>2, Zenon
<1>10. CASE DrainChunk
  <2>1. QueuedLeft' < QueuedLeft
    <3>1. Len(recvCh') \in Nat /\ Len(recvCh) = Len(recvCh') + 1
      BY <1>10 DEF DrainChunk, AudioOK
    <3>2. AudioLeft = AudioLeft' + ChunkCost
      BY <3>1, <1>c, CostsNat, TimesMore, Zenon DEF AudioLeft
    <3>3. QueuedLeft' = AudioLeft' + 2 * texts + 2 * tools
      BY <1>10, Zenon DEF DrainChunk, QueuedLeft
    <3>4. QueuedLeft = (AudioLeft' + ChunkCost) + 2 * texts + 2 * tools
      BY <3>2, Zenon DEF QueuedLeft
    <3>5. /\ ChunkCost \in Nat /\ ChunkCost >= 3
          /\ AudioLeft' \in Nat /\ texts \in Nat /\ tools \in Nat
      BY <1>n, <1>a, CostsNat, Zenon
    <3>6. QueuedLeft = (AudioLeft' + 2 * texts + 2 * tools) + ChunkCost
      BY <3>4, <3>5
    <3>7. QueuedLeft = QueuedLeft' + ChunkCost
      BY <3>3, <3>6, Zenon
    <3> QED BY <1>t, <3>5, <3>7, LessByCost, Zenon
  <2>2. OthersLeft' = OthersLeft
    BY <1>10
    DEF DrainChunk, OthersLeft, PumpLeft, ForwarderLeft, CloseLeft, InboundLeft, ChannelLeft,
        pumpVars, forwardVars
  <2>3. QueuedLeft' + OthersLeft' < QueuedLeft + OthersLeft
    BY <1>t, <2>1, <2>2, LeftLess, Zenon
  <2>4. UNCHANGED <<reader, closed, items>>
    BY <1>10 DEF DrainChunk
  <2> QED BY <1>o, <2>3, <2>4, Zenon
<1>11. CASE PumpEnds
  <2>1. PumpLeft' < PumpLeft
    BY <1>11, MediaAssumption DEF PumpEnds, PumpLeft, StatesOK
  <2>2. UNCHANGED <<adapterVars, forward, toolForward, dc, inbound, scope>>
    BY <1>11 DEF PumpEnds, forwardVars
  <2> QED BY <1>p, <2>1, <2>2, Zenon
<1>12. CASE PumpWrite
  <2>1. PumpLeft' < PumpLeft
    BY <1>12, MediaAssumption DEF PumpWrite, PumpLeft, StatesOK
  <2>2. UNCHANGED <<adapterVars, forward, toolForward, dc, inbound, scope>>
    BY <1>12 DEF PumpWrite, forwardVars
  <2> QED BY <1>p, <2>1, <2>2, Zenon
<1>13. CASE PumpTick
  <2>1. PumpLeft' < PumpLeft
    <3>1. frames \in Nat
      BY MediaAssumption DEF StatesOK
    <3>2. /\ pump = "tick"
          /\ (pump' = "write" /\ frames' = frames) \/ pump' \in {"recv", "gone"}
      BY <1>13 DEF PumpTick
    <3> QED BY <3>1, <3>2 DEF PumpLeft
  <2>2. UNCHANGED <<adapterVars, forward, toolForward, dc, inbound, scope>>
    BY <1>13 DEF PumpTick, forwardVars
  <2> QED BY <1>p, <2>1, <2>2, Zenon
<1>14. CASE OpenChannel
  <2>1. OtherThanPump' < OtherThanPump
    BY <1>14, <1>0
    DEF OpenChannel, OtherThanPump, StatesOK, ForwarderLeft, CloseLeft, InboundLeft, ChannelLeft,
        forwardVars
  <2>2. UNCHANGED <<adapterVars, pumpVars>>
    BY <1>14 DEF OpenChannel
  <2> QED BY <1>s, <2>1, <2>2, Zenon
<1>15. CASE CloseChannel
  <2>1. OtherThanPump' < OtherThanPump
    BY <1>15, <1>0
    DEF CloseChannel, OtherThanPump, StatesOK, ForwarderLeft, CloseLeft, InboundLeft, ChannelLeft,
        forwardVars
  <2>2. UNCHANGED <<adapterVars, pumpVars>>
    BY <1>15 DEF CloseChannel
  <2> QED BY <1>s, <2>1, <2>2, Zenon
<1>16. CASE SendTranscript
  <2>1. OtherThanPump' < OtherThanPump
    BY <1>16, <1>0
    DEF SendTranscript, OtherThanPump, StatesOK, ForwarderLeft, CloseLeft, InboundLeft, ChannelLeft,
        forwardVars
  <2>2. UNCHANGED <<adapterVars, pumpVars>>
    BY <1>16 DEF SendTranscript
  <2> QED BY <1>s, <2>1, <2>2, Zenon
<1>17. CASE SendToolCall
  <2>1. OtherThanPump' < OtherThanPump
    BY <1>17, <1>0
    DEF SendToolCall, OtherThanPump, StatesOK, ForwarderLeft, CloseLeft, InboundLeft, ChannelLeft,
        forwardVars
  <2>2. UNCHANGED <<adapterVars, pumpVars>>
    BY <1>17 DEF SendToolCall
  <2> QED BY <1>s, <2>1, <2>2, Zenon
<1>18. CASE InboundStarts
  <2>1. OtherThanPump' < OtherThanPump
    BY <1>18, <1>0
    DEF InboundStarts, OtherThanPump, StatesOK, ForwarderLeft, CloseLeft, InboundLeft, ChannelLeft,
        forwardVars
  <2>2. UNCHANGED <<adapterVars, pumpVars>>
    BY <1>18 DEF InboundStarts
  <2> QED BY <1>s, <2>1, <2>2, Zenon
<1>19. CASE InboundEnds
  <2>1. OtherThanPump' < OtherThanPump
    BY <1>19, <1>0
    DEF InboundEnds, OtherThanPump, StatesOK, ForwarderLeft, CloseLeft, InboundLeft, ChannelLeft,
        forwardVars
  <2>2. UNCHANGED <<adapterVars, pumpVars>>
    BY <1>19 DEF InboundEnds
  <2> QED BY <1>s, <2>1, <2>2, Zenon
<1>20. CASE ModelStopped
  <2>1. OtherThanPump' < OtherThanPump
    BY <1>20, <1>0
    DEF ModelStopped, OtherThanPump, StatesOK, ForwarderLeft, CloseLeft, InboundLeft, ChannelLeft,
        forwardVars
  <2>2. UNCHANGED <<adapterVars, pumpVars>>
    BY <1>20 DEF ModelStopped
  <2> QED BY <1>s, <2>1, <2>2, Zenon
<1>21. CASE ClosePeer
  <2>1. OtherThanPump' < OtherThanPump
    BY <1>21, <1>0
    DEF ClosePeer, OtherThanPump, StatesOK, ForwarderLeft, CloseLeft, InboundLeft, ChannelLeft,
        forwardVars
  <2>2. UNCHANGED <<adapterVars, pumpVars>>
    BY <1>21 DEF ClosePeer
  <2> QED BY <1>s, <2>1, <2>2, Zenon
<1>22. CASE Poll \/ MonitorEnds \/ DrainEnds
  <2>1. UNCHANGED <<reader, closed, items, recvCh, texts, tools, others>>
    BY <1>22 DEF Poll, MonitorEnds, DrainEnds, adapterVars, pumpVars, monitorVars, forwardVars
  <2>2. UNCHANGED StepsLeft
    BY <2>1
    DEF StepsLeft, ReaderLeft, ItemsLeft, QueuedLeft, AudioLeft, OthersLeft, PumpLeft,
        ForwarderLeft, CloseLeft, InboundLeft, ChannelLeft
  <2> QED BY <1>22, <2>2, Zenon
<1>23. CASE ReadMessage \/ CloseScope \/ StopModel
  BY <1>0, <1>23 DEF ReadMessage, CloseScope, StopModel, ModelDone
<1>24. CASE UNCHANGED vars
  BY <1>24
<1> QED
  BY <1>1, <1>2, <1>3, <1>4, <1>5, <1>6, <1>7, <1>8, <1>9, <1>10, <1>11, <1>12,
     <1>13, <1>14, <1>15, <1>16, <1>17, <1>18, <1>19, <1>20, <1>21, <1>22, <1>23, <1>24, Zenon
  DEF Next, Fan, Pump, Monitor, Forward, ForwardTools, Closing

----------------------------------------------------------------------------
(* Theorems                                                                *)

\* The inductive invariant of a session.
THEOREM MediaInvariance == Spec => []MediaInv
<1>1. Init => MediaInv
  BY InitMediaInv
<1>2. MediaInv /\ [Next]_vars => MediaInv'
  BY NextMediaInv
<1> QED BY <1>1, <1>2, PTL DEF Spec

\* The variables keep their types.
THEOREM MediaTypeCorrect == Spec => []TypeOK
<1>1. MediaInv => TypeOK
  BY Zenon DEF MediaInv
<1> QED BY <1>1, MediaInvariance, PTL

\* After an interruption that readLoop has read, no older audio is queued,
\* however its drain, the pump and the monitor interleave.
THEOREM InterruptedStaysSilent == Spec => []InterruptedIsSilent
<1>1. MediaInv => InterruptedIsSilent
  BY Zenon DEF MediaInv
<1> QED BY <1>1, MediaInvariance, PTL

\* A chunk that the monitor drops came after an interruption that the monitor had
\* not finished with: drainAudioQueue takes nothing that came after that, until
\* the adapter has ended (bridge.go, gemini.go).
THEOREM LossHasCause == Spec => LostToInterruption
<1>1. MediaInv /\ [Next]_vars => [DrainChunk => Head(recvCh).cut \/ SignalClosed]_vars
  <2> SUFFICES ASSUME MediaInv, DrainChunk, ~SignalClosed PROVE Head(recvCh).cut
    OBVIOUS
  <2>1. monitor = "drain" /\ recvCh # <<>> /\ recvCh \in Seq(Chunk)
    BY TypeParts DEF DrainChunk, MediaInv, AudioOK
  <2>2. Head(recvCh) = recvCh[1] /\ 1 \in 1..Len(recvCh)
    BY <2>1
  <2> QED BY <2>1, <2>2 DEF MediaInv, DrainHasCause
<1> QED BY <1>1, MediaInvariance, PTL DEF Spec, LostToInterruption

\* Once Close has cancelled the context of the model, every step of the session
\* but the monitor's is one of at most StepsLeft, whatever is queued in its
\* channels and whatever the browser and the provider do: no goroutine of it
\* can go on for ever, or start another (bridge.go, gemini.go), except the
\* monitor.
THEOREM ClosedSessionRunsOut == Spec => [](StepsLeft \in Nat) /\ [][RunsOut]_vars
<1>1. MediaInv => StepsLeft \in Nat
  BY TypeParts, LeftNat, Zenon DEF MediaInv
<1>2. MediaInv /\ [Next]_vars => [RunsOut]_vars
  BY NextMediaInv, TypeParts, NextRunsOut, Zenon DEF MediaInv
<1> QED BY <1>1, <1>2, MediaInvariance, PTL DEF Spec
=============================================================================
