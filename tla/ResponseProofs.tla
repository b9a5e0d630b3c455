----------------------------- MODULE ResponseProofs -----------------------------
(***************************************************************************)
(* Proofs about Response, for any capacities of the channels and replies   *)
(* of any length: its types, and that whatever its goroutines do, it is a  *)
(* response as ResponseLife has it, that voices its reply in order, hands  *)
(* back all of it unless cancelled, and is never stuck once it is.  That   *)
(* it ends is left to the runs.                                            *)
(***************************************************************************)
EXTENDS Response, SequenceTheorems, WellFoundedInduction, TLAPS

\* The control states of the goroutines and the counters.
StatesOK ==
  /\ at \in {"spawned", "asking", "reading", "sending", "flushing", "joining", "reply", "done"}
  /\ attempt \in 0..2
  /\ llm \in {"off", "reading", "sending", "done"}
  /\ generated \in 0..MaxTokens
  /\ worker \in {"off", "idle", "asking", "forwarding", "holding", "draining", "done"}
  /\ tts \in {"off", "reading", "sending", "done"}
  /\ made \in 0..MaxChunks
  /\ cancelled \in BOOLEAN /\ closed \in BOOLEAN
  /\ llm = "sending" => generated > 0
  /\ tts = "sending" => made > 0

\* The text on its way from the LLM stage to the worker.
TextOK ==
  /\ deltas \in Seq(Tokens) /\ Len(deltas) <= DeltaCap
  /\ full \in Seq(Tokens) /\ piece \in Seq(Tokens) /\ kept \in Seq(Tokens)
  /\ current \in Seq(Tokens)
  /\ segments \in Seq(Seq(Tokens)) /\ Len(segments) <= SegmentCap
  /\ worked \in Seq(Seq(Tokens))

\* The audio on its way from the TTS stage to the bridge.
AudioOK ==
  /\ held \in Chunk \cup {NoChunk}
  /\ worker = "holding" => held \in Chunk
  /\ pcm \in Seq(Chunk) /\ Len(pcm) <= PcmCap
  /\ recvCh \in Seq(Chunk) /\ Len(recvCh) <= AudioCap
  /\ voiced \in Seq(Chunk)

\* The worker is there from the answer of the LLM to the end of the segments:
\* respond() has gone on only without it.
WorkerWithin ==
  /\ at \in {"spawned", "asking"} => worker = "off"
  /\ at \in {"reply", "done"} => worker \in {"off", "done"}

IInv == StatesOK /\ TextOK /\ AudioOK /\ WorkerWithin

\* The invariant holds the types.
LEMMA IInvGivesTypeOK == IInv => TypeOK
BY DEF IInv, StatesOK, TextOK, AudioOK, TypeOK

\* What is left of a channel from which a message is taken.
LEMMA Taken ==
  ASSUME NEW S, NEW q \in Seq(S), q # <<>>, NEW cap \in Nat, Len(q) <= cap
  PROVE  Head(q) \in S /\ Tail(q) \in Seq(S) /\ Len(Tail(q)) <= cap
OBVIOUS

\* What a send on a queue with room for it leaves in the queue.
LEMMA SentFits ==
  ASSUME NEW S, NEW q \in Seq(S), NEW x \in S, NEW cap \in Nat, Len(q) < cap
  PROVE  Append(q, x) \in Seq(S) /\ Len(Append(q, x)) <= cap
OBVIOUS

\* The chunk that the TTS has made is one.
LEMMA ChunkMade ==
  ASSUME StatesOK, TextOK, made > 0
  PROVE  [of |-> current, n |-> made] \in Chunk
BY DEF StatesOK, TextOK, Chunk

\* The invariant holds initially.
LEMMA InitIInv == Init => IInv
<1> SUFFICES ASSUME Init PROVE IInv
  OBVIOUS
<1>0. cancelled \in BOOLEAN /\ closed \in BOOLEAN
  BY Zenon DEF Init
<1>1. StatesOK /\ WorkerWithin
  BY <1>0, ResponseAssumption DEF Init, StatesOK, WorkerWithin
<1>2. TextOK
  BY ResponseAssumption DEF Init, TextOK
<1>3. AudioOK
  BY ResponseAssumption DEF Init, AudioOK
<1> QED BY <1>1, <1>2, <1>3 DEF IInv

\* Every step keeps the control states, and respond() ahead of its worker.
LEMMA NextStatesOK ==
  ASSUME StatesOK, WorkerWithin, [Next]_vars
  PROVE  StatesOK' /\ WorkerWithin'
<1> DEFINE Goal == StatesOK' /\ WorkerWithin'
<1> SUFFICES Goal
  OBVIOUS
<1> USE ResponseAssumption DEF StatesOK, WorkerWithin, llmVars, textVars, workerVars, ttsVars, audioVars, ctxVars
<1>1. CASE Register
  BY <1>1 DEF Register, Goto
<1>2. CASE AskFails
  BY <1>2 DEF AskFails
<1>3. CASE AskAnswered
  BY <1>3 DEF AskAnswered, Goto
<1>4. CASE TakeDelta
  BY <1>4 DEF TakeDelta
<1>5. CASE SendSegment
  BY <1>5 DEF SendSegment, Goto
<1>6. CASE EndDeltas
  BY <1>6 DEF EndDeltas, DeltasEnded
<1>7. CASE Flush
  BY <1>7 DEF Flush, Goto
<1>8. CASE Join
  BY <1>8 DEF Join
<1>9. CASE HandOver
  BY <1>9 DEF HandOver, Goto
<1>10. CASE Generate
  BY <1>10 DEF Generate
<1>11. CASE SendToken
  BY <1>11 DEF SendToken
<1>12. CASE EndReply
  BY <1>12 DEF EndReply
<1>13. CASE TakeSegment
  BY <1>13 DEF TakeSegment, WorkerGoto
<1>14. CASE TakeChunk
  BY <1>14 DEF TakeChunk, WorkerGoto
<1>15. CASE Forward
  BY <1>15 DEF Forward, WorkerGoto
<1>16. CASE Abort
  BY <1>16 DEF Abort, WorkerGoto
<1>17. CASE Drain
  BY <1>17 DEF Drain
<1>18. CASE EndSegment
  BY <1>18 DEF EndSegment, Through
<1>19. CASE WorkerEnds
  BY <1>19 DEF WorkerEnds, SegmentsEnded
<1>20. CASE SynthesizeFails
  BY <1>20 DEF SynthesizeFails, Through
<1>21. CASE Synthesize
  BY <1>21 DEF Synthesize, WorkerGoto
<1>22. CASE MakeChunk
  BY <1>22 DEF MakeChunk
<1>23. CASE SendChunk
  BY <1>23 DEF SendChunk
<1>24. CASE EndAudio
  BY <1>24 DEF EndAudio
<1>25. CASE BargeIn
  BY <1>25 DEF BargeIn
<1>26. CASE Close
  BY <1>26 DEF Close
<1>27. CASE Recv
  BY <1>27 DEF Recv
<1>28. CASE UNCHANGED vars
  BY <1>28 DEF vars
<1> HIDE DEF Goal, StatesOK, WorkerWithin, llmVars, textVars, workerVars, ttsVars, audioVars, ctxVars
<1> QED
  BY <1>1, <1>2, <1>3, <1>4, <1>5, <1>6, <1>7, <1>8, <1>9, <1>10, <1>11, <1>12, <1>13, <1>14, <1>15, <1>16, <1>17, <1>18, <1>19, <1>20, <1>21, <1>22, <1>23, <1>24, <1>25, <1>26, <1>27, <1>28, Zenon
  DEF Next, Segmenter, Worker

\* Every step keeps the text.
LEMMA NextTextOK ==
  ASSUME StatesOK, TextOK, [Next]_vars
  PROVE  TextOK'
<1> DEFINE Goal == TextOK'
<1> SUFFICES Goal
  OBVIOUS
<1> USE ResponseAssumption DEF StatesOK, TextOK, Tokens, llmVars, textVars, workerVars, ttsVars, audioVars, ctxVars
<1>1. CASE Register
  BY <1>1 DEF Register, Goto
<1>2. CASE AskFails
  BY <1>2 DEF AskFails
<1>3. CASE AskAnswered
  BY <1>3 DEF AskAnswered, Goto
<1>4. CASE TakeDelta
  <2>1. /\ Head(deltas) \in Tokens
        /\ Tail(deltas) \in Seq(Tokens) /\ Len(Tail(deltas)) <= DeltaCap
    <3>1. deltas # <<>>
      BY <1>4 DEF TakeDelta
    <3> QED BY <3>1, Taken
  <2>2. /\ deltas' = Tail(deltas)
        /\ full' = Append(full, Head(deltas))
        /\ piece' \in {piece, Append(piece, Head(deltas))}
        /\ kept' \in {kept, Append(kept, Head(deltas))}
        /\ UNCHANGED <<current, segments, worked>>
    BY <1>4 DEF TakeDelta
  <2>3. /\ Append(full, Head(deltas)) \in Seq(Tokens)
        /\ Append(piece, Head(deltas)) \in Seq(Tokens)
        /\ Append(kept, Head(deltas)) \in Seq(Tokens)
    BY <2>1
  <2> QED BY <2>1, <2>2, <2>3
<1>5. CASE SendSegment
  BY <1>5 DEF SendSegment, Goto
<1>6. CASE EndDeltas
  BY <1>6 DEF EndDeltas, DeltasEnded
<1>7. CASE Flush
  BY <1>7 DEF Flush, Goto
<1>8. CASE Join
  BY <1>8 DEF Join
<1>9. CASE HandOver
  BY <1>9 DEF HandOver, Goto
<1>10. CASE Generate
  BY <1>10 DEF Generate
<1>11. CASE SendToken
  <2>1. UNCHANGED <<full, piece, kept, current, segments, worked>>
    BY <1>11 DEF SendToken
  <2>2. CASE Len(deltas) < DeltaCap /\ deltas' = Append(deltas, generated) /\ generated > 0
    <3>1. generated \in Tokens
      BY <2>2
    <3>2. deltas' \in Seq(Tokens) /\ Len(deltas') = Len(deltas) + 1
      BY <2>2, <3>1
    <3> QED BY <2>1, <2>2, <3>2
  <2>3. CASE UNCHANGED deltas
    BY <2>1, <2>3
  <2> QED BY <1>11, <2>2, <2>3 DEF SendToken
<1>12. CASE EndReply
  BY <1>12 DEF EndReply
<1>13. CASE TakeSegment
  <2>1. /\ segments # <<>> /\ current' = Head(segments) /\ segments' = Tail(segments)
        /\ UNCHANGED <<deltas, full, piece, kept>>
    BY <1>13 DEF TakeSegment
  <2>2. /\ Head(segments) \in Seq(Tokens) /\ Tail(segments) \in Seq(Seq(Tokens))
        /\ Len(Tail(segments)) <= SegmentCap
    BY <2>1, Taken
  <2>3. worked' \in Seq(Seq(Tokens))
    BY <1>13, <2>2 DEF TakeSegment
  <2> HIDE DEF Tokens
  <2> QED BY <2>1, <2>2, <2>3
<1>14. CASE TakeChunk
  BY <1>14 DEF TakeChunk, WorkerGoto
<1>15. CASE Forward
  BY <1>15 DEF Forward, WorkerGoto
<1>16. CASE Abort
  BY <1>16 DEF Abort, WorkerGoto
<1>17. CASE Drain
  BY <1>17 DEF Drain
<1>18. CASE EndSegment
  BY <1>18 DEF EndSegment, Through
<1>19. CASE WorkerEnds
  BY <1>19 DEF WorkerEnds, SegmentsEnded
<1>20. CASE SynthesizeFails
  BY <1>20 DEF SynthesizeFails, Through
<1>21. CASE Synthesize
  BY <1>21 DEF Synthesize, WorkerGoto
<1>22. CASE MakeChunk
  BY <1>22 DEF MakeChunk
<1>23. CASE SendChunk
  BY <1>23 DEF SendChunk
<1>24. CASE EndAudio
  BY <1>24 DEF EndAudio
<1>25. CASE BargeIn
  BY <1>25 DEF BargeIn
<1>26. CASE Close
  BY <1>26 DEF Close
<1>27. CASE Recv
  BY <1>27 DEF Recv
<1>28. CASE UNCHANGED vars
  BY <1>28 DEF vars
<1> HIDE DEF Goal, StatesOK, TextOK, Tokens, llmVars, textVars, workerVars, ttsVars, audioVars, ctxVars
<1> QED
  BY <1>1, <1>2, <1>3, <1>4, <1>5, <1>6, <1>7, <1>8, <1>9, <1>10, <1>11, <1>12, <1>13, <1>14, <1>15, <1>16, <1>17, <1>18, <1>19, <1>20, <1>21, <1>22, <1>23, <1>24, <1>25, <1>26, <1>27, <1>28, Zenon
  DEF Next, Segmenter, Worker

\* Every step keeps the audio.
LEMMA NextAudioOK ==
  ASSUME StatesOK, TextOK, AudioOK, [Next]_vars
  PROVE  AudioOK'
<1> DEFINE Goal == AudioOK'
<1> SUFFICES Goal
  OBVIOUS
<1> USE ResponseAssumption DEF StatesOK, TextOK, AudioOK, llmVars, textVars, workerVars, ttsVars, audioVars, ctxVars
<1>1. CASE Register
  BY <1>1 DEF Register, Goto
<1>2. CASE AskFails
  BY <1>2 DEF AskFails
<1>3. CASE AskAnswered
  BY <1>3 DEF AskAnswered, Goto
<1>4. CASE TakeDelta
  BY <1>4 DEF TakeDelta
<1>5. CASE SendSegment
  BY <1>5 DEF SendSegment, Goto
<1>6. CASE EndDeltas
  BY <1>6 DEF EndDeltas, DeltasEnded
<1>7. CASE Flush
  BY <1>7 DEF Flush, Goto
<1>8. CASE Join
  BY <1>8 DEF Join
<1>9. CASE HandOver
  BY <1>9 DEF HandOver, Goto
<1>10. CASE Generate
  BY <1>10 DEF Generate
<1>11. CASE SendToken
  BY <1>11 DEF SendToken
<1>12. CASE EndReply
  BY <1>12 DEF EndReply
<1>13. CASE TakeSegment
  BY <1>13 DEF TakeSegment, WorkerGoto
<1>14. CASE TakeChunk
  <2>1. /\ Head(pcm) \in Chunk
        /\ Tail(pcm) \in Seq(Chunk) /\ Len(Tail(pcm)) <= PcmCap
    <3>1. pcm # <<>>
      BY <1>14 DEF TakeChunk
    <3> QED BY <3>1, Taken
  <2>2. held' = Head(pcm) /\ pcm' = Tail(pcm) /\ UNCHANGED <<recvCh, voiced>>
    BY <1>14 DEF TakeChunk
  <2> QED BY <2>1, <2>2
<1>15. CASE Forward
  BY <1>15 DEF Forward, WorkerGoto
<1>16. CASE Abort
  BY <1>16 DEF Abort, WorkerGoto
<1>17. CASE Drain
  BY <1>17 DEF Drain
<1>18. CASE EndSegment
  BY <1>18 DEF EndSegment, Through
<1>19. CASE WorkerEnds
  BY <1>19 DEF WorkerEnds, SegmentsEnded
<1>20. CASE SynthesizeFails
  BY <1>20 DEF SynthesizeFails, Through
<1>21. CASE Synthesize
  BY <1>21 DEF Synthesize, WorkerGoto
<1>22. CASE MakeChunk
  BY <1>22 DEF MakeChunk
<1>23. CASE SendChunk
  <2> DEFINE c == [of |-> current, n |-> made]
  <2>1. UNCHANGED <<held, worker, recvCh, voiced>>
    BY <1>23 DEF SendChunk
  <2>2. \/ made > 0 /\ Len(pcm) < PcmCap /\ pcm' = Append(pcm, c)
        \/ pcm' = pcm
    BY <1>23 DEF SendChunk
  <2>3. pcm \in Seq(Chunk) /\ Len(pcm) <= PcmCap /\ PcmCap \in Nat
    OBVIOUS
  <2>4. pcm' \in Seq(Chunk) /\ Len(pcm') <= PcmCap
    <3> HIDE DEF StatesOK, TextOK, AudioOK
    <3>1. made > 0 => c \in Chunk
      BY ChunkMade
    <3> HIDE DEF c
    <3> QED BY <2>2, <2>3, <3>1, SentFits
  <2> QED BY <2>1, <2>4
<1>24. CASE EndAudio
  BY <1>24 DEF EndAudio
<1>25. CASE BargeIn
  BY <1>25 DEF BargeIn
<1>26. CASE Close
  BY <1>26 DEF Close
<1>27. CASE Recv
  BY <1>27 DEF Recv
<1>28. CASE UNCHANGED vars
  BY <1>28 DEF vars
<1> HIDE DEF Goal, StatesOK, TextOK, AudioOK, llmVars, textVars, workerVars, ttsVars, audioVars, ctxVars
<1> QED
  BY <1>1, <1>2, <1>3, <1>4, <1>5, <1>6, <1>7, <1>8, <1>9, <1>10, <1>11, <1>12, <1>13, <1>14, <1>15, <1>16, <1>17, <1>18, <1>19, <1>20, <1>21, <1>22, <1>23, <1>24, <1>25, <1>26, <1>27, <1>28, Zenon
  DEF Next, Segmenter, Worker

\* Every step keeps the invariant.
LEMMA NextIInv == IInv /\ [Next]_vars => IInv'
BY NextStatesOK, NextTextOK, NextAudioOK, Zenon DEF IInv

\* The types hold in every state, whatever the capacities of the channels.
THEOREM ResponseTypes == Spec => []TypeOK
BY InitIInv, NextIInv, IInvGivesTypeOK, PTL DEF Spec

----------------------------------------------------------------------------
(* The refinement                                                          *)

\* What the orchestrator takes each point of respond() for.
LEMMA Phases ==
  /\ at = "spawned" => Phase = "spawned"
  /\ at \in {"asking", "reading", "sending", "flushing", "joining"} => Phase = "speaking"
  /\ at = "reply" => Phase = "reply"
  /\ at = "done" => Phase = "done"
BY DEF Phase

\* Where respond() is tells its phase.
LEMMA PhasesNext ==
  /\ at' = "spawned" => Phase' = "spawned"
  /\ at' \in {"asking", "reading", "sending", "flushing", "joining"} => Phase' = "speaking"
  /\ at' = "reply" => Phase' = "reply"
  /\ at' = "done" => Phase' = "done"
BY DEF Phase

\* A chunk at the end of recvCh.
LEMMA Queued ==
  ASSUME NEW S, NEW q \in Seq(S), NEW e \in S
  PROVE  /\ Append(q, e) # <<>>
         /\ Front(Append(q, e)) = q
         /\ Last(Append(q, e)) = e
BY DEF Front, Last

\* The response as the orchestrator sees it starts as it should.
LEMMA InitLife == Init => Life!Init
BY Phases, Zenon DEF Init, Life!Init

\* What a step among the goroutines does not let the orchestrator see.
Seen == <<at, recvCh, cancelled, closed>>

\* A step that changes none of these changes nothing ResponseLife tells of.
LEMMA Unseen ==
  ASSUME UNCHANGED Seen
  PROVE  UNCHANGED Life!vars
BY Zenon DEF Seen, Life!vars, Phase

\* Every step is one of a response, or goes unseen: the audio it queues it
\* queues while respond() waits for its worker, before the reply.
LEMMA NextLife ==
  ASSUME IInv, [Next]_vars
  PROVE  [Life!Next]_Life!vars
<1> DEFINE Goal == [Life!Next]_Life!vars
<1> SUFFICES Goal
  OBVIOUS
<1> USE DEF llmVars, textVars, workerVars, ttsVars, audioVars, ctxVars
<1>1. CASE Register
  <2>1. at = "spawned" /\ at' = "asking" /\ UNCHANGED <<cancelled, closed, recvCh>>
    BY <1>1 DEF Register, Goto
  <2>2. Life!Register
    BY <2>1, Phases, PhasesNext DEF Life!Register, Life!Becomes
  <2> QED BY <2>2 DEF Life!Next
<1>2. CASE AskFails
  <2>1. UNCHANGED <<cancelled, closed, recvCh>>
    BY <1>2 DEF AskFails
  <2>2. CASE at' = "done"
    <3>1. Life!Becomes("speaking", "done")
      BY <1>2, <2>1, <2>2, Phases, PhasesNext DEF AskFails, Life!Becomes
    <3> QED BY <3>1 DEF Life!Next, Life!StopSpeaking
  <2>3. CASE UNCHANGED at
    BY <2>1, <2>3, Unseen DEF Seen
  <2> QED BY <1>2, <2>2, <2>3 DEF AskFails
<1>3. CASE AskAnswered
  <2>1. /\ at \in {"asking", "reading", "sending", "flushing"}
        /\ at' \in {"reading", "sending", "flushing", "joining"}
        /\ UNCHANGED <<recvCh, cancelled, closed>>
    BY <1>3 DEF AskAnswered, Goto
  <2>2. Phase = "speaking" /\ Phase' = "speaking"
    BY <2>1, Phases, PhasesNext
  <2> QED BY <2>1, <2>2, Zenon DEF Life!vars
<1>4. CASE TakeDelta
  <2>1. /\ at \in {"asking", "reading", "sending", "flushing"}
        /\ at' \in {"reading", "sending", "flushing", "joining"}
        /\ UNCHANGED <<recvCh, cancelled, closed>>
    BY <1>4 DEF TakeDelta
  <2>2. Phase = "speaking" /\ Phase' = "speaking"
    BY <2>1, Phases, PhasesNext
  <2> QED BY <2>1, <2>2, Zenon DEF Life!vars
<1>5. CASE SendSegment
  <2>1. /\ at \in {"asking", "reading", "sending", "flushing"}
        /\ at' \in {"reading", "sending", "flushing", "joining"}
        /\ UNCHANGED <<recvCh, cancelled, closed>>
    BY <1>5 DEF SendSegment, Goto
  <2>2. Phase = "speaking" /\ Phase' = "speaking"
    BY <2>1, Phases, PhasesNext
  <2> QED BY <2>1, <2>2, Zenon DEF Life!vars
<1>6. CASE EndDeltas
  <2>1. /\ at \in {"asking", "reading", "sending", "flushing"}
        /\ at' \in {"reading", "sending", "flushing", "joining"}
        /\ UNCHANGED <<recvCh, cancelled, closed>>
    BY <1>6 DEF EndDeltas, DeltasEnded
  <2>2. Phase = "speaking" /\ Phase' = "speaking"
    BY <2>1, Phases, PhasesNext
  <2> QED BY <2>1, <2>2, Zenon DEF Life!vars
<1>7. CASE Flush
  <2>1. /\ at \in {"asking", "reading", "sending", "flushing"}
        /\ at' \in {"reading", "sending", "flushing", "joining"}
        /\ UNCHANGED <<recvCh, cancelled, closed>>
    BY <1>7 DEF Flush, Goto
  <2>2. Phase = "speaking" /\ Phase' = "speaking"
    BY <2>1, Phases, PhasesNext
  <2> QED BY <2>1, <2>2, Zenon DEF Life!vars
<1>8. CASE Join
  <2>1. at = "joining" /\ at' \in {"reply", "done"} /\ UNCHANGED <<cancelled, closed, recvCh>>
    BY <1>8 DEF Join
  <2>2. Life!StopSpeaking
    BY <2>1, Phases, PhasesNext DEF Life!StopSpeaking, Life!Becomes
  <2> QED BY <2>2 DEF Life!Next
<1>9. CASE HandOver
  <2>1. at = "reply" /\ at' = "done" /\ UNCHANGED <<cancelled, closed, recvCh>>
    BY <1>9 DEF HandOver, Goto
  <2>2. Life!HandOver
    BY <2>1, Phases, PhasesNext DEF Life!HandOver, Life!Becomes
  <2> QED BY <2>2 DEF Life!Next
<1>10. CASE Generate
  BY <1>10, Unseen, Zenon DEF Generate, Seen
<1>11. CASE SendToken
  BY <1>11, Unseen, Zenon DEF SendToken, Seen
<1>12. CASE EndReply
  BY <1>12, Unseen, Zenon DEF EndReply, Seen
<1>13. CASE TakeSegment
  BY <1>13, Unseen, Zenon DEF TakeSegment, Seen
<1>14. CASE TakeChunk
  BY <1>14, Unseen, Zenon DEF TakeChunk, Seen
<1>15. CASE Forward
  <2>0. worker = "holding"
    BY <1>15 DEF Forward, WorkerGoto
  <2>1. /\ at \in {"reading", "sending", "flushing", "joining"} /\ held \in Chunk
        /\ recvCh \in Seq(Chunk)
    BY <2>0 DEF IInv, StatesOK, AudioOK, WorkerWithin
  <2>2. /\ Len(recvCh) < AudioCap /\ recvCh' = Append(recvCh, held)
        /\ UNCHANGED <<at, cancelled, closed>>
    BY <1>15 DEF Forward
  <2>3. recvCh' # <<>> /\ Front(recvCh') = recvCh /\ Last(recvCh') \in Chunk
    BY <2>1, <2>2, Queued
  <2>4. Phase = "speaking" /\ Phase' = "speaking"
    BY <2>1, <2>2, Phases, PhasesNext
  <2>5. Life!Speak
    BY <2>2, <2>3, <2>4 DEF Life!Speak, Life!Front, Life!Last, Front, Last
  <2> QED BY <2>5 DEF Life!Next
<1>16. CASE Abort
  BY <1>16, Unseen, Zenon DEF Abort, Seen
<1>17. CASE Drain
  BY <1>17, Unseen, Zenon DEF Drain, Seen
<1>18. CASE EndSegment
  BY <1>18, Unseen, Zenon DEF EndSegment, Seen
<1>19. CASE WorkerEnds
  BY <1>19, Unseen, Zenon DEF WorkerEnds, Seen
<1>20. CASE SynthesizeFails
  BY <1>20, Unseen, Zenon DEF SynthesizeFails, Seen
<1>21. CASE Synthesize
  BY <1>21, Unseen, Zenon DEF Synthesize, Seen
<1>22. CASE MakeChunk
  BY <1>22, Unseen, Zenon DEF MakeChunk, Seen
<1>23. CASE SendChunk
  BY <1>23, Unseen, Zenon DEF SendChunk, Seen
<1>24. CASE EndAudio
  BY <1>24, Unseen, Zenon DEF EndAudio, Seen
<1>25. CASE BargeIn
  <2>1. cancelled' = TRUE /\ UNCHANGED <<at, closed, recvCh>>
    BY <1>25, Zenon DEF BargeIn
  <2>2. Phase' = Phase
    BY <2>1, Zenon DEF Phase
  <2>3. Life!Cancel
    BY <2>1, <2>2, Zenon DEF Life!Cancel
  <2> QED BY <2>3 DEF Life!Next
<1>26. CASE Close
  <2>1. cancelled' = TRUE /\ closed' = TRUE /\ UNCHANGED <<at, recvCh>>
    BY <1>26, Zenon DEF Close
  <2>2. Phase' = Phase
    BY <2>1, Zenon DEF Phase
  <2>3. Life!Cancel
    BY <2>1, <2>2, Zenon DEF Life!Cancel
  <2> QED BY <2>3 DEF Life!Next
<1>27. CASE Recv
  <2>1. recvCh # <<>> /\ recvCh' = Tail(recvCh) /\ UNCHANGED <<at, cancelled, closed>>
    BY <1>27 DEF Recv
  <2>2. Phase' = Phase
    BY <2>1, Zenon DEF Phase
  <2>3. Life!Recv
    BY <2>1, <2>2 DEF Life!Recv
  <2> QED BY <2>3 DEF Life!Next
<1>28. CASE UNCHANGED vars
  BY <1>28, Unseen, Zenon DEF vars, Seen
<1> HIDE DEF Goal
<1> QED
  BY <1>1, <1>2, <1>3, <1>4, <1>5, <1>6, <1>7, <1>8, <1>9, <1>10, <1>11, <1>12, <1>13, <1>14, <1>15, <1>16, <1>17, <1>18, <1>19, <1>20, <1>21, <1>22, <1>23, <1>24, <1>25, <1>26, <1>27, <1>28, Zenon
  DEF Next, Segmenter, Worker

\* The pipeline implements the response that the orchestrator counts on: it
\* queues audio only between its registration and its end, so that recvCh, once
\* drained after <-done (bargeIn, respond.go), stays silent.
THEOREM ResponseImplementsLife == Spec => Life!Spec
<1>1. Init => Life!Init
  BY InitLife
<1>2. IInv /\ [Next]_vars => [Life!Next]_Life!vars
  BY NextLife
<1> QED BY InitIInv, NextIInv, <1>1, <1>2, PTL DEF Spec, Life!Spec

----------------------------------------------------------------------------
(* The order of the audio                                                  *)

\* Every token of the one comes before every token of the other.
Below(a, b) == \A i \in 1..Len(a), j \in 1..Len(b) : a[i] < b[j]

\* The last token on its way, or through.
LastSent == IF llm = "sending" THEN generated - 1 ELSE generated

Sent(s) == \A i \in 1..Len(s) : s[i] <= LastSent

\* The tokens of s were sent before those that are not yet in a segment ...
BeforeRest(s) == Below(s, piece) /\ Below(s, deltas) /\ Sent(s)

\* ... and before those that the worker has not taken.
Ahead(s) == BeforeRest(s) /\ \A k \in 1..Len(segments) : Below(s, segments[k])

\* The text goes from channel to channel in the order it was generated in.
TextOrder ==
  /\ \A i, j \in 1..Len(deltas) : i < j => deltas[i] < deltas[j]
  /\ Sent(deltas) /\ Sent(piece) /\ Below(piece, deltas)
  /\ at \in {"sending", "flushing"} => piece # <<>>
  /\ \A k \in 1..Len(segments) : segments[k] # <<>> /\ BeforeRest(segments[k])
  /\ \A k, l \in 1..Len(segments) : k < l => Below(segments[k], segments[l])

\* The segment of the chunk that was queued last.
LastOf == voiced[Len(voiced)].of

\* The chunks of the current segment that were queued, and that were taken.
Heard == IF voiced # <<>> /\ LastOf = current THEN voiced[Len(voiced)].n ELSE 0
TakenChunks == IF worker = "holding" THEN Heard + 1 ELSE Heard

\* What the worker has in hand comes next: a segment of which nothing was heard,
\* after one that was sent before it, or the next chunk of the segment.
AudioOrder ==
  /\ VoicedInOrder
  /\ worker = "off" => voiced = <<>>
  /\ worker \in {"idle", "asking", "forwarding", "holding"} /\ voiced # <<>> => LastOf # <<>>
  /\ worker = "idle" /\ voiced # <<>> => Ahead(LastOf)
  /\ worker \in {"asking", "forwarding", "holding"} => current # <<>> /\ Ahead(current)
  /\ worker = "asking" /\ voiced # <<>> => Below(LastOf, current)
  /\ worker \in {"forwarding", "holding"} =>
       /\ voiced # <<>> => LastOf = current \/ Below(LastOf, current)
       /\ \A i \in 1..Len(pcm) : pcm[i] = [of |-> current, n |-> TakenChunks + i]
       /\ tts = "reading" => made = TakenChunks + Len(pcm)
       /\ tts = "sending" => made = TakenChunks + Len(pcm) + 1
  /\ worker = "holding" => held = [of |-> current, n |-> TakenChunks]

OrderInv == IInv /\ TextOrder /\ AudioOrder

\* The numbers of tokens are integers.
LEMMA Numbers == MaxTokens \in Nat /\ MaxChunks \in Nat /\ \A t \in Tokens : t \in Int
BY ResponseAssumption DEF Tokens

\* What the types say of the text on its way.
LEMMA TextTypes ==
  ASSUME IInv
  PROVE  /\ deltas \in Seq(Tokens) /\ piece \in Seq(Tokens) /\ segments \in Seq(Seq(Tokens))
         /\ \A k \in 1..Len(segments) : segments[k] \in Seq(Tokens)
         /\ generated \in Nat /\ LastSent \in Int
         /\ llm = "sending" => generated \in Tokens
BY Numbers DEF IInv, StatesOK, TextOK, LastSent, Tokens

\* A sequence that grows stays before what its new element is before.
LEMMA BelowAppend ==
  ASSUME NEW a \in Seq(Tokens), NEW b \in Seq(Tokens), NEW e \in Tokens,
         Below(a, b), \A j \in 1..Len(b) : e < b[j]
  PROVE  Below(Append(a, e), b)
BY DEF Below

\* What is before a sequence and its new element is before the whole.
LEMMA AppendBelow ==
  ASSUME NEW a \in Seq(Tokens), NEW b \in Seq(Tokens), NEW e \in Tokens,
         Below(a, b), \A i \in 1..Len(a) : a[i] < e
  PROVE  Below(a, Append(b, e))
BY DEF Below

\* Below is transitive, but for the empty sequence.
LEMMA BelowTrans ==
  ASSUME NEW a \in Seq(Tokens), NEW b \in Seq(Tokens), NEW c \in Seq(Tokens),
         b # <<>>, Below(a, b), Below(b, c)
  PROVE  Below(a, c)
<1> SUFFICES ASSUME NEW i \in 1..Len(a), NEW j \in 1..Len(c) PROVE a[i] < c[j]
  BY DEF Below
<1>1. a[i] < b[1] /\ b[1] < c[j] /\ a[i] \in Tokens /\ b[1] \in Tokens /\ c[j] \in Tokens
  BY DEF Below
<1> QED BY <1>1, Numbers

\* What was ahead of the text still is.
AheadKept == \A s \in Seq(Tokens) : Ahead(s) => Ahead(s)'

\* Steps that leave the text alone keep its order.
textState == <<at, llm, generated, deltas, piece, segments>>

\* The text's order depends on these alone.
LEMMA TextUntouched ==
  ASSUME UNCHANGED textState
  PROVE  (TextOrder => TextOrder') /\ AheadKept
BY DEF textState, TextOrder, AheadKept, Ahead, BeforeRest, Sent, Below, LastSent

\* The segments keep their order in a step that leaves them where they are, if
\* what was before the rest still is.
LEMMA SegmentsKept ==
  ASSUME IInv, TextOrder, UNCHANGED segments,
         \A s \in Seq(Tokens) : BeforeRest(s) => BeforeRest(s)'
  PROVE  /\ \A k \in 1..Len(segments') : (segments[k] # <<>> /\ BeforeRest(segments[k]))'
         /\ \A k, l \in 1..Len(segments') : k < l => Below(segments'[k], segments'[l])
         /\ AheadKept
<1>1. ASSUME NEW k \in 1..Len(segments) PROVE (segments[k] # <<>> /\ BeforeRest(segments[k]))'
  <2>1. PICK s \in Seq(Tokens) : s = segments[k] /\ s # <<>> /\ BeforeRest(s)
    BY TextTypes DEF TextOrder
  <2>2. BeforeRest(s)'
    BY <2>1
  <2> QED BY <2>1, <2>2
<1>2. \A k, l \in 1..Len(segments) : k < l => Below(segments[k], segments[l])
  BY DEF TextOrder
<1>3. ASSUME NEW s \in Seq(Tokens), Ahead(s) PROVE Ahead(s)'
  BY <1>3 DEF Ahead, Below
<1> QED BY <1>1, <1>2, <1>3 DEF AheadKept, Below

\* A step that sends nothing on keeps the order, be it that more was generated.
LEMMA TextAtRest ==
  ASSUME IInv, TextOrder, UNCHANGED <<deltas, piece, segments>>, LastSent' \in Int,
         LastSent' >= LastSent, at' \in {"sending", "flushing"} => piece # <<>>
  PROVE  TextOrder' /\ AheadKept
<1>1. ASSUME NEW s \in Seq(Tokens), Sent(s) PROVE Sent(s)'
  <2> SUFFICES ASSUME NEW i \in 1..Len(s) PROVE s[i] <= LastSent'
    BY DEF Sent
  <2>1. s[i] \in Int /\ s[i] <= LastSent /\ LastSent \in Int
    BY <1>1, TextTypes, Numbers DEF Sent
  <2> QED BY <2>1
<1>2. \A s \in Seq(Tokens) : BeforeRest(s) => BeforeRest(s)'
  BY <1>1 DEF BeforeRest, Below
<1>3. Sent(deltas)' /\ Sent(piece)'
  <2>1. PICK s \in Seq(Tokens), t \in Seq(Tokens) : s = deltas /\ t = piece /\ Sent(s) /\ Sent(t)
    BY TextTypes DEF TextOrder
  <2>2. Sent(s)' /\ Sent(t)'
    BY <1>1, <2>1
  <2> QED BY <2>1, <2>2
<1> QED BY <1>2, <1>3, SegmentsKept DEF TextOrder, Below

\* A token taken by the segmenter comes before those still to come ...
LEMMA DeltaTaken ==
  ASSUME IInv, TextOrder, deltas # <<>>, deltas' = Tail(deltas), UNCHANGED <<llm, generated, segments>>,
         \/ UNCHANGED piece /\ at' \notin {"sending", "flushing"}
         \/ piece' = Append(piece, Head(deltas))
  PROVE  TextOrder' /\ AheadKept
<1> DEFINE d == Head(deltas)
<1>1. /\ d = deltas[1] /\ d \in Tokens /\ deltas' \in Seq(Tokens)
      /\ Len(deltas') = Len(deltas) - 1
      /\ \A j \in 1..Len(deltas') : deltas'[j] = deltas[j + 1] /\ j + 1 \in 1..Len(deltas)
  BY TextTypes
<1>2. LastSent' = LastSent
  BY DEF LastSent
<1> HIDE DEF d
<1>3. /\ d <= LastSent /\ \A j \in 1..Len(deltas') : d < deltas'[j]
      /\ \A i, j \in 1..Len(deltas') : i < j => deltas'[i] < deltas'[j]
      /\ \A i \in 1..Len(deltas') : deltas'[i] <= LastSent
  BY <1>1, TextTypes DEF TextOrder, Sent
<1>4. ASSUME NEW s \in Seq(Tokens), Below(s, deltas)
      PROVE  Below(s, deltas') /\ \A i \in 1..Len(s) : s[i] < d
  BY <1>1, <1>4, TextTypes DEF Below
<1>5. CASE UNCHANGED piece /\ at' \notin {"sending", "flushing"}
  <2>1. \A s \in Seq(Tokens) : BeforeRest(s) => BeforeRest(s)'
    BY <1>2, <1>4, <1>5 DEF BeforeRest, Below, Sent
  <2>2. Below(piece, deltas)' /\ Sent(piece)' /\ Sent(deltas)'
    BY <1>2, <1>3, <1>4, <1>5, TextTypes DEF TextOrder, Below, Sent
  <2> QED BY <1>3, <1>5, <2>1, <2>2, SegmentsKept DEF TextOrder
<1>6. CASE piece' = Append(piece, d)
  <2>1. Below(piece', deltas') /\ piece' # <<>>
    <3>1. Below(piece, deltas')
      BY <1>4, TextTypes DEF TextOrder
    <3>2. \A j \in 1..Len(deltas') : d < deltas'[j]
      BY <1>3
    <3>3. Below(Append(piece, d), deltas')
      BY <1>1, <3>1, <3>2, BelowAppend, TextTypes
    <3> QED BY <1>6, <3>3, TextTypes
  <2>2. ASSUME NEW s \in Seq(Tokens), BeforeRest(s) PROVE BeforeRest(s)'
    <3>1. Below(s, piece')
      BY <1>1, <1>4, <1>6, <2>2, AppendBelow, TextTypes DEF BeforeRest
    <3> QED BY <1>2, <1>4, <2>2, <3>1 DEF BeforeRest, Below, Sent
  <2>3. Sent(piece)'
    BY <1>1, <1>2, <1>3, <1>6, TextTypes DEF TextOrder, Sent
  <2>4. Below(piece, deltas)' /\ Sent(deltas)'
    BY <1>2, <1>3, <2>1 DEF Below, Sent
  <2> QED BY <1>3, <2>1, <2>2, <2>3, <2>4, SegmentsKept DEF TextOrder
<1> QED BY <1>5, <1>6 DEF d

\* ... and a token sent to it after those before.
LEMMA TokenSent ==
  ASSUME IInv, TextOrder, llm = "sending", llm' = "reading", deltas' = Append(deltas, generated),
         UNCHANGED <<at, generated, piece, segments>>
  PROVE  TextOrder' /\ AheadKept
<1>1. /\ generated \in Tokens /\ deltas' \in Seq(Tokens) /\ Len(deltas') = Len(deltas) + 1
      /\ \A j \in 1..Len(deltas') : deltas'[j] = IF j <= Len(deltas) THEN deltas[j] ELSE generated
  BY TextTypes
<1>2. LastSent = generated - 1 /\ LastSent' = generated
  BY DEF LastSent
<1>3. ASSUME NEW s \in Seq(Tokens), Sent(s)
      PROVE  Sent(s)' /\ \A i \in 1..Len(s) : s[i] < generated
  <2>1. \A i \in 1..Len(s) : s[i] \in Int /\ s[i] <= LastSent
    BY <1>3, Numbers DEF Sent
  <2> QED BY <1>1, <1>2, <2>1, Numbers DEF Sent
<1>4. ASSUME NEW s \in Seq(Tokens), Below(s, deltas), Sent(s)
      PROVE  Below(s, deltas')
  BY <1>1, <1>3, <1>4, AppendBelow, TextTypes
<1>5. \A s \in Seq(Tokens) : BeforeRest(s) => BeforeRest(s)'
  BY <1>3, <1>4 DEF BeforeRest, Below
<1>6. \A i \in 1..Len(deltas) : deltas[i] < generated
  BY <1>3, TextTypes DEF TextOrder
<1>7. /\ \A i, j \in 1..Len(deltas') : i < j => deltas'[i] < deltas'[j]
      /\ \A i \in 1..Len(deltas') : deltas'[i] <= LastSent'
  <2>1. ASSUME NEW i \in 1..Len(deltas'), NEW j \in 1..Len(deltas'), i < j
        PROVE  deltas'[i] < deltas'[j]
    <3>1. i \in 1..Len(deltas) /\ deltas'[i] = deltas[i]
      BY <1>1, <2>1, TextTypes
    <3>2. CASE j \in 1..Len(deltas)
      BY <1>1, <2>1, <3>1, <3>2 DEF TextOrder
    <3>3. CASE j = Len(deltas')
      BY <1>1, <1>6, <3>1, <3>3, TextTypes
    <3> QED BY <1>1, <3>2, <3>3, TextTypes
  <2>2. ASSUME NEW i \in 1..Len(deltas') PROVE deltas'[i] <= LastSent'
    <3>1. CASE i \in 1..Len(deltas)
      BY <1>1, <1>2, <1>6, <3>1, TextTypes, Numbers
    <3>2. CASE i = Len(deltas')
      BY <1>1, <1>2, <3>2, TextTypes, Numbers
    <3> QED BY <1>1, <3>1, <3>2, TextTypes
  <2> QED BY <2>1, <2>2
<1>8. Below(piece, deltas)' /\ Sent(piece)'
  BY <1>3, <1>4, TextTypes DEF TextOrder, Below, Sent
<1> QED BY <1>5, <1>7, <1>8, SegmentsKept DEF TextOrder, Sent

\* A segment sent on comes after those before it ...
LEMMA SegmentSent ==
  ASSUME IInv, TextOrder, segments' = Append(segments, piece), piece' = <<>>, piece # <<>>,
         at' \notin {"sending", "flushing"}, UNCHANGED <<llm, generated, deltas>>
  PROVE  TextOrder' /\ AheadKept
<1>1. /\ Len(segments') = Len(segments) + 1
      /\ \A k \in 1..Len(segments') :
           segments'[k] = IF k <= Len(segments) THEN segments[k] ELSE piece
  BY TextTypes
<1>2. LastSent' = LastSent
  BY DEF LastSent
<1>3. ASSUME NEW s, Below(s, deltas), Sent(s) PROVE BeforeRest(s)'
  BY <1>2, <1>3 DEF BeforeRest, Below, Sent
<1>4. ASSUME NEW k \in 1..Len(segments') PROVE (segments[k] # <<>> /\ BeforeRest(segments[k]))'
  <2>1. PICK s : s = segments'[k] /\ s # <<>> /\ Below(s, deltas) /\ Sent(s)
    BY <1>1 DEF TextOrder, BeforeRest
  <2>2. BeforeRest(s)'
    BY <1>3, <2>1
  <2> QED BY <2>1, <2>2
<1>5. ASSUME NEW k \in 1..Len(segments'), NEW l \in 1..Len(segments'), k < l
      PROVE  Below(segments'[k], segments'[l])
  <2>1. k \in 1..Len(segments) /\ segments'[k] = segments[k]
    BY <1>1, <1>5
  <2>2. CASE l \in 1..Len(segments)
    BY <1>1, <1>5, <2>1, <2>2 DEF TextOrder
  <2>3. CASE l = Len(segments')
    BY <1>1, <2>1, <2>3 DEF TextOrder, BeforeRest
  <2> QED BY <1>1, <2>2, <2>3
<1>6. ASSUME NEW s \in Seq(Tokens), Ahead(s) PROVE Ahead(s)'
  <2>1. BeforeRest(s)' /\ \A k \in 1..Len(segments') : Below(s, segments'[k])
    BY <1>1, <1>3, <1>6 DEF Ahead, BeforeRest
  <2> QED BY <2>1 DEF Ahead, Below
<1>7. Sent(deltas)' /\ Sent(piece)' /\ Below(piece, deltas)'
  BY <1>2 DEF TextOrder, Sent, Below
<1> QED BY <1>4, <1>5, <1>6, <1>7 DEF TextOrder, AheadKept

\* ... and one taken off leaves the order of the others.
LEMMA SegmentTaken ==
  ASSUME IInv, TextOrder, segments # <<>>, segments' = Tail(segments),
         UNCHANGED <<at, llm, generated, deltas, piece>>, NEW h, h = Head(segments)
  PROVE  /\ TextOrder' /\ AheadKept
         /\ h \in Seq(Tokens) /\ h # <<>> /\ Ahead(h)'
         /\ \A s : Ahead(s) => Below(s, h)
<1>1. /\ Len(segments') = Len(segments) - 1 /\ h = segments[1] /\ 1 \in 1..Len(segments)
      /\ \A k \in 1..Len(segments') : segments'[k] = segments[k + 1] /\ k + 1 \in 1..Len(segments)
  BY TextTypes
<1>2. LastSent' = LastSent
  BY DEF LastSent
<1>3. ASSUME NEW s, BeforeRest(s) PROVE BeforeRest(s)'
  BY <1>2, <1>3 DEF BeforeRest, Below, Sent
<1>4. ASSUME NEW k \in 1..Len(segments') PROVE (segments[k] # <<>> /\ BeforeRest(segments[k]))'
  <2>1. PICK s : s = segments'[k] /\ s # <<>> /\ BeforeRest(s)
    BY <1>1 DEF TextOrder
  <2>2. BeforeRest(s)'
    BY <1>3, <2>1
  <2> QED BY <2>1, <2>2
<1>5. ASSUME NEW k \in 1..Len(segments'), NEW l \in 1..Len(segments'), k < l
      PROVE  Below(segments'[k], segments'[l])
  <2>1. k + 1 < l + 1
    BY <1>5
  <2> QED BY <1>1, <2>1 DEF TextOrder
<1>6. ASSUME NEW s, BeforeRest(s), \A k \in 1..Len(segments') : Below(s, segments'[k]) PROVE Ahead(s)'
  <2>1. BeforeRest(s)'
    BY <1>3, <1>6
  <2> QED BY <1>6, <2>1 DEF Ahead, Below
<1>7. AheadKept
  BY <1>1, <1>6 DEF AheadKept, Ahead
<1>8. Sent(deltas)' /\ Sent(piece)' /\ Below(piece, deltas)'
  BY <1>2 DEF TextOrder, Sent, Below
<1>9. h \in Seq(Tokens) /\ h # <<>> /\ BeforeRest(h)
  BY <1>1, TextTypes DEF TextOrder
<1>10. \A k \in 1..Len(segments') : Below(h, segments'[k])
  <2> SUFFICES ASSUME NEW k \in 1..Len(segments') PROVE Below(h, segments'[k])
    OBVIOUS
  <2>1. 1 < k + 1
    OBVIOUS
  <2> QED BY <1>1, <1>9, <2>1 DEF TextOrder
<1>11. Ahead(h)'
  BY <1>6, <1>9, <1>10
<1>12. TextOrder'
  BY <1>4, <1>5, <1>8 DEF TextOrder
<1> QED BY <1>1, <1>7, <1>9, <1>11, <1>12 DEF Ahead

\* Every step keeps the text in order, and what was ahead of it.
LEMMA NextTextOrder ==
  ASSUME IInv, TextOrder, [Next]_vars
  PROVE  TextOrder' /\ AheadKept
<1> DEFINE Goal == TextOrder' /\ AheadKept
<1> SUFFICES Goal
  OBVIOUS
<1>0. StatesOK /\ generated \in Nat /\ LastSent \in Int
  BY TextTypes DEF IInv
<1> USE DEF llmVars, textVars, workerVars, ttsVars, audioVars, ctxVars
<1>1. CASE Register
  <2>1. /\ UNCHANGED <<deltas, piece, segments>> /\ LastSent' \in Int /\ LastSent' >= LastSent
        /\ at' \in {"sending", "flushing"} => piece # <<>>
    BY <1>1, <1>0 DEF Register, Goto, TextOrder, LastSent, StatesOK
  <2> QED BY <2>1, TextAtRest
<1>2. CASE AskFails
  <2>1. /\ UNCHANGED <<deltas, piece, segments>> /\ LastSent' \in Int /\ LastSent' >= LastSent
        /\ at' \in {"sending", "flushing"} => piece # <<>>
    BY <1>2, <1>0 DEF AskFails, TextOrder, LastSent, StatesOK
  <2> QED BY <2>1, TextAtRest
<1>3. CASE AskAnswered
  <2>1. /\ UNCHANGED <<deltas, piece, segments>> /\ LastSent' \in Int /\ LastSent' >= LastSent
        /\ at' \in {"sending", "flushing"} => piece # <<>>
    BY <1>3, <1>0 DEF AskAnswered, Goto, TextOrder, LastSent, StatesOK
  <2> QED BY <2>1, TextAtRest
<1>4. CASE TakeDelta
  <2>1. /\ deltas # <<>> /\ deltas' = Tail(deltas) /\ UNCHANGED <<llm, generated, segments>>
        /\ \/ UNCHANGED piece /\ at' \notin {"sending", "flushing"}
           \/ piece' = Append(piece, Head(deltas))
    BY <1>4 DEF TakeDelta
  <2> QED BY <2>1, DeltaTaken
<1>5. CASE SendSegment
  <2>1. /\ segments' = Append(segments, piece) /\ piece' = <<>> /\ piece # <<>>
        /\ at' \notin {"sending", "flushing"} /\ UNCHANGED <<llm, generated, deltas>>
    BY <1>5 DEF SendSegment, Goto, TextOrder
  <2> QED BY <2>1, SegmentSent
<1>6. CASE EndDeltas
  <2>1. /\ UNCHANGED <<deltas, piece, segments>> /\ LastSent' \in Int /\ LastSent' >= LastSent
        /\ at' \in {"sending", "flushing"} => piece # <<>>
    BY <1>6, <1>0 DEF EndDeltas, DeltasEnded, TextOrder, LastSent, StatesOK
  <2> QED BY <2>1, TextAtRest
<1>7. CASE Flush
  <2>1. /\ segments' = Append(segments, piece) /\ piece' = <<>> /\ piece # <<>>
        /\ at' \notin {"sending", "flushing"} /\ UNCHANGED <<llm, generated, deltas>>
    BY <1>7 DEF Flush, Goto, TextOrder
  <2> QED BY <2>1, SegmentSent
<1>8. CASE Join
  <2>1. /\ UNCHANGED <<deltas, piece, segments>> /\ LastSent' \in Int /\ LastSent' >= LastSent
        /\ at' \in {"sending", "flushing"} => piece # <<>>
    BY <1>8, <1>0 DEF Join, TextOrder, LastSent, StatesOK
  <2> QED BY <2>1, TextAtRest
<1>9. CASE HandOver
  <2>1. /\ UNCHANGED <<deltas, piece, segments>> /\ LastSent' \in Int /\ LastSent' >= LastSent
        /\ at' \in {"sending", "flushing"} => piece # <<>>
    BY <1>9, <1>0 DEF HandOver, Goto, TextOrder, LastSent, StatesOK
  <2> QED BY <2>1, TextAtRest
<1>10. CASE Generate
  <2>1. /\ UNCHANGED <<deltas, piece, segments>> /\ LastSent' \in Int /\ LastSent' >= LastSent
        /\ at' \in {"sending", "flushing"} => piece # <<>>
    BY <1>10, <1>0 DEF Generate, TextOrder, LastSent, StatesOK
  <2> QED BY <2>1, TextAtRest
<1>11. CASE SendToken
  <2>1. UNCHANGED <<at, generated, piece, segments>> /\ llm = "sending"
    BY <1>11 DEF SendToken
  <2>2. CASE deltas' = Append(deltas, generated) /\ llm' = "reading"
    BY <2>1, <2>2, TokenSent
  <2>3. CASE llm' = "done" /\ UNCHANGED deltas
    <3>1. LastSent' \in Int /\ LastSent' >= LastSent /\ (at' \in {"sending", "flushing"} => piece # <<>>)
      BY <2>1, <2>3, <1>0 DEF TextOrder, LastSent
    <3> QED BY <2>1, <2>3, <3>1, TextAtRest
  <2> QED BY <1>11, <2>2, <2>3 DEF SendToken
<1>12. CASE EndReply
  <2>1. /\ UNCHANGED <<deltas, piece, segments>> /\ LastSent' \in Int /\ LastSent' >= LastSent
        /\ at' \in {"sending", "flushing"} => piece # <<>>
    BY <1>12, <1>0 DEF EndReply, TextOrder, LastSent, StatesOK
  <2> QED BY <2>1, TextAtRest
<1>13. CASE TakeSegment
  <2>1. segments # <<>> /\ segments' = Tail(segments) /\ UNCHANGED <<at, llm, generated, deltas, piece>>
    BY <1>13 DEF TakeSegment, WorkerGoto
  <2> QED BY <2>1, SegmentTaken
<1>14. CASE TakeChunk
  BY <1>14, TextUntouched DEF TakeChunk, WorkerGoto, textState
<1>15. CASE Forward
  BY <1>15, TextUntouched DEF Forward, WorkerGoto, textState
<1>16. CASE Abort
  BY <1>16, TextUntouched DEF Abort, WorkerGoto, textState
<1>17. CASE Drain
  <2>1. segments # <<>> /\ segments' = Tail(segments) /\ UNCHANGED <<at, llm, generated, deltas, piece>>
    BY <1>17 DEF Drain
  <2> QED BY <2>1, SegmentTaken
<1>18. CASE EndSegment
  BY <1>18, TextUntouched DEF EndSegment, Through, textState
<1>19. CASE WorkerEnds
  BY <1>19, TextUntouched DEF WorkerEnds, SegmentsEnded, textState
<1>20. CASE SynthesizeFails
  BY <1>20, TextUntouched DEF SynthesizeFails, Through, textState
<1>21. CASE Synthesize
  BY <1>21, TextUntouched DEF Synthesize, WorkerGoto, textState
<1>22. CASE MakeChunk
  BY <1>22, TextUntouched DEF MakeChunk, textState
<1>23. CASE SendChunk
  BY <1>23, TextUntouched DEF SendChunk, textState
<1>24. CASE EndAudio
  BY <1>24, TextUntouched DEF EndAudio, textState
<1>25. CASE BargeIn
  BY <1>25, TextUntouched DEF BargeIn, textState
<1>26. CASE Close
  BY <1>26, TextUntouched DEF Close, textState
<1>27. CASE Recv
  BY <1>27, TextUntouched DEF Recv, textState
<1>28. CASE UNCHANGED vars
  BY <1>28, TextUntouched DEF vars, textState
<1> HIDE DEF Goal
<1> QED
  BY <1>1, <1>2, <1>3, <1>4, <1>5, <1>6, <1>7, <1>8, <1>9, <1>10, <1>11, <1>12, <1>13, <1>14, <1>15, <1>16, <1>17, <1>18, <1>19, <1>20, <1>21, <1>22, <1>23, <1>24, <1>25, <1>26, <1>27, <1>28, Zenon
  DEF Next, Segmenter, Worker

\* What the types say of the audio.
LEMMA AudioTypes ==
  ASSUME IInv
  PROVE  /\ current \in Seq(Tokens) /\ pcm \in Seq(Chunk) /\ voiced \in Seq(Chunk)
         /\ made \in Nat
         /\ voiced # <<>> =>
              /\ Len(voiced) \in 1..Len(voiced)
              /\ voiced[Len(voiced)] \in Chunk /\ LastOf \in Seq(Tokens)
         /\ Heard \in Nat /\ TakenChunks \in Nat
<1>1. /\ current \in Seq(Tokens) /\ pcm \in Seq(Chunk) /\ voiced \in Seq(Chunk) /\ made \in Nat
  BY Numbers DEF IInv, StatesOK, TextOK, AudioOK
<1>2. ASSUME voiced # <<>>
      PROVE  /\ Len(voiced) \in 1..Len(voiced)
             /\ voiced[Len(voiced)] \in Chunk /\ LastOf \in Seq(Tokens)
             /\ voiced[Len(voiced)].n \in Nat
  <2>1. Len(voiced) \in 1..Len(voiced) /\ voiced[Len(voiced)] \in Chunk
    BY <1>1, <1>2
  <2> QED BY <2>1, Numbers DEF LastOf, Chunk
<1>3. Heard \in Nat
  BY <1>2 DEF Heard
<1> QED BY <1>1, <1>2, <1>3 DEF TakenChunks

\* Steps that leave the audio alone keep its order.
audioState == <<worker, current, held, tts, made, pcm, voiced>>

\* So does the audio's order, if no text gets ahead of other text.
LEMMA AudioUntouched ==
  ASSUME IInv, AudioOrder, AheadKept, UNCHANGED audioState
  PROVE  AudioOrder'
<1> USE DEF audioState
<1>1. LastOf' = LastOf /\ Heard' = Heard /\ TakenChunks' = TakenChunks
  BY DEF LastOf, Heard, TakenChunks
<1>2. ASSUME worker = "idle", voiced # <<>> PROVE Ahead(LastOf)'
  <2>1. PICK s \in Seq(Tokens) : s = LastOf /\ Ahead(s)
    BY <1>2, AudioTypes DEF AudioOrder
  <2>2. Ahead(s)'
    BY <2>1 DEF AheadKept
  <2> QED BY <1>1, <2>1, <2>2
<1>3. ASSUME worker \in {"asking", "forwarding", "holding"} PROVE Ahead(current)'
  <2>1. PICK s \in Seq(Tokens) : s = current /\ Ahead(s)
    BY <1>3, AudioTypes DEF AudioOrder
  <2>2. Ahead(s)'
    BY <2>1 DEF AheadKept
  <2> QED BY <2>1, <2>2
<1>4. VoicedInOrder'
  BY DEF AudioOrder, VoicedInOrder
<1> QED BY <1>1, <1>2, <1>3, <1>4 DEF AudioOrder, Below

\* The order of what was heard lasts when the worker stops.
LEMMA WorkerStopped ==
  ASSUME AudioOrder, UNCHANGED voiced, worker' \in {"draining", "done"}
  PROVE  AudioOrder'
BY DEF AudioOrder, VoicedInOrder

\* The worker is done with a segment, heard or not: the next ones come later.
LEMMA SegmentThrough ==
  ASSUME IInv, AudioOrder, AheadKept, worker \in {"asking", "forwarding"}, worker' = "idle",
         UNCHANGED voiced
  PROVE  AudioOrder'
<1>1. VoicedInOrder' /\ LastOf' = LastOf
  BY DEF AudioOrder, VoicedInOrder, LastOf
<1>2. ASSUME voiced # <<>> PROVE Ahead(LastOf)' /\ LastOf # <<>>
  <2>1. PICK s \in Seq(Tokens), c \in Seq(Tokens) :
          s = LastOf /\ c = current /\ c # <<>> /\ Ahead(c) /\ (s = c \/ Below(s, c)) /\ s # <<>>
    BY <1>2, AudioTypes DEF AudioOrder
  <2>2. Ahead(s)
    <3>1. CASE Below(s, c)
      <4>1. Below(s, piece) /\ Below(s, deltas) /\ \A k \in 1..Len(segments) : Below(s, segments[k])
        BY <2>1, <3>1, BelowTrans, TextTypes DEF Ahead, BeforeRest
      <4>2. ASSUME NEW i \in 1..Len(s) PROVE s[i] <= LastSent
        <5>0. 1 \in 1..Len(c) /\ s[i] \in Tokens /\ c[1] \in Tokens
          BY <2>1
        <5>1. s[i] < c[1] /\ c[1] <= LastSent /\ s[i] \in Int /\ c[1] \in Int
          BY <2>1, <3>1, <5>0, Numbers DEF Below, Ahead, BeforeRest, Sent
        <5> QED BY <5>1, TextTypes
      <4> QED BY <4>1, <4>2 DEF Ahead, BeforeRest, Sent
    <3> QED BY <2>1, <3>1
  <2>3. Ahead(s)'
    BY <2>2 DEF AheadKept
  <2> QED BY <1>1, <2>1, <2>3
<1> QED BY <1>1, <1>2 DEF AudioOrder

\* The chunk at hand follows the one before it.
LEMMA HeldFollows ==
  ASSUME IInv, AudioOrder, worker = "holding", voiced # <<>>
  PROVE  Follows(voiced[Len(voiced)], held)
<1>1. /\ held = [of |-> current, n |-> Heard + 1] /\ current # <<>> /\ LastOf # <<>>
      /\ LastOf \in Seq(Tokens) /\ current \in Seq(Tokens)
      /\ LastOf = current \/ Below(LastOf, current)
  BY AudioTypes DEF AudioOrder, TakenChunks
<1>2. CASE LastOf = current
  BY <1>1, <1>2, AudioTypes DEF Heard, Follows, LastOf
<1>3. CASE LastOf # current
  <2>1. Heard = 0
    BY <1>3 DEF Heard
  <2>2. LastOf[Len(LastOf)] < current[1]
    BY <1>1, <1>3 DEF Below
  <2>3. Last(LastOf) = LastOf[Len(LastOf)] /\ Head(current) = current[1]
    BY <1>1 DEF Last
  <2> QED BY <1>1, <2>1, <2>2, <2>3 DEF Follows, LastOf
<1> QED BY <1>2, <1>3

\* It is queued after it.
LEMMA ChunkForwarded ==
  ASSUME IInv, AudioOrder, AheadKept, worker = "holding", worker' = "forwarding",
         voiced' = Append(voiced, held), UNCHANGED <<current, tts, made, pcm>>
  PROVE  AudioOrder'
<1>0. /\ held \in Chunk /\ held = [of |-> current, n |-> TakenChunks] /\ current # <<>>
      /\ held.of = current /\ held.n = TakenChunks
  BY DEF AudioOrder, IInv, AudioOK
<1>1. /\ voiced' # <<>> /\ Len(voiced') = Len(voiced) + 1 /\ voiced'[Len(voiced')] = held
      /\ \A i \in 1..Len(voiced) : voiced'[i] = voiced[i]
  BY <1>0, AudioTypes
<1>2. LastOf' = current' /\ Heard' = TakenChunks /\ TakenChunks' = TakenChunks
  BY <1>0, <1>1 DEF LastOf, Heard, TakenChunks
<1>3. VoicedInOrder'
  <2> SUFFICES ASSUME NEW i \in 2..Len(voiced') PROVE Follows(voiced'[i - 1], voiced'[i])
    BY DEF VoicedInOrder, Follows
  <2>1. CASE i \in 2..Len(voiced)
    BY <1>1, <2>1, AudioTypes DEF AudioOrder, VoicedInOrder
  <2>2. CASE i = Len(voiced')
    <3>1. voiced # <<>> /\ voiced'[i - 1] = voiced[Len(voiced)] /\ voiced'[i] = held
      BY <1>1, <2>2, AudioTypes
    <3> QED BY <3>1, HeldFollows
  <2> QED BY <1>1, <2>1, <2>2, AudioTypes
<1>4. Ahead(current)'
  <2>1. PICK s \in Seq(Tokens) : s = current /\ Ahead(s)
    BY AudioTypes DEF AudioOrder
  <2>2. Ahead(s)'
    BY <2>1 DEF AheadKept
  <2> QED BY <2>1, <2>2
<1>5. /\ \A i \in 1..Len(pcm') : pcm'[i] = [of |-> current', n |-> TakenChunks' + i]
      /\ tts' = "reading" => made' = TakenChunks' + Len(pcm')
      /\ tts' = "sending" => made' = TakenChunks' + Len(pcm') + 1
  BY <1>2 DEF AudioOrder
<1> QED BY <1>0, <1>1, <1>2, <1>3, <1>4, <1>5 DEF AudioOrder

\* The next chunk of the segment is taken.
LEMMA ChunkTaken ==
  ASSUME IInv, AudioOrder, AheadKept, worker = "forwarding", worker' = "holding", pcm # <<>>,
         held' = Head(pcm), pcm' = Tail(pcm), UNCHANGED <<current, voiced, tts, made>>
  PROVE  AudioOrder'
<1>1. LastOf' = LastOf /\ Heard' = Heard /\ TakenChunks = Heard /\ TakenChunks' = Heard + 1
  BY DEF LastOf, Heard, TakenChunks
<1>2. /\ Head(pcm) = pcm[1] /\ Len(pcm') = Len(pcm) - 1 /\ 1 \in 1..Len(pcm)
      /\ \A i \in 1..Len(pcm') : pcm'[i] = pcm[i + 1] /\ i + 1 \in 1..Len(pcm)
  BY AudioTypes
<1>3. held' = [of |-> current', n |-> TakenChunks']
  BY <1>1, <1>2 DEF AudioOrder
<1>4. \A i \in 1..Len(pcm') : pcm'[i] = [of |-> current', n |-> TakenChunks' + i]
  <2> SUFFICES ASSUME NEW i \in 1..Len(pcm') PROVE pcm'[i] = [of |-> current', n |-> TakenChunks' + i]
    OBVIOUS
  <2>1. pcm'[i] = [of |-> current, n |-> Heard + (i + 1)]
    BY <1>1, <1>2 DEF AudioOrder
  <2>2. Heard + (i + 1) = (Heard + 1) + i
    BY AudioTypes
  <2> QED BY <1>1, <2>1, <2>2
<1>5. /\ tts' = "reading" => made' = TakenChunks' + Len(pcm')
      /\ tts' = "sending" => made' = TakenChunks' + Len(pcm') + 1
  <2>1. /\ tts = "reading" => made = Heard + Len(pcm)
        /\ tts = "sending" => made = Heard + Len(pcm) + 1
    BY <1>1 DEF AudioOrder
  <2>2. Heard \in Nat /\ Len(pcm) \in Nat
    BY AudioTypes
  <2> QED BY <1>1, <1>2, <2>1, <2>2
<1>6. Ahead(current)'
  <2>1. PICK s \in Seq(Tokens) : s = current /\ Ahead(s)
    BY AudioTypes DEF AudioOrder
  <2>2. Ahead(s)'
    BY <2>1 DEF AheadKept
  <2> QED BY <2>1, <2>2
<1>7. VoicedInOrder'
  BY DEF AudioOrder, VoicedInOrder
<1> QED BY <1>1, <1>3, <1>4, <1>5, <1>6, <1>7 DEF AudioOrder, Below

\* The stage goes on with the segment.
LEMMA StageStepped ==
  ASSUME IInv, AudioOrder, AheadKept, UNCHANGED <<worker, current, held, voiced>>,
         \/ /\ pcm' = Append(pcm, [of |-> current, n |-> made]) /\ made' = made
            /\ tts = "sending" /\ tts' = "reading"
         \/ UNCHANGED pcm /\ made' = made + 1 /\ tts = "reading" /\ tts' = "sending"
         \/ UNCHANGED pcm /\ tts' = "done"
  PROVE  AudioOrder'
<1>1. LastOf' = LastOf /\ Heard' = Heard /\ TakenChunks' = TakenChunks
  BY DEF LastOf, Heard, TakenChunks
<1>2. VoicedInOrder'
  BY DEF AudioOrder, VoicedInOrder
<1>3. ASSUME worker = "idle", voiced # <<>> PROVE Ahead(LastOf)'
  <2>1. PICK s \in Seq(Tokens) : s = LastOf /\ Ahead(s)
    BY <1>3, AudioTypes DEF AudioOrder
  <2>2. Ahead(s)'
    BY <2>1 DEF AheadKept
  <2> QED BY <1>1, <2>1, <2>2
<1>4. ASSUME worker \in {"asking", "forwarding", "holding"} PROVE Ahead(current)'
  <2>1. PICK s \in Seq(Tokens) : s = current /\ Ahead(s)
    BY <1>4, AudioTypes DEF AudioOrder
  <2>2. Ahead(s)'
    BY <2>1 DEF AheadKept
  <2> QED BY <2>1, <2>2
<1>5. ASSUME worker \in {"forwarding", "holding"}
      PROVE  /\ \A i \in 1..Len(pcm') : pcm'[i] = [of |-> current', n |-> TakenChunks' + i]
             /\ tts' = "reading" => made' = TakenChunks' + Len(pcm')
             /\ tts' = "sending" => made' = TakenChunks' + Len(pcm') + 1
  <2>0. /\ \A i \in 1..Len(pcm) : pcm[i] = [of |-> current, n |-> TakenChunks + i]
        /\ tts = "reading" => made = TakenChunks + Len(pcm)
        /\ tts = "sending" => made = TakenChunks + Len(pcm) + 1
    BY <1>5 DEF AudioOrder
  <2>1. CASE pcm' = Append(pcm, [of |-> current, n |-> made]) /\ made' = made
             /\ tts = "sending" /\ tts' = "reading"
    <3>1. /\ Len(pcm') = Len(pcm) + 1 /\ Len(pcm) \in Nat
          /\ \A i \in 1..Len(pcm) : pcm'[i] = pcm[i]
          /\ pcm'[Len(pcm) + 1] = [of |-> current, n |-> made]
      <4>1. PICK c : c = [of |-> current, n |-> made]
        OBVIOUS
      <4> QED BY <2>1, <4>1, AudioTypes
    <3>2. ASSUME NEW i \in 1..Len(pcm') PROVE pcm'[i] = [of |-> current', n |-> TakenChunks' + i]
      <4>0. i \in 1..Len(pcm) \/ i = Len(pcm) + 1
        BY <3>1
      <4>1. CASE i \in 1..Len(pcm)
        BY <1>1, <2>0, <3>1, <4>1
      <4>2. CASE i = Len(pcm) + 1
        <5>1. made = TakenChunks + i
          BY <2>0, <2>1, <4>2, AudioTypes
        <5> QED BY <1>1, <3>1, <4>2, <5>1, AudioTypes
      <4> QED BY <4>0, <4>1, <4>2, Zenon
    <3> QED BY <1>1, <2>0, <2>1, <3>1, <3>2, AudioTypes
  <2>2. CASE UNCHANGED pcm /\ made' = made + 1 /\ tts = "reading" /\ tts' = "sending"
    BY <1>1, <2>0, <2>2, AudioTypes
  <2>3. CASE UNCHANGED pcm /\ tts' = "done"
    BY <1>1, <2>0, <2>3
  <2> QED BY <2>1, <2>2, <2>3
<1> QED BY <1>1, <1>2, <1>3, <1>4, <1>5 DEF AudioOrder, Below

\* The stage starts with a segment of which nothing was heard.
LEMMA SynthesisStarts ==
  ASSUME IInv, AudioOrder, AheadKept, worker = "asking", worker' = "forwarding",
         tts' = "reading", made' = 0, pcm' = <<>>, UNCHANGED <<current, voiced>>
  PROVE  AudioOrder'
<1>1. LastOf' = LastOf
  BY DEF LastOf
<1>2. ASSUME voiced # <<>> PROVE LastOf # <<>> /\ LastOf # current /\ Below(LastOf, current)
  <2>1. LastOf # <<>> /\ Below(LastOf, current) /\ LastOf \in Seq(Tokens)
    BY <1>2, AudioTypes DEF AudioOrder
  <2>2. LastOf # current
    <3>1. LastOf[1] \in Int /\ (LastOf = current => LastOf[1] < LastOf[1])
      BY <2>1, Numbers DEF Below
    <3> QED BY <3>1
  <2> QED BY <2>1, <2>2
<1>3. Heard' = 0 /\ TakenChunks' = 0
  BY <1>1, <1>2 DEF Heard, TakenChunks
<1>4. Ahead(current)'
  <2>1. PICK s \in Seq(Tokens) : s = current /\ Ahead(s)
    BY AudioTypes DEF AudioOrder
  <2>2. Ahead(s)'
    BY <2>1 DEF AheadKept
  <2> QED BY <2>1, <2>2
<1>5. VoicedInOrder'
  BY DEF AudioOrder, VoicedInOrder
<1> QED BY <1>1, <1>2, <1>3, <1>4, <1>5 DEF AudioOrder, Below

\* Every step keeps the order of the audio.
LEMMA NextAudioOrder ==
  ASSUME IInv, TextOrder, AheadKept, AudioOrder, [Next]_vars
  PROVE  AudioOrder'
<1> DEFINE Goal == AudioOrder'
<1> SUFFICES Goal
  OBVIOUS
<1>0. IInv /\ TextOrder /\ AheadKept /\ AudioOrder
  OBVIOUS
<1> USE DEF llmVars, textVars, workerVars, ttsVars, audioVars, ctxVars
<1>1. CASE Register
  BY <1>1, <1>0, AudioUntouched DEF Register, Goto, audioState
<1>2. CASE AskFails
  BY <1>2, <1>0, AudioUntouched DEF AskFails, audioState
<1>3. CASE AskAnswered
  <2>1. worker = "off" /\ worker' = "idle" /\ UNCHANGED voiced /\ voiced = <<>>
    BY <1>3, <1>0 DEF AskAnswered, Goto, IInv, WorkerWithin, AudioOrder
  <2> QED BY <2>1, <1>0 DEF AudioOrder, VoicedInOrder
<1>4. CASE TakeDelta
  BY <1>4, <1>0, AudioUntouched DEF TakeDelta, audioState
<1>5. CASE SendSegment
  BY <1>5, <1>0, AudioUntouched DEF SendSegment, Goto, audioState
<1>6. CASE EndDeltas
  BY <1>6, <1>0, AudioUntouched DEF EndDeltas, DeltasEnded, audioState
<1>7. CASE Flush
  BY <1>7, <1>0, AudioUntouched DEF Flush, Goto, audioState
<1>8. CASE Join
  BY <1>8, <1>0, AudioUntouched DEF Join, audioState
<1>9. CASE HandOver
  BY <1>9, <1>0, AudioUntouched DEF HandOver, Goto, audioState
<1>10. CASE Generate
  BY <1>10, <1>0, AudioUntouched DEF Generate, audioState
<1>11. CASE SendToken
  BY <1>11, <1>0, AudioUntouched DEF SendToken, audioState
<1>12. CASE EndReply
  BY <1>12, <1>0, AudioUntouched DEF EndReply, audioState
<1>13. CASE TakeSegment
  <2>1. /\ segments # <<>> /\ segments' = Tail(segments) /\ current' = Head(segments)
        /\ worker = "idle" /\ worker' = "asking"
        /\ UNCHANGED <<at, llm, generated, deltas, piece, voiced>>
    BY <1>13 DEF TakeSegment, WorkerGoto
  <2>2. PICK h : h = Head(segments)
    OBVIOUS
  <2>3. h # <<>> /\ Ahead(h)' /\ \A s : Ahead(s) => Below(s, h)
    BY <2>1, <2>2, <1>0, SegmentTaken
  <2>4. LastOf' = LastOf /\ VoicedInOrder'
    BY <2>1, <1>0 DEF LastOf, AudioOrder, VoicedInOrder
  <2>5. voiced # <<>> => LastOf # <<>> /\ Below(LastOf, h)
    BY <2>1, <2>3, <1>0 DEF AudioOrder
  <2>6. current' # <<>> /\ Ahead(current)'
    BY <2>1, <2>2, <2>3
  <2>7. voiced' # <<>> => LastOf' # <<>> /\ Below(LastOf', current')
    BY <2>1, <2>2, <2>4, <2>5
  <2> QED BY <2>1, <2>4, <2>6, <2>7 DEF AudioOrder, Below
<1>14. CASE TakeChunk
  BY <1>14, <1>0, ChunkTaken DEF TakeChunk, WorkerGoto
<1>15. CASE Forward
  BY <1>15, <1>0, ChunkForwarded DEF Forward, WorkerGoto
<1>16. CASE Abort
  BY <1>16, <1>0, WorkerStopped DEF Abort, WorkerGoto
<1>17. CASE Drain
  BY <1>17, <1>0, AudioUntouched DEF Drain, audioState
<1>18. CASE EndSegment
  BY <1>18, <1>0, SegmentThrough DEF EndSegment, Through
<1>19. CASE WorkerEnds
  BY <1>19, <1>0, WorkerStopped DEF WorkerEnds, SegmentsEnded
<1>20. CASE SynthesizeFails
  BY <1>20, <1>0, SegmentThrough DEF SynthesizeFails, Through
<1>21. CASE Synthesize
  BY <1>21, <1>0, SynthesisStarts DEF Synthesize, WorkerGoto
<1>22. CASE MakeChunk
  BY <1>22, <1>0, StageStepped DEF MakeChunk
<1>23. CASE SendChunk
  BY <1>23, <1>0, StageStepped DEF SendChunk
<1>24. CASE EndAudio
  BY <1>24, <1>0, StageStepped DEF EndAudio
<1>25. CASE BargeIn
  BY <1>25, <1>0, AudioUntouched DEF BargeIn, audioState
<1>26. CASE Close
  BY <1>26, <1>0, AudioUntouched DEF Close, audioState
<1>27. CASE Recv
  BY <1>27, <1>0, AudioUntouched DEF Recv, audioState
<1>28. CASE UNCHANGED vars
  BY <1>28, <1>0, AudioUntouched DEF vars, audioState
<1> HIDE DEF Goal
<1> QED
  BY <1>1, <1>2, <1>3, <1>4, <1>5, <1>6, <1>7, <1>8, <1>9, <1>10, <1>11, <1>12, <1>13, <1>14, <1>15, <1>16, <1>17, <1>18, <1>19, <1>20, <1>21, <1>22, <1>23, <1>24, <1>25, <1>26, <1>27, <1>28, Zenon
  DEF Next, Segmenter, Worker

\* The order holds initially: nothing is on its way.
LEMMA InitOrder == Init => OrderInv
<1> SUFFICES ASSUME Init PROVE OrderInv
  OBVIOUS
<1>1. TextOrder
  BY DEF Init, TextOrder, BeforeRest, Below, Sent
<1>2. AudioOrder
  BY DEF Init, AudioOrder, VoicedInOrder
<1> QED BY <1>1, <1>2, InitIInv DEF OrderInv

\* Every step keeps text and audio in order.
LEMMA NextOrder == OrderInv /\ [Next]_vars => OrderInv'
BY NextIInv, NextTextOrder, NextAudioOrder, Zenon DEF OrderInv

\* The listener hears the reply in order, no chunk twice and none left out
\* within a segment, however long the reply is and whatever the channels hold:
\* the hand-over from segmenter to worker to recvCh (respond.go).
THEOREM ResponseVoicedInOrder == Spec => []VoicedInOrder
<1>1. OrderInv => VoicedInOrder
  BY Zenon DEF OrderInv, AudioOrder
<1> QED BY InitOrder, NextOrder, <1>1, PTL DEF Spec
----------------------------------------------------------------------------
(* The whole reply                                                         *)

\* A set of numbers has a least one.
LEMMA Least ==
  ASSUME NEW S \in SUBSET Nat, S # {}
  PROVE  \E m \in S : \A k \in S : m <= k
<1>1. PICK R : IsWellFoundedOn(R, Nat) /\ \A x, y \in Nat : x < y => <<x, y>> \in R
  <2> DEFINE R == OpToRel(<, Nat)
  <2>1. IsWellFoundedOn(R, Nat)
    BY NatLessThanWellFounded, Zenon
  <2>2. \A x, y \in Nat : x < y => <<x, y>> \in R
    BY DEF OpToRel
  <2> HIDE DEF R
  <2> QED BY <2>1, <2>2
<1>2. IsWellFoundedOn(R, Nat) /\ S \subseteq Nat
  BY <1>1
<1>3. PICK x \in S : \A y \in S : ~ (<<y, x>> \in R)
  BY <1>2, WFMin
<1>4. ASSUME NEW y \in S PROVE x <= y
  <2>1. x \in Nat /\ y \in Nat
    OBVIOUS
  <2>2. ~(y < x)
    BY <1>1, <1>3, <2>1
  <2> QED BY <2>1, <2>2
<1> QED BY <1>4

\* Induction, of a set.
LEMMA Induct ==
  ASSUME NEW S, 0 \in S, \A n \in Nat : n \in S => n + 1 \in S
  PROVE  Nat \subseteq S
<1> SUFFICES ASSUME ~(Nat \subseteq S) PROVE FALSE
  OBVIOUS
<1> DEFINE T == Nat \ S
<1>1. PICK m \in T : \A k \in T : m <= k
  BY Least
<1>2. m # 0 /\ m \in Nat
  OBVIOUS
<1>3. m - 1 \in Nat /\ m - 1 \notin T
  BY <1>1, <1>2
<1> QED BY <1>1, <1>2, <1>3

\* f puts the first n members of w together, one after the other.
Puts(f, w, n) ==
  f = [i \in 1..n |-> IF i = 1 THEN w[1] ELSE f[i - 1] \o w[i]]

\* The first n members of v and w are the same.
Agree(v, w, n) == \A i \in 1..n : v[i] = w[i]

\* There is such a function ...
LEMMA PutsExists ==
  ASSUME NEW S, NEW w \in Seq(Seq(S)), NEW n \in 1..Len(w)
  PROVE  \E f \in [1..n -> Seq(S)] : Puts(f, w, n)
<1> DEFINE P(k) == k + 1 <= Len(w) => \E f \in [1..(k + 1) -> Seq(S)] : Puts(f, w, k + 1)
           T == {k \in Nat : P(k)}
<1>1. P(0)
  <2> SUFFICES ASSUME 1 <= Len(w) PROVE \E f \in [1..1 -> Seq(S)] : Puts(f, w, 1)
    OBVIOUS
  <2> DEFINE g == [i \in 1..1 |-> w[1]]
  <2>1. g \in [1..1 -> Seq(S)]
    OBVIOUS
  <2>2. Puts(g, w, 1)
    BY DEF Puts
  <2> QED BY <2>1, <2>2
<1>2. ASSUME NEW k \in Nat, P(k) PROVE P(k + 1)
  <2> SUFFICES ASSUME (k + 1) + 1 <= Len(w)
               PROVE  \E f \in [1..((k + 1) + 1) -> Seq(S)] : Puts(f, w, (k + 1) + 1)
    OBVIOUS
  <2>1. PICK f \in [1..(k + 1) -> Seq(S)] : Puts(f, w, k + 1)
    <3>1. k + 1 <= Len(w)
      OBVIOUS
    <3> QED BY <1>2, <3>1
  <2> DEFINE m == (k + 1) + 1
             g == [i \in 1..m |-> IF i = m THEN f[k + 1] \o w[m] ELSE f[i]]
  <2>2. g \in [1..m -> Seq(S)]
    <3>1. f[k + 1] \in Seq(S) /\ w[m] \in Seq(S)
      OBVIOUS
    <3>2. f[k + 1] \o w[m] \in Seq(S)
      BY <3>1
    <3> QED BY <3>2
  <2>3. \A i \in 1..m : g[i] = IF i = 1 THEN w[1] ELSE g[i - 1] \o w[i]
    <3> SUFFICES ASSUME NEW i \in 1..m PROVE g[i] = IF i = 1 THEN w[1] ELSE g[i - 1] \o w[i]
      OBVIOUS
    <3>1. CASE i = m
      <4>1. m # 1 /\ m - 1 = k + 1 /\ m - 1 # m /\ m - 1 \in 1..m
        OBVIOUS
      <4>2. \A l \in 1..m : g[l] = IF l = m THEN f[k + 1] \o w[m] ELSE f[l]
        OBVIOUS
      <4> HIDE DEF g
      <4>3. m \in 1..m /\ g[m - 1] = f[m - 1]
        BY <4>1, <4>2
      <4> HIDE DEF m
      <4>4. g[m] = f[k + 1] \o w[m]
        BY <4>2, <4>3
      <4> QED BY <3>1, <4>1, <4>3, <4>4
    <3>2. CASE i # m
      <4>1. i \in 1..(k + 1) /\ g[i] = f[i]
        BY <3>2
      <4>2. f[i] = IF i = 1 THEN w[1] ELSE f[i - 1] \o w[i]
        BY <2>1, <4>1 DEF Puts
      <4>3. i # 1 => i - 1 \in 1..(k + 1) /\ g[i - 1] = f[i - 1]
        BY <4>1
      <4> QED BY <4>1, <4>2, <4>3
    <3> QED BY <3>1, <3>2
  <2>4. Puts(g, w, m)
    <3>1. g = [i \in 1..m |-> g[i]]
      OBVIOUS
    <3> HIDE DEF g
    <3> QED BY <2>3, <3>1, Zenon DEF Puts
  <2> QED BY <2>2, <2>4
<1>3. Nat \subseteq T
  <2> HIDE DEF P
  <2>1. 0 \in T /\ \A k \in Nat : k \in T => k + 1 \in T
    BY <1>1, <1>2
  <2> HIDE DEF T
  <2> QED BY <2>1, Induct
<1>4. n - 1 \in Nat /\ (n - 1) + 1 = n /\ n <= Len(w)
  OBVIOUS
<1>5. P(n - 1)
  <2> HIDE DEF P
  <2> QED BY <1>3, <1>4
<1> QED BY <1>4, <1>5

\* ... and only one: a function that does so for more members agrees with it.
LEMMA PutsUnique ==
  ASSUME NEW v, NEW w, NEW n \in Nat, NEW m \in Nat, n <= m, Agree(v, w, n),
         NEW f, Puts(f, v, n), NEW g, Puts(g, w, m)
  PROVE  \A i \in 1..n : f[i] = g[i]
<1> DEFINE T == {k \in Nat : k + 1 <= n => f[k + 1] = g[k + 1]}
<1>0. /\ \A i \in 1..n : v[i] = w[i]
      /\ \A i \in 1..n : f[i] = IF i = 1 THEN v[1] ELSE f[i - 1] \o v[i]
      /\ \A i \in 1..m : g[i] = IF i = 1 THEN w[1] ELSE g[i - 1] \o w[i]
  BY DEF Puts, Agree
<1>1. 0 \in T
  BY <1>0
<1>2. ASSUME NEW k \in Nat, k \in T PROVE k + 1 \in T
  <2> SUFFICES ASSUME (k + 1) + 1 <= n PROVE f[(k + 1) + 1] = g[(k + 1) + 1]
    OBVIOUS
  <2> DEFINE j == (k + 1) + 1
  <2>1. j \in 1..n /\ j \in 1..m /\ j # 1 /\ j - 1 = k + 1 /\ k + 1 <= n
    OBVIOUS
  <2>2. f[k + 1] = g[k + 1] /\ v[j] = w[j]
    BY <1>0, <1>2, <2>1
  <2> HIDE DEF j
  <2>3. f[j] = f[k + 1] \o v[j] /\ g[j] = g[k + 1] \o w[j]
    BY <1>0, <2>1
  <2>4. f[j] = g[j]
    BY <2>2, <2>3
  <2> QED BY <2>4 DEF j
<1>3. Nat \subseteq T
  <2> HIDE DEF T
  <2> QED BY <1>1, <1>2, Induct
<1>4. ASSUME NEW i \in 1..n PROVE f[i] = g[i]
  <2>1. i - 1 \in Nat /\ (i - 1) + 1 = i /\ i <= n
    OBVIOUS
  <2> QED BY <1>3, <2>1
<1> QED BY <1>4

\* What FlattenSeq makes of a sequence of sequences.
LEMMA Flattened ==
  ASSUME NEW S, NEW w \in Seq(Seq(S)), w # <<>>,
         NEW f \in [1..Len(w) -> Seq(S)], Puts(f, w, Len(w))
  PROVE  FlattenSeq(w) = f[Len(w)]
<1> DEFINE n == Len(w)
           P(g) == g = [i \in 1..n |-> IF i = 1 THEN w[i] ELSE g[i - 1] \o w[i]]
           h == CHOOSE g : P(g)
<1>1. n \in Nat /\ n > 0 /\ n \in 1..n
  OBVIOUS
<1>2. FlattenSeq(w) = h[n]
  BY <1>1 DEF FlattenSeq
<1>3. P(f)
  BY DEF Puts
<1>4. P(h)
  <2> HIDE DEF P
  <2> QED BY <1>3
<1>5. Puts(h, w, n)
  <2> HIDE DEF h
  <2> QED BY <1>4 DEF Puts
<1>6. f[n] = h[n]
  <2> HIDE DEF h
  <2> QED BY <1>1, <1>5, PutsUnique DEF Agree
<1> QED BY <1>2, <1>6

\* Flattening is done member by member.
LEMMA FlattenAppend ==
  ASSUME NEW S, NEW w \in Seq(Seq(S)), NEW c \in Seq(S)
  PROVE  /\ FlattenSeq(w) \in Seq(S)
         /\ FlattenSeq(Append(w, c)) = FlattenSeq(w) \o c
<1> DEFINE v == Append(w, c)
           n == Len(w)
<1>1. v \in Seq(Seq(S)) /\ v # <<>> /\ Len(v) = n + 1 /\ n \in Nat /\ v[n + 1] = c
      /\ \A i \in 1..n : v[i] = w[i]
  <2> DEFINE T == Seq(S)
  <2> HIDE DEF T
  <2>1. w \in Seq(T) /\ c \in T
    BY DEF T
  <2>2. v \in Seq(T) /\ v # <<>> /\ Len(v) = n + 1 /\ n \in Nat /\ v[n + 1] = c
        /\ \A i \in 1..n : v[i] = w[i]
    BY <2>1
  <2> QED BY <2>2 DEF T
<1> HIDE DEF v
<1>2. PICK g : g \in [1..(n + 1) -> Seq(S)] /\ Puts(g, v, n + 1)
  BY <1>1, PutsExists
<1>3. FlattenSeq(v) = g[n + 1]
  BY <1>1, <1>2, Flattened
<1>4. CASE w = <<>>
  <2>1. FlattenSeq(w) = <<>>
    BY <1>4 DEF FlattenSeq
  <2>2. n = 0 /\ g[1] = v[1]
    BY <1>2, <1>4 DEF Puts
  <2> QED BY <1>1, <1>3, <2>1, <2>2 DEF v
<1>5. CASE w # <<>>
  <2>1. n \in 1..Len(w)
    BY <1>5
  <2>2. PICK f : f \in [1..n -> Seq(S)] /\ Puts(f, w, n)
    BY <2>1, PutsExists
  <2>3. FlattenSeq(w) = f[n]
    BY <1>5, <2>2, Flattened
  <2>4. \A i \in 1..n : f[i] = g[i]
    <3>1. n <= n + 1 /\ n + 1 \in Nat /\ n + 1 <= Len(v) /\ n <= Len(w) /\ \A i \in 1..n : w[i] = v[i]
      BY <1>1
    <3>2. Puts(f, w, n) /\ Puts(g, v, n + 1) /\ n \in Nat
      BY <1>1, <1>2, <2>2
    <3> HIDE DEF n
    <3>3. Agree(w, v, n)
      BY <3>1 DEF Agree
    <3> QED BY <3>1, <3>2, <3>3, PutsUnique
  <2>5. g[n + 1] = g[n] \o v[n + 1]
    <3>1. n + 1 # 1 /\ n + 1 \in 1..(n + 1) /\ (n + 1) - 1 = n
      BY <2>1
    <3>2. g[n + 1] = g[(n + 1) - 1] \o v[n + 1]
      BY <1>2, <3>1 DEF Puts
    <3> QED BY <3>1, <3>2
  <2>6. FlattenSeq(v) = FlattenSeq(w) \o c /\ FlattenSeq(w) \in Seq(S)
    BY <1>1, <1>3, <2>1, <2>2, <2>3, <2>4, <2>5
  <2> QED BY <2>6 DEF v
<1> QED BY <1>4, <1>5

\* Adding to the last part of a sequence is adding to the sequence.
LEMMA ConcatAppend ==
  ASSUME NEW S, NEW a \in Seq(S), NEW b \in Seq(S), NEW e \in S
  PROVE  a \o Append(b, e) = Append(a \o b, e)
OBVIOUS

\* A segment on its way: it waits, is in the worker's hands, is through.
LEMMA Moving ==
  ASSUME NEW S, NEW w \in Seq(S), NEW q \in Seq(S), NEW c \in S
  PROVE  /\ q # <<>> => (w \o <<Head(q)>>) \o Tail(q) = (w \o <<>>) \o q
         /\ (Append(w, c) \o <<>>) \o q = (w \o <<c>>) \o q
<1>1. w \o <<>> = w /\ Append(w, c) \o <<>> = Append(w, c) /\ Append(w, c) = w \o <<c>>
  OBVIOUS
<1>2. ASSUME q # <<>> PROVE (w \o <<Head(q)>>) \o Tail(q) = w \o q
  <2> DEFINE h == Head(q)
             t == Tail(q)
  <2>1. /\ h \in S /\ t \in Seq(S) /\ h = q[1] /\ Len(q) = Len(t) + 1
        /\ \A i \in 1..Len(t) : t[i] = q[i + 1]
    BY <1>2
  <2> HIDE DEF h, t
  <2>3. q = <<h>> \o t
    <3>1. <<h>> \o t \in Seq(S) /\ Len(<<h>> \o t) = Len(q)
      BY <2>1
    <3>2. ASSUME NEW i \in 1..Len(q) PROVE q[i] = (<<h>> \o t)[i]
      <4>1. CASE i = 1
        BY <2>1, <4>1
      <4>2. CASE i # 1
        <5>1. i - 1 \in 1..Len(t) /\ (i - 1) + 1 = i
          BY <2>1, <4>2
        <5>2. t[i - 1] = q[i] /\ (<<h>> \o t)[i] = t[i - 1]
          BY <2>1, <5>1
        <5> QED BY <5>2
      <4> QED BY <4>1, <4>2
    <3>3. PICK p \in Seq(S) : p = <<h>> \o t
      BY <3>1
    <3>4. Len(p) = Len(q) /\ \A i \in 1..Len(q) : q[i] = p[i]
      BY <3>1, <3>2, <3>3
    <3>5. q = p
      BY <3>4, SeqEqual
    <3> QED BY <3>3, <3>5
  <2>2. (w \o <<h>>) \o t = w \o (<<h>> \o t)
    BY <2>1, ConcatAssociative
  <2>4. (w \o <<h>>) \o t = w \o q
    BY <2>2, <2>3
  <2> QED BY <2>4 DEF h, t
<1> QED BY <1>1, <1>2

\* The segments that respond() has sent, in the order the worker gets them.
InHand == IF worker \in {"asking", "forwarding", "holding"} THEN <<current>> ELSE <<>>
InWork == (worked \o InHand) \o segments

\* The tokens are handed on one by one, as they were generated.
Numbered ==
  /\ \A i \in 1..Len(full) : full[i] = i
  /\ \A i \in 1..Len(deltas) : deltas[i] = Len(full) + i
  /\ Len(full) + Len(deltas) = LastSent

\* Each goroutine ends after the one it hears from.
Staged ==
  /\ llm = "off" <=> worker = "off"
  /\ at \in {"spawned", "asking"} => llm = "off"
  /\ at \in {"flushing", "joining", "reply", "done"} /\ llm # "off" => DeltasEnded
  /\ at \notin {"reading", "sending", "flushing"} => piece = <<>>
  /\ worker # "draining"
  /\ worker = "done" => at \in {"joining", "reply", "done"} /\ segments = <<>>

\* What the hook left is in the segments or in the sentence under way.
AllInWork == FlattenSeq(InWork) \o piece = kept

\* Of a response that nobody cancelled, nothing is lost on the way.
NothingLost == ~cancelled => Numbered /\ Staged /\ AllInWork

\* The text's sequences.
LEMMA WorkTypes ==
  ASSUME IInv
  PROVE  /\ full \in Seq(Tokens) /\ deltas \in Seq(Tokens) /\ generated \in Nat /\ LastSent \in Int
         /\ piece \in Seq(Tokens) /\ kept \in Seq(Tokens) /\ current \in Seq(Tokens)
         /\ segments \in Seq(Seq(Tokens)) /\ worked \in Seq(Seq(Tokens))
         /\ InHand \in Seq(Seq(Tokens)) /\ InWork \in Seq(Seq(Tokens))
         /\ FlattenSeq(InWork) \in Seq(Tokens)
<1>1. /\ full \in Seq(Tokens) /\ deltas \in Seq(Tokens) /\ generated \in Nat /\ LastSent \in Int
      /\ piece \in Seq(Tokens) /\ kept \in Seq(Tokens) /\ current \in Seq(Tokens)
      /\ segments \in Seq(Seq(Tokens)) /\ worked \in Seq(Seq(Tokens))
  BY TextTypes DEF IInv, TextOK
<1>2. PICK T : T = Seq(Tokens)
  OBVIOUS
<1>3. current \in T /\ segments \in Seq(T) /\ worked \in Seq(T)
  BY <1>1, <1>2
<1>4. InHand \in Seq(T)
  BY <1>3 DEF InHand
<1>5. InWork \in Seq(T)
  BY <1>3, <1>4 DEF InWork
<1>6. FlattenSeq(InWork) \in Seq(Tokens)
  BY <1>2, <1>5, FlattenAppend, <1>1
<1> QED BY <1>1, <1>2, <1>4, <1>5, <1>6

\* The next delta is taken.
LEMMA DeltaNumbered ==
  ASSUME IInv, Numbered, deltas # <<>>, deltas' = Tail(deltas), full' = Append(full, Head(deltas)),
         LastSent' = LastSent
  PROVE  Numbered'
<1>1. /\ full \in Seq(Tokens) /\ deltas \in Seq(Tokens)
      /\ Head(deltas) = Len(full) + 1 /\ Len(full) \in Nat /\ Len(deltas) \in Nat
      /\ Head(deltas) \in Tokens
  BY WorkTypes DEF Numbered
<1>2. PICK d \in Tokens : d = Head(deltas)
  BY <1>1
<1>3. /\ Len(full') = Len(full) + 1 /\ full'[Len(full) + 1] = d
      /\ \A i \in 1..Len(full) : full'[i] = full[i]
  BY <1>1, <1>2
<1>4. /\ Len(deltas') = Len(deltas) - 1
      /\ \A i \in 1..Len(deltas') : deltas'[i] = deltas[i + 1] /\ i + 1 \in 1..Len(deltas)
  BY <1>1
<1>5. \A i \in 1..Len(full') : full'[i] = i
  BY <1>1, <1>2, <1>3 DEF Numbered
<1>6. \A i \in 1..Len(deltas') : deltas'[i] = Len(full') + i
  <2> SUFFICES ASSUME NEW i \in 1..Len(deltas') PROVE deltas'[i] = Len(full') + i
    OBVIOUS
  <2>1. deltas'[i] = Len(full) + (i + 1)
    BY <1>4 DEF Numbered
  <2> QED BY <1>1, <1>3, <2>1
<1>7. Len(full') + Len(deltas') = LastSent'
  <2>1. Len(full) + Len(deltas) = LastSent /\ LastSent \in Int
    BY WorkTypes DEF Numbered
  <2> QED BY <1>1, <1>3, <1>4, <2>1
<1> QED BY <1>5, <1>6, <1>7, Zenon DEF Numbered

\* The next token is sent.
LEMMA TokenNumbered ==
  ASSUME IInv, Numbered, llm = "sending", llm' = "reading", deltas' = Append(deltas, generated),
         UNCHANGED <<full, generated>>
  PROVE  Numbered'
<1>1. /\ full \in Seq(Tokens) /\ deltas \in Seq(Tokens) /\ generated \in Tokens /\ generated \in Nat
      /\ Len(full) \in Nat /\ Len(deltas) \in Nat
  BY WorkTypes, TextTypes
<1>2. Len(full) + Len(deltas) = generated - 1 /\ LastSent' = generated
  BY DEF Numbered, LastSent
<1>3. /\ Len(deltas') = Len(deltas) + 1 /\ deltas'[Len(deltas) + 1] = generated
      /\ \A i \in 1..Len(deltas) : deltas'[i] = deltas[i]
  BY <1>1
<1>4. \A i \in 1..Len(deltas') : deltas'[i] = Len(full') + i
  <2> SUFFICES ASSUME NEW i \in 1..Len(deltas') PROVE deltas'[i] = Len(full) + i
    OBVIOUS
  <2>1. CASE i \in 1..Len(deltas)
    BY <1>3, <2>1 DEF Numbered
  <2>2. CASE i = Len(deltas) + 1
    BY <1>1, <1>2, <1>3, <2>2
  <2> QED BY <1>1, <1>3, <2>1, <2>2
<1> QED BY <1>1, <1>2, <1>3, <1>4 DEF Numbered

\* Nothing is taken and nothing sent.
LEMMA NumberedSame ==
  ASSUME Numbered, UNCHANGED <<full, deltas, LastSent>>
  PROVE  Numbered'
BY DEF Numbered

\* No text moves.
LEMMA WorkSame ==
  ASSUME AllInWork, UNCHANGED <<worked, InHand, segments, piece, kept>>
  PROVE  AllInWork'
BY Zenon DEF AllInWork, InWork

\* The sentence under way is sent to the worker.
LEMMA PieceSent ==
  ASSUME IInv, AllInWork, segments' = Append(segments, piece), piece' = <<>>,
         UNCHANGED <<worked, InHand, kept>>
  PROVE  AllInWork'
<1>1. InWork' = Append(InWork, piece)
  <2>0. PICK T : T = Seq(Tokens)
    OBVIOUS
  <2>1. PICK a \in Seq(T), s \in Seq(T), p \in T : a = worked \o InHand /\ s = segments /\ p = piece
    <3>1. worked \in Seq(T) /\ InHand \in Seq(T) /\ segments \in Seq(T) /\ piece \in T
      BY <2>0, WorkTypes
    <3>2. worked \o InHand \in Seq(T)
      BY <3>1
    <3> QED BY <3>1, <3>2
  <2>2. a \o Append(s, p) = Append(a \o s, p)
    BY ConcatAppend
  <2> QED BY <2>1, <2>2 DEF InWork
<1>2. FlattenSeq(InWork') = FlattenSeq(InWork) \o piece
  BY <1>1, WorkTypes, FlattenAppend
<1>3. kept \o <<>> = kept
  BY WorkTypes
<1> QED BY <1>2, <1>3 DEF AllInWork

\* The worker takes a segment, or is through with it.
LEMMA WorkMoved ==
  ASSUME IInv, AllInWork, UNCHANGED <<piece, kept>>,
         \/ /\ segments # <<>> /\ segments' = Tail(segments) /\ UNCHANGED worked
            /\ InHand = <<>> /\ InHand' = <<Head(segments)>>
         \/ /\ worked' = Append(worked, current) /\ UNCHANGED segments
            /\ InHand = <<current>> /\ InHand' = <<>>
  PROVE  AllInWork'
<1>1. PICK T : T = Seq(Tokens)
  OBVIOUS
<1>2. PICK w \in Seq(T), q \in Seq(T), c \in T : w = worked /\ q = segments /\ c = current
  BY <1>1, WorkTypes
<1>3. CASE /\ segments # <<>> /\ segments' = Tail(segments) /\ UNCHANGED worked
           /\ InHand = <<>> /\ InHand' = <<Head(segments)>>
  <2>1. (w \o <<Head(q)>>) \o Tail(q) = (w \o <<>>) \o q
    BY <1>2, <1>3, Moving
  <2> QED BY <1>2, <1>3, <2>1 DEF AllInWork, InWork
<1>4. CASE /\ worked' = Append(worked, current) /\ UNCHANGED segments
           /\ InHand = <<current>> /\ InHand' = <<>>
  <2>1. (Append(w, c) \o <<>>) \o q = (w \o <<c>>) \o q
    BY Moving
  <2> QED BY <1>2, <1>4, <2>1 DEF AllInWork, InWork
<1> QED BY <1>3, <1>4

\* A token goes into the sentence under way.
LEMMA TokenKept ==
  ASSUME IInv, AllInWork, NEW d \in Tokens, piece' = Append(piece, d), kept' = Append(kept, d),
         UNCHANGED <<worked, InHand, segments>>
  PROVE  AllInWork'
<1>1. InWork' = InWork
  BY DEF InWork
<1>2. FlattenSeq(InWork) \o Append(piece, d) = Append(FlattenSeq(InWork) \o piece, d)
  <2>1. PICK f \in Seq(Tokens), p \in Seq(Tokens) : f = FlattenSeq(InWork) /\ p = piece
    BY WorkTypes
  <2>2. f \o Append(p, d) = Append(f \o p, d)
    BY ConcatAppend
  <2> QED BY <2>1, <2>2
<1> QED BY <1>1, <1>2 DEF AllInWork

\* Every step keeps it.
LEMMA NextNothingLost ==
  ASSUME IInv, NothingLost, [Next]_vars
  PROVE  NothingLost'
<1> SUFFICES ASSUME ~cancelled' PROVE Numbered' /\ Staged' /\ AllInWork'
  BY DEF NothingLost
<1> DEFINE Goal == Numbered' /\ Staged' /\ AllInWork'
<1> SUFFICES Goal
  OBVIOUS
<1>0. IInv /\ (~cancelled => Numbered /\ Staged /\ AllInWork) /\ ~cancelled'
  BY DEF NothingLost
<1>a. Goal <=> Numbered' /\ Staged' /\ AllInWork'
  OBVIOUS
<1> USE DEF llmVars, textVars, workerVars, ttsVars, audioVars, ctxVars
<1> HIDE DEF Goal
<1>1. CASE Register
  <2>1. UNCHANGED <<deltas, full, piece, kept, segments, worked, current, cancelled, generated>>
    BY <1>1 DEF Register, Goto
  <2>2. InHand' = InHand /\ LastSent' = LastSent
    BY <1>1, <2>1 DEF Register, Goto, InHand, LastSent
  <2>3. Staged'
    BY <1>1, <1>0, <2>1 DEF Register, Goto, Staged, DeltasEnded
  <2> QED BY <1>0, <1>a, <2>1, <2>2, <2>3, NumberedSame, WorkSame
<1>2. CASE AskFails
  <2>1. UNCHANGED <<deltas, full, piece, kept, segments, worked, current, cancelled, generated>>
    BY <1>2 DEF AskFails
  <2>2. InHand' = InHand /\ LastSent' = LastSent
    BY <1>2, <2>1 DEF AskFails, InHand, LastSent
  <2>3. Staged'
    BY <1>2, <1>0, <2>1 DEF AskFails, Staged, DeltasEnded
  <2> QED BY <1>0, <1>a, <2>1, <2>2, <2>3, NumberedSame, WorkSame
<1>3. CASE AskAnswered
  <2>1. worked' = worked /\ worker = "off" /\ UNCHANGED <<segments, piece, kept, full, deltas, cancelled, generated>>
    BY <1>3, <1>0 DEF AskAnswered, Goto, IInv, WorkerWithin
  <2>2. llm = "off" /\ llm' = "reading" /\ worker' = "idle" /\ at = "asking" /\ at' = "reading"
    BY <1>3, <1>0, <2>1 DEF AskAnswered, Goto, Staged
  <2>3. InHand' = InHand /\ LastSent' = LastSent
    BY <2>1, <2>2 DEF InHand, LastSent
  <2>4. Staged'
    BY <1>0, <2>1, <2>2 DEF Staged, DeltasEnded
  <2> QED BY <1>0, <1>a, <2>1, <2>3, <2>4, NumberedSame, WorkSame
<1>4. CASE TakeDelta
  <2>1. /\ deltas # <<>> /\ deltas' = Tail(deltas) /\ full' = Append(full, Head(deltas))
        /\ at = "reading" /\ at' \in {"reading", "sending"}
        /\ UNCHANGED <<llm, generated, worker, worked, current, segments, cancelled>>
    BY <1>4 DEF TakeDelta
  <2>2. InHand' = InHand /\ LastSent' = LastSent
    BY <2>1 DEF InHand, LastSent
  <2>3. Staged'
    BY <1>0, <2>1 DEF Staged, DeltasEnded
  <2>4. PICK d \in Tokens : d = Head(deltas)
    BY <1>0, <2>1, WorkTypes
  <2>5. \/ UNCHANGED <<piece, kept>>
        \/ piece' = Append(piece, d) /\ kept' = Append(kept, d)
    BY <1>4, <2>4 DEF TakeDelta
  <2>6. AllInWork'
    BY <1>0, <2>1, <2>2, <2>5, WorkSame, TokenKept
  <2> QED BY <1>0, <1>a, <2>1, <2>2, <2>3, <2>6, DeltaNumbered
<1>5. CASE SendSegment
  <2>1. /\ segments' = Append(segments, piece) /\ piece' = <<>>
        /\ UNCHANGED <<llm, generated, deltas, full, kept, worker, worked, current, cancelled>>
        /\ at = "sending" /\ at' = "reading"
    BY <1>5 DEF SendSegment, Goto
  <2>2. InHand' = InHand /\ LastSent' = LastSent
    BY <2>1 DEF InHand, LastSent
  <2>3. Staged'
    BY <1>0, <2>1 DEF Staged, DeltasEnded
  <2> QED BY <1>0, <1>a, <2>1, <2>2, <2>3, NumberedSame, PieceSent
<1>6. CASE EndDeltas
  <2>1. UNCHANGED <<deltas, full, piece, kept, segments, worked, current, cancelled, generated>>
    BY <1>6 DEF EndDeltas, DeltasEnded
  <2>2. InHand' = InHand /\ LastSent' = LastSent
    BY <1>6, <2>1 DEF EndDeltas, DeltasEnded, InHand, LastSent
  <2>3. Staged'
    BY <1>6, <1>0, <2>1 DEF EndDeltas, DeltasEnded, Staged, DeltasEnded
  <2> QED BY <1>0, <1>a, <2>1, <2>2, <2>3, NumberedSame, WorkSame
<1>7. CASE Flush
  <2>1. /\ segments' = Append(segments, piece) /\ piece' = <<>>
        /\ UNCHANGED <<llm, generated, deltas, full, kept, worker, worked, current, cancelled>>
        /\ at = "flushing" /\ at' = "joining"
    BY <1>7 DEF Flush, Goto
  <2>2. InHand' = InHand /\ LastSent' = LastSent
    BY <2>1 DEF InHand, LastSent
  <2>3. Staged'
    BY <1>0, <2>1 DEF Staged, DeltasEnded
  <2> QED BY <1>0, <1>a, <2>1, <2>2, <2>3, NumberedSame, PieceSent
<1>8. CASE Join
  <2>1. UNCHANGED <<deltas, full, piece, kept, segments, worked, current, cancelled, generated>>
    BY <1>8 DEF Join
  <2>2. InHand' = InHand /\ LastSent' = LastSent
    BY <1>8, <2>1 DEF Join, InHand, LastSent
  <2>3. Staged'
    BY <1>8, <1>0, <2>1 DEF Join, Staged, DeltasEnded
  <2> QED BY <1>0, <1>a, <2>1, <2>2, <2>3, NumberedSame, WorkSame
<1>9. CASE HandOver
  <2>1. UNCHANGED <<deltas, full, piece, kept, segments, worked, current, cancelled, generated>>
    BY <1>9 DEF HandOver, Goto
  <2>2. InHand' = InHand /\ LastSent' = LastSent
    BY <1>9, <2>1 DEF HandOver, Goto, InHand, LastSent
  <2>3. Staged'
    BY <1>9, <1>0, <2>1 DEF HandOver, Goto, Staged, DeltasEnded
  <2> QED BY <1>0, <1>a, <2>1, <2>2, <2>3, NumberedSame, WorkSame
<1>10. CASE Generate
  <2>1. /\ llm = "reading" /\ llm' = "sending" /\ generated' = generated + 1
        /\ UNCHANGED <<at, deltas, full, piece, kept, segments, worker, worked, current, cancelled>>
    BY <1>10 DEF Generate
  <2>2. InHand' = InHand /\ LastSent' = LastSent
    BY <1>0, <2>1, WorkTypes DEF InHand, LastSent
  <2>3. Staged'
    BY <1>0, <2>1 DEF Staged, DeltasEnded
  <2> QED BY <1>0, <1>a, <2>1, <2>2, <2>3, NumberedSame, WorkSame
<1>11. CASE SendToken
  <2>1. /\ llm = "sending" /\ llm' = "reading" /\ deltas' = Append(deltas, generated)
        /\ UNCHANGED <<at, full, generated, piece, kept, worker, worked, current, segments, cancelled>>
    BY <1>11, <1>0 DEF SendToken
  <2>2. InHand' = InHand
    BY <2>1 DEF InHand
  <2>3. Staged'
    BY <1>0, <2>1 DEF Staged, DeltasEnded
  <2> QED BY <1>0, <1>a, <2>1, <2>2, <2>3, TokenNumbered, WorkSame
<1>12. CASE EndReply
  <2>1. UNCHANGED <<deltas, full, piece, kept, segments, worked, current, cancelled, generated>>
    BY <1>12 DEF EndReply
  <2>2. InHand' = InHand /\ LastSent' = LastSent
    BY <1>12, <2>1 DEF EndReply, InHand, LastSent
  <2>3. Staged'
    BY <1>12, <1>0, <2>1 DEF EndReply, Staged, DeltasEnded
  <2> QED BY <1>0, <1>a, <2>1, <2>2, <2>3, NumberedSame, WorkSame
<1>13. CASE TakeSegment
  <2>1. /\ worker = "idle" /\ worker' = "asking" /\ segments # <<>>
        /\ segments' = Tail(segments) /\ current' = Head(segments)
        /\ UNCHANGED <<at, llm, generated, deltas, full, piece, kept, worked, cancelled>>
    BY <1>13 DEF TakeSegment, WorkerGoto
  <2>2. InHand = <<>> /\ InHand' = <<Head(segments)>> /\ LastSent' = LastSent
    BY <2>1 DEF InHand, LastSent
  <2>3. Staged'
    BY <1>0, <2>1 DEF Staged, DeltasEnded
  <2> QED BY <1>0, <1>a, <2>1, <2>2, <2>3, NumberedSame, WorkMoved
<1>14. CASE TakeChunk
  <2>1. UNCHANGED <<deltas, full, piece, kept, segments, worked, current, cancelled, generated>>
    BY <1>14 DEF TakeChunk, WorkerGoto
  <2>2. InHand' = InHand /\ LastSent' = LastSent
    BY <1>14, <2>1 DEF TakeChunk, WorkerGoto, InHand, LastSent
  <2>3. Staged'
    BY <1>14, <1>0, <2>1 DEF TakeChunk, WorkerGoto, Staged, DeltasEnded
  <2> QED BY <1>0, <1>a, <2>1, <2>2, <2>3, NumberedSame, WorkSame
<1>15. CASE Forward
  <2>1. UNCHANGED <<deltas, full, piece, kept, segments, worked, current, cancelled, generated>>
    BY <1>15 DEF Forward, WorkerGoto
  <2>2. InHand' = InHand /\ LastSent' = LastSent
    BY <1>15, <2>1 DEF Forward, WorkerGoto, InHand, LastSent
  <2>3. Staged'
    BY <1>15, <1>0, <2>1 DEF Forward, WorkerGoto, Staged, DeltasEnded
  <2> QED BY <1>0, <1>a, <2>1, <2>2, <2>3, NumberedSame, WorkSame
<1>16. CASE Abort
  BY <1>16, <1>0 DEF Abort
<1>17. CASE Drain
  BY <1>17, <1>0 DEF Drain, Staged
<1>18. CASE EndSegment
  <2>1. /\ worker = "forwarding" /\ worker' = "idle" /\ worked' = Append(worked, current)
        /\ UNCHANGED <<at, llm, generated, deltas, full, piece, kept, segments, cancelled>>
    BY <1>18 DEF EndSegment, Through
  <2>2. InHand = <<current>> /\ InHand' = <<>> /\ LastSent' = LastSent
    BY <2>1 DEF InHand, LastSent
  <2>3. Staged'
    BY <1>0, <2>1 DEF Staged, DeltasEnded
  <2> QED BY <1>0, <1>a, <2>1, <2>2, <2>3, NumberedSame, WorkMoved
<1>19. CASE WorkerEnds
  <2>1. UNCHANGED <<deltas, full, piece, kept, segments, worked, current, cancelled, generated>>
    BY <1>19 DEF WorkerEnds, SegmentsEnded
  <2>2. InHand' = InHand /\ LastSent' = LastSent
    BY <1>19, <2>1 DEF WorkerEnds, SegmentsEnded, InHand, LastSent
  <2>3. Staged'
    BY <1>19, <1>0, <2>1 DEF WorkerEnds, SegmentsEnded, Staged, DeltasEnded
  <2> QED BY <1>0, <1>a, <2>1, <2>2, <2>3, NumberedSame, WorkSame
<1>20. CASE SynthesizeFails
  <2>1. /\ worker = "asking" /\ worker' = "idle" /\ worked' = Append(worked, current)
        /\ UNCHANGED <<at, llm, generated, deltas, full, piece, kept, segments, cancelled>>
    BY <1>20 DEF SynthesizeFails, Through
  <2>2. InHand = <<current>> /\ InHand' = <<>> /\ LastSent' = LastSent
    BY <2>1 DEF InHand, LastSent
  <2>3. Staged'
    BY <1>0, <2>1 DEF Staged, DeltasEnded
  <2> QED BY <1>0, <1>a, <2>1, <2>2, <2>3, NumberedSame, WorkMoved
<1>21. CASE Synthesize
  <2>1. UNCHANGED <<deltas, full, piece, kept, segments, worked, current, cancelled, generated>>
    BY <1>21 DEF Synthesize, WorkerGoto
  <2>2. InHand' = InHand /\ LastSent' = LastSent
    BY <1>21, <2>1 DEF Synthesize, WorkerGoto, InHand, LastSent
  <2>3. Staged'
    BY <1>21, <1>0, <2>1 DEF Synthesize, WorkerGoto, Staged, DeltasEnded
  <2> QED BY <1>0, <1>a, <2>1, <2>2, <2>3, NumberedSame, WorkSame
<1>22. CASE MakeChunk
  <2>1. UNCHANGED <<deltas, full, piece, kept, segments, worked, current, cancelled, generated>>
    BY <1>22 DEF MakeChunk
  <2>2. InHand' = InHand /\ LastSent' = LastSent
    BY <1>22, <2>1 DEF MakeChunk, InHand, LastSent
  <2>3. Staged'
    BY <1>22, <1>0, <2>1 DEF MakeChunk, Staged, DeltasEnded
  <2> QED BY <1>0, <1>a, <2>1, <2>2, <2>3, NumberedSame, WorkSame
<1>23. CASE SendChunk
  <2>1. UNCHANGED <<deltas, full, piece, kept, segments, worked, current, cancelled, generated>>
    BY <1>23 DEF SendChunk
  <2>2. InHand' = InHand /\ LastSent' = LastSent
    BY <1>23, <2>1 DEF SendChunk, InHand, LastSent
  <2>3. Staged'
    BY <1>23, <1>0, <2>1 DEF SendChunk, Staged, DeltasEnded
  <2> QED BY <1>0, <1>a, <2>1, <2>2, <2>3, NumberedSame, WorkSame
<1>24. CASE EndAudio
  <2>1. UNCHANGED <<deltas, full, piece, kept, segments, worked, current, cancelled, generated>>
    BY <1>24 DEF EndAudio
  <2>2. InHand' = InHand /\ LastSent' = LastSent
    BY <1>24, <2>1 DEF EndAudio, InHand, LastSent
  <2>3. Staged'
    BY <1>24, <1>0, <2>1 DEF EndAudio, Staged, DeltasEnded
  <2> QED BY <1>0, <1>a, <2>1, <2>2, <2>3, NumberedSame, WorkSame
<1>25. CASE BargeIn
  BY <1>25, <1>0 DEF BargeIn
<1>26. CASE Close
  BY <1>26, <1>0 DEF Close
<1>27. CASE Recv
  <2>1. UNCHANGED <<deltas, full, piece, kept, segments, worked, current, cancelled, generated>>
    BY <1>27 DEF Recv
  <2>2. InHand' = InHand /\ LastSent' = LastSent
    BY <1>27, <2>1 DEF Recv, InHand, LastSent
  <2>3. Staged'
    BY <1>27, <1>0, <2>1 DEF Recv, Staged, DeltasEnded
  <2> QED BY <1>0, <1>a, <2>1, <2>2, <2>3, NumberedSame, WorkSame
<1>28. CASE UNCHANGED vars
  <2>1. UNCHANGED <<at, llm, generated, deltas, full, piece, kept, segments, worker, worked, current, cancelled>>
    BY <1>28 DEF vars
  <2>2. InHand' = InHand /\ LastSent' = LastSent
    BY <2>1 DEF InHand, LastSent
  <2>3. Staged'
    BY <1>0, <2>1 DEF Staged, DeltasEnded
  <2> QED BY <1>0, <1>a, <2>1, <2>2, <2>3, NumberedSame, WorkSame
<1> QED
  BY <1>1, <1>2, <1>3, <1>4, <1>5, <1>6, <1>7, <1>8, <1>9, <1>10, <1>11, <1>12, <1>13, <1>14, <1>15, <1>16, <1>17, <1>18, <1>19, <1>20, <1>21, <1>22, <1>23, <1>24, <1>25, <1>26, <1>27, <1>28, Zenon
  DEF Next, Segmenter, Worker

\* Nothing is lost before anything was generated.
LEMMA InitNothingLost == Init => NothingLost
<1> SUFFICES ASSUME Init PROVE NothingLost
  OBVIOUS
<1>1. Numbered
  BY DEF Init, Numbered, LastSent
<1>2. Staged
  BY DEF Init, Staged
<1>3. InWork = <<>>
  BY DEF Init, InWork, InHand
<1>4. AllInWork
  BY <1>3 DEF Init, AllInWork, FlattenSeq
<1> QED BY <1>1, <1>2, <1>4 DEF NothingLost

\* At the end of respond() everything has gone through the worker.
LEMMA EndsWhole ==
  ASSUME IInv, NothingLost
  PROVE  WholeReply
<1> SUFFICES ASSUME ~cancelled, at \in {"reply", "done"}, llm # "off"
             PROVE  full = [i \in 1..generated |-> i] /\ FlattenSeq(worked) = kept
  BY DEF WholeReply
<1>1. Numbered /\ Staged /\ AllInWork
  BY DEF NothingLost
<1>2. deltas = <<>> /\ llm = "done" /\ worker = "done" /\ segments = <<>> /\ piece = <<>>
  BY <1>1 DEF Staged, DeltasEnded, IInv, WorkerWithin
<1>3. full = [i \in 1..generated |-> i]
  <2>1. full \in Seq(Tokens) /\ Len(full) = generated /\ \A i \in 1..Len(full) : full[i] = i
    BY <1>1, <1>2, WorkTypes DEF Numbered, LastSent
  <2>2. full = [i \in 1..Len(full) |-> full[i]]
    BY <2>1
  <2> QED BY <2>1, <2>2
<1>4. FlattenSeq(worked) = kept
  <2>1. InWork = worked
    <3>1. PICK T : T = Seq(Tokens)
      OBVIOUS
    <3>2. worked \in Seq(T)
      BY <3>1, WorkTypes
    <3>3. worked \o <<>> = worked
      BY <3>2
    <3> QED BY <1>2, <3>3 DEF InWork, InHand
  <2>2. FlattenSeq(InWork) \o <<>> = FlattenSeq(InWork)
    BY WorkTypes
  <2> QED BY <1>1, <1>2, <2>1, <2>2 DEF AllInWork
<1> QED BY <1>3, <1>4

\* A reply that nobody cancelled is handed back whole, and the worker has been
\* through all of it, the trailing text too, for replies of any length and
\* channels of any capacity: respond() joins its worker (respond.go).
THEOREM ResponseWholeReply == Spec => []WholeReply
<1>1. IInv /\ NothingLost /\ [Next]_vars => (IInv /\ NothingLost)'
  BY NextIInv, NextNothingLost
<1>2. IInv /\ NothingLost => WholeReply
  BY EndsWhole
<1> QED BY InitIInv, InitNothingLost, <1>1, <1>2, PTL DEF Spec
----------------------------------------------------------------------------
(* A cancelled response is never stuck                                     *)

\* The LLM stage and the worker are there once the request was answered, the TTS
\* stage while the worker forwards; the worker leaves after the last segment.
StagesThere ==
  /\ at \in {"reading", "sending", "flushing", "joining"} => llm # "off" /\ worker # "off"
  /\ worker \in {"forwarding", "holding"} => tts # "off"
  /\ worker = "done" => at \in {"joining", "reply", "done"} /\ segments = <<>>

\* The guards of the steps that end the body of the LLM and of the TTS once the
\* context is done: their reads fail, and their sends are given up.
LLMGoesOn == llm \in {"reading", "sending"}
TTSGoesOn == tts \in {"reading", "sending"}

\* The worker can take a step, or the stage that it waits for.
WorkerGoesOn ==
  \/ worker \in {"idle", "draining"} /\ (segments # <<>> \/ SegmentsEnded)
  \/ worker \in {"asking", "holding"}
  \/ worker = "forwarding" /\ (pcm # <<>> \/ tts = "done" \/ TTSGoesOn)

\* respond() can take a step, or the goroutine that it waits for, or whom that
\* one waits for in turn.
RespondGoesOn ==
  \/ at \in {"spawned", "asking", "reply"}
  \/ at = "reading" /\ (deltas # <<>> \/ DeltasEnded \/ LLMGoesOn)
  \/ at \in {"sending", "flushing"} /\ (Len(segments) < SegmentCap \/ WorkerGoesOn)
  \/ at = "joining" /\ (worker = "done" \/ WorkerGoesOn)

NeverStuck == cancelled /\ at # "done" => RespondGoesOn

\* Every step keeps the goroutines where they are counted on.
LEMMA NextStagesThere == IInv /\ StagesThere /\ [Next]_vars => StagesThere'
<1> SUFFICES ASSUME IInv, StagesThere, [Next]_vars PROVE StagesThere'
  OBVIOUS
<1>0. StatesOK /\ WorkerWithin
  BY Zenon DEF IInv
<1> USE <1>0 DEF StatesOK, WorkerWithin, StagesThere, llmVars, textVars, workerVars, ttsVars, audioVars, ctxVars
<1>1. CASE Register
  BY <1>1 DEF Register, Goto
<1>2. CASE AskFails
  BY <1>2 DEF AskFails
<1>3. CASE AskAnswered
  BY <1>3 DEF AskAnswered, Goto
<1>4. CASE Generate
  BY <1>4 DEF Generate
<1>5. CASE SendToken
  BY <1>5 DEF SendToken
<1>6. CASE EndReply
  BY <1>6 DEF EndReply
<1>7. CASE TakeDelta
  BY <1>7 DEF TakeDelta
<1>8. CASE SendSegment
  BY <1>8 DEF SendSegment, Goto
<1>9. CASE EndDeltas
  BY <1>9 DEF EndDeltas, DeltasEnded
<1>10. CASE Flush
  BY <1>10 DEF Flush, Goto
<1>11. CASE Join
  BY <1>11 DEF Join
<1>12. CASE HandOver
  BY <1>12 DEF HandOver, Goto
<1>13. CASE TakeSegment
  BY <1>13 DEF TakeSegment, WorkerGoto
<1>14. CASE TakeChunk
  BY <1>14 DEF TakeChunk, WorkerGoto
<1>15. CASE Forward
  BY <1>15 DEF Forward, WorkerGoto
<1>16. CASE Abort
  BY <1>16 DEF Abort, WorkerGoto
<1>17. CASE Drain
  BY <1>17 DEF Drain
<1>18. CASE EndSegment
  BY <1>18 DEF EndSegment, Through
<1>19. CASE WorkerEnds
  BY <1>19 DEF WorkerEnds, SegmentsEnded
<1>20. CASE SynthesizeFails
  BY <1>20 DEF SynthesizeFails, Through
<1>21. CASE Synthesize
  BY <1>21 DEF Synthesize, WorkerGoto
<1>22. CASE MakeChunk
  BY <1>22 DEF MakeChunk
<1>23. CASE SendChunk
  BY <1>23 DEF SendChunk
<1>24. CASE EndAudio
  BY <1>24 DEF EndAudio
<1>25. CASE BargeIn \/ Close \/ Recv
  BY <1>25 DEF BargeIn, Close, Recv
<1>26. CASE UNCHANGED vars
  BY <1>26 DEF vars
<1> HIDE DEF StatesOK, WorkerWithin, StagesThere, llmVars, textVars, workerVars, ttsVars, audioVars, ctxVars
<1> QED
  BY <1>1, <1>2, <1>3, <1>4, <1>5, <1>6, <1>7, <1>8, <1>9, <1>10, <1>11, <1>12, <1>13,
     <1>14, <1>15, <1>16, <1>17, <1>18, <1>19, <1>20, <1>21, <1>22, <1>23, <1>24, <1>25, <1>26, Zenon
  DEF Next, Segmenter, Worker

\* A worker that has work, or is waited for after its last segment, goes on.
LEMMA WorkerNeverStuck ==
  ASSUME IInv, StagesThere, worker \notin {"off", "done"}, segments # <<>> \/ at = "joining"
  PROVE  WorkerGoesOn
<1>1. /\ worker \in {"off", "idle", "asking", "forwarding", "holding", "draining", "done"}
      /\ tts \in {"off", "reading", "sending", "done"}
  BY DEF IInv, StatesOK
<1> QED BY <1>1 DEF StagesThere, WorkerGoesOn, TTSGoesOn, SegmentsEnded

\* A response that is cancelled, by a barge-in or with its session, is never
\* stuck: wherever respond() is, it can go on, or the stage or the worker that it
\* waits for can, though the provider hangs, the bridge does not read, and
\* every channel between them is full.  bargeIn holds run() up for that long
\* (<-done, respond.go).
THEOREM CancelledNeverStuck == Spec => []NeverStuck
<1>1. Init => StagesThere
  BY DEF Init, StagesThere
<1>2. IInv /\ StagesThere => NeverStuck
  <2> SUFFICES ASSUME IInv, StagesThere, cancelled, at # "done" PROVE RespondGoesOn
    BY DEF NeverStuck
  <2>1. /\ at \in {"spawned", "asking", "reading", "sending", "flushing", "joining", "reply"}
        /\ llm \in {"off", "reading", "sending", "done"}
    BY DEF IInv, StatesOK
  <2>2. CASE at \in {"spawned", "asking", "reply"}
    BY <2>2 DEF RespondGoesOn
  <2>3. CASE at = "reading"
    BY <2>1, <2>3 DEF StagesThere, DeltasEnded, LLMGoesOn, RespondGoesOn
  <2>4. CASE at \in {"sending", "flushing"} /\ ~(Len(segments) < SegmentCap)
    <3>1. worker \notin {"off", "done"}
      BY <2>4 DEF StagesThere
    <3>2. segments # <<>>
      BY <2>4, ResponseAssumption DEF IInv, TextOK
    <3> QED BY <2>4, <3>1, <3>2, WorkerNeverStuck DEF RespondGoesOn
  <2>5. CASE at \in {"sending", "flushing"} /\ Len(segments) < SegmentCap
    BY <2>5 DEF RespondGoesOn
  <2>6. CASE at = "joining"
    BY <2>6, WorkerNeverStuck DEF StagesThere, RespondGoesOn
  <2> QED BY <2>1, <2>2, <2>3, <2>4, <2>5, <2>6
<1> QED BY InitIInv, NextIInv, <1>1, <1>2, NextStagesThere, PTL DEF Spec
=============================================================================
