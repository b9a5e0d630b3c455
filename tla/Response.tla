------------------------------- MODULE Response -------------------------------
(***************************************************************************)
(* One response of the cascade, down to its goroutines: respond() as the   *)
(* segmenter, its TTS worker, the goroutine of the LLM stage that reads    *)
(* the reply (llm.OpenAI) and the one of the TTS stage that reads the      *)
(* audio of a sentence (tts.XTTSStream, tts.Coqui), with the channels      *)
(* between them.                                                           *)
(*                                                                         *)
(* Tokens are numbered as the LLM generates them.  A segment is the tokens *)
(* it was put together from, a chunk the segment it speaks and its number  *)
(* in it.  A token that the hook replaces keeps its number.  What a        *)
(* provider does is open: it may be slow, fall silent, end early or fail.  *)
(* The quick answer differs in what is asked of the TTS server only.       *)
(***************************************************************************)
EXTENDS Naturals, Sequences, SequencesExt

CONSTANTS
  DeltaCap,   \* capacity of the LLM stage's channel
  SegmentCap, \* capacity of segments
  PcmCap,     \* capacity of the TTS stage's channel
  AudioCap,   \* capacity of recvCh
  MaxTokens,  \* bound: tokens of a reply
  MaxChunks   \* bound: chunks of a segment

ASSUME ResponseAssumption ==
  /\ {DeltaCap, SegmentCap, PcmCap, AudioCap} \subseteq Nat \ {0}
  /\ {MaxTokens, MaxChunks} \subseteq Nat

VARIABLES
  at,        \* respond(): spawned, asking, reading, sending, flushing, joining, reply, done
  attempt,   \* requests Generate has sent
  llm,       \* the LLM stage's goroutine: off, reading, sending, done
  generated, \* tokens it has read
  deltas,    \* its channel, closed when it is done
  full,      \* the reply so far
  piece,     \* the sentence being put together
  segments,  \* the channel to the worker, closed from joining on
  worker,    \* off, idle, asking, forwarding, holding, draining, done
  current,   \* the segment it synthesizes
  held,      \* the chunk it forwards
  tts,       \* the TTS stage's goroutine: off, reading, sending, done
  made,      \* chunks it has read
  pcm,       \* its channel, closed when it is done
  recvCh,
  cancelled, \* genCtx is done
  closed,    \* c.ctx is done
  kept,      \* history: tokens the hook left something of
  worked,    \* history: segments the worker is through with
  voiced     \* history: chunks queued on recvCh

llmVars == <<attempt, llm, generated, deltas>>
textVars == <<full, piece, kept>>
workerVars == <<worker, current, held, worked>>
ttsVars == <<tts, made, pcm>>
audioVars == <<recvCh, voiced>>
ctxVars == <<cancelled, closed>>
vars == <<at, llmVars, textVars, segments, workerVars, ttsVars, audioVars, ctxVars>>

Tokens == 1..MaxTokens
Chunk == [of : Seq(Tokens), n : 1..MaxChunks]
NoChunk == [of |-> <<>>, n |-> 0]

Init ==
  /\ at = "spawned"
  /\ attempt = 0
  /\ llm = "off" /\ generated = 0 /\ deltas = <<>>
  /\ full = <<>> /\ piece = <<>> /\ kept = <<>>
  /\ segments = <<>>
  /\ worker = "off" /\ current = <<>> /\ held = NoChunk /\ worked = <<>>
  /\ tts = "off" /\ made = 0 /\ pcm = <<>>
  /\ recvCh = <<>> /\ voiced = <<>>
  /\ cancelled = FALSE /\ closed = FALSE

Goto(from, to) == at = from /\ at' = to
WorkerGoto(from, to) == worker = from /\ worker' = to

----------------------------------------------------------------------------
(* respond() and Generate                                                  *)

\* setGenCancel, and the request.
Register ==
  /\ Goto("spawned", "asking")
  /\ attempt' = 1
  /\ UNCHANGED <<llm, generated, deltas, textVars, segments, workerVars, ttsVars, audioVars, ctxVars>>

\* Mutant: the request is sent again as long as it fails.
AskAgain ==
  /\ at = "asking"
  /\ attempt' = attempt + 1
  /\ UNCHANGED <<at, llm, generated, deltas, textVars, segments, workerVars, ttsVars, audioVars, ctxVars>>

\* The request fails, is answered with another status, or is cancelled: it is
\* sent once more, then Generate returns the error and respond() with it.
AskFails ==
  /\ at = "asking"
  /\ IF attempt = 1
     THEN attempt' = 2 /\ UNCHANGED at
     ELSE at' = "done" /\ UNCHANGED attempt
  /\ UNCHANGED <<llm, generated, deltas, textVars, segments, workerVars, ttsVars, audioVars, ctxVars>>

\* The answer arrives: the goroutine of the stage and the worker are started.
AskAnswered ==
  /\ Goto("asking", "reading")
  /\ llm' = "reading"
  /\ worker' = "idle"
  /\ UNCHANGED <<attempt, generated, deltas, textVars, segments, current, held, worked, ttsVars,
                 audioVars, ctxVars>>

\* A token is read from the stream ...
Generate ==
  /\ llm = "reading"
  /\ generated < MaxTokens
  /\ llm' = "sending"
  /\ generated' = generated + 1
  /\ UNCHANGED <<at, attempt, deltas, textVars, segments, workerVars, ttsVars, audioVars, ctxVars>>

\* ... and sent, or given up when the context is done.
SendToken ==
  /\ llm = "sending"
  /\ \/ Len(deltas) < DeltaCap /\ deltas' = Append(deltas, generated) /\ llm' = "reading"
     \/ cancelled /\ llm' = "done" /\ UNCHANGED deltas
  /\ UNCHANGED <<at, attempt, generated, textVars, segments, workerVars, ttsVars, audioVars, ctxVars>>

\* [DONE], the end of the body, or an error of it, which is not looked at.
EndReply ==
  /\ llm = "reading"
  /\ llm' = "done"
  /\ UNCHANGED <<at, attempt, generated, deltas, textVars, segments, workerVars, ttsVars, audioVars, ctxVars>>

\* The segmenter takes a delta.  The hook may drop it; it may end a sentence.
TakeDelta ==
  LET d == Head(deltas) IN
  /\ deltas # <<>>
  /\ deltas' = Tail(deltas)
  /\ full' = Append(full, d)
  /\ \/ at = "reading" /\ UNCHANGED <<at, piece, kept>>
     \/ /\ at' \in {"reading", "sending"} /\ at = "reading"
        /\ piece' = Append(piece, d)
        /\ kept' = Append(kept, d)
  /\ UNCHANGED <<attempt, llm, generated, segments, workerVars, ttsVars, audioVars, ctxVars>>

\* segments <- seg.String(), which watches no context.
SendSegment ==
  /\ Goto("sending", "reading")
  /\ Len(segments) < SegmentCap
  /\ segments' = Append(segments, piece)
  /\ piece' = <<>>
  /\ UNCHANGED <<llmVars, full, kept, workerVars, ttsVars, audioVars, ctxVars>>

DeltasEnded == deltas = <<>> /\ llm = "done"

\* Mutant: text without a sentence end is not flushed.
EndDeltasUnflushed ==
  /\ Goto("reading", "joining")
  /\ DeltasEnded
  /\ UNCHANGED <<llmVars, textVars, segments, workerVars, ttsVars, audioVars, ctxVars>>

\* The deltas have ended: trailing text is flushed, segments closed.
EndDeltas ==
  /\ at = "reading"
  /\ DeltasEnded
  /\ at' = IF piece = <<>> THEN "joining" ELSE "flushing"
  /\ UNCHANGED <<llmVars, textVars, segments, workerVars, ttsVars, audioVars, ctxVars>>

Flush ==
  /\ Goto("flushing", "joining")
  /\ Len(segments) < SegmentCap
  /\ segments' = Append(segments, piece)
  /\ piece' = <<>>
  /\ UNCHANGED <<llmVars, full, kept, workerVars, ttsVars, audioVars, ctxVars>>

SegmentsEnded == segments = <<>> /\ at = "joining"

\* <-ttsDone: there is a reply to hand back, or nothing was generated.
Join ==
  /\ at = "joining"
  /\ worker = "done"
  /\ at' = IF full = <<>> THEN "done" ELSE "reply"
  /\ UNCHANGED <<llmVars, textVars, segments, workerVars, ttsVars, audioVars, ctxVars>>

\* run() takes the reply, or the session is closed; close(done).
HandOver ==
  /\ Goto("reply", "done")
  /\ UNCHANGED <<llmVars, textVars, segments, workerVars, ttsVars, audioVars, ctxVars>>

----------------------------------------------------------------------------
(* The worker and synthesize                                               *)

TakeSegment ==
  /\ WorkerGoto("idle", "asking")
  /\ segments # <<>>
  /\ current' = Head(segments)
  /\ segments' = Tail(segments)
  /\ UNCHANGED <<at, llmVars, textVars, held, worked, ttsVars, audioVars, ctxVars>>

\* The segment is through.
Through ==
  /\ worker' = "idle"
  /\ worked' = Append(worked, current)
  /\ current' = <<>>

\* Synthesize returns an error, the context's too: the segment is skipped.
\* Coqui asks once more and reads the whole answer first; neither shows.
SynthesizeFails ==
  /\ worker = "asking"
  /\ Through
  /\ UNCHANGED <<at, llmVars, textVars, segments, held, ttsVars, audioVars, ctxVars>>

\* The stage answers and starts its goroutine.
Synthesize ==
  /\ WorkerGoto("asking", "forwarding")
  /\ tts' = "reading"
  /\ made' = 0
  /\ pcm' = <<>>
  /\ UNCHANGED <<at, llmVars, textVars, segments, current, held, worked, audioVars, ctxVars>>

\* A frame of audio is put together ...
MakeChunk ==
  /\ tts = "reading"
  /\ made < MaxChunks
  /\ tts' = "sending"
  /\ made' = made + 1
  /\ UNCHANGED <<at, llmVars, textVars, segments, workerVars, pcm, audioVars, ctxVars>>

\* Mutant: the stage sends without watching the context.
SendChunkBlindly ==
  /\ tts = "sending"
  /\ Len(pcm) < PcmCap /\ pcm' = Append(pcm, [of |-> current, n |-> made]) /\ tts' = "reading"
  /\ UNCHANGED <<at, llmVars, textVars, segments, workerVars, made, audioVars, ctxVars>>

\* ... and sent, or given up when the context is done.
SendChunk ==
  /\ tts = "sending"
  /\ \/ Len(pcm) < PcmCap /\ pcm' = Append(pcm, [of |-> current, n |-> made]) /\ tts' = "reading"
     \/ cancelled /\ tts' = "done" /\ UNCHANGED pcm
  /\ UNCHANGED <<at, llmVars, textVars, segments, workerVars, made, audioVars, ctxVars>>

\* The end of the answer, or an error of it, which is not looked at.
EndAudio ==
  /\ tts = "reading"
  /\ tts' = "done"
  /\ UNCHANGED <<at, llmVars, textVars, segments, workerVars, made, pcm, audioVars, ctxVars>>

TakeChunk ==
  /\ WorkerGoto("forwarding", "holding")
  /\ pcm # <<>>
  /\ held' = Head(pcm)
  /\ pcm' = Tail(pcm)
  /\ UNCHANGED <<at, llmVars, textVars, segments, current, worked, tts, made, audioVars, ctxVars>>

\* Mutant: a chunk that recvCh has no room for is dropped.
ForwardOrDrop ==
  /\ WorkerGoto("holding", "forwarding")
  /\ IF Len(recvCh) < AudioCap
     THEN recvCh' = Append(recvCh, held) /\ voiced' = Append(voiced, held)
     ELSE UNCHANGED audioVars
  /\ held' = NoChunk
  /\ UNCHANGED <<at, llmVars, textVars, segments, current, worked, ttsVars, ctxVars>>

\* c.recvCh <- pcm: of a chunk at hand the select may take it although the
\* context is done.
Forward ==
  /\ WorkerGoto("holding", "forwarding")
  /\ Len(recvCh) < AudioCap
  /\ recvCh' = Append(recvCh, held)
  /\ voiced' = Append(voiced, held)
  /\ held' = NoChunk
  /\ UNCHANGED <<at, llmVars, textVars, segments, current, worked, ttsVars, ctxVars>>

\* Mutant: the worker exits at once.
AbortUndrained ==
  /\ WorkerGoto("holding", "done")
  /\ cancelled
  /\ held' = NoChunk
  /\ UNCHANGED <<at, llmVars, textVars, segments, current, worked, ttsVars, audioVars, ctxVars>>

\* ctx.Done(): synthesize returns false, and the worker drains the segments.
Abort ==
  /\ WorkerGoto("holding", "draining")
  /\ cancelled
  /\ held' = NoChunk
  /\ UNCHANGED <<at, llmVars, textVars, segments, current, worked, ttsVars, audioVars, ctxVars>>

Drain ==
  /\ worker = "draining"
  /\ segments # <<>>
  /\ segments' = Tail(segments)
  /\ UNCHANGED <<at, llmVars, textVars, workerVars, ttsVars, audioVars, ctxVars>>

\* The audio of the segment has ended.
EndSegment ==
  /\ worker = "forwarding"
  /\ pcm = <<>>
  /\ tts = "done"
  /\ Through
  /\ UNCHANGED <<at, llmVars, textVars, segments, held, ttsVars, audioVars, ctxVars>>

\* close(ttsDone)
WorkerEnds ==
  /\ worker \in {"idle", "draining"}
  /\ SegmentsEnded
  /\ worker' = "done"
  /\ UNCHANGED <<at, llmVars, textVars, segments, current, held, worked, ttsVars, audioVars, ctxVars>>

----------------------------------------------------------------------------
(* The session                                                             *)

\* bargeIn, of a response that has registered.
BargeIn ==
  /\ at # "spawned"
  /\ cancelled' = TRUE
  /\ UNCHANGED <<at, llmVars, textVars, segments, workerVars, ttsVars, audioVars, closed>>

Close ==
  /\ cancelled' = TRUE
  /\ closed' = TRUE
  /\ UNCHANGED <<at, llmVars, textVars, segments, workerVars, ttsVars, audioVars>>

Recv ==
  /\ recvCh # <<>>
  /\ recvCh' = Tail(recvCh)
  /\ UNCHANGED <<at, llmVars, textVars, segments, workerVars, ttsVars, voiced, ctxVars>>

----------------------------------------------------------------------------
Segmenter == TakeDelta \/ SendSegment \/ EndDeltas \/ Flush \/ Join
Worker ==
  \/ TakeSegment \/ TakeChunk \/ Forward \/ Abort \/ Drain \/ EndSegment \/ WorkerEnds

Next ==
  \/ Register \/ AskFails \/ AskAnswered \/ Segmenter \/ HandOver
  \/ Generate \/ SendToken \/ EndReply
  \/ Worker \/ SynthesizeFails \/ Synthesize
  \/ MakeChunk \/ SendChunk \/ EndAudio
  \/ BargeIn \/ Close \/ Recv

Spec == Init /\ [][Next]_vars

\* Goroutines that can run do, and a cancelled request or body fails.
FairSpec ==
  /\ Spec
  /\ WF_vars(Register)
  /\ WF_vars(Segmenter)
  /\ WF_vars(Worker)
  /\ WF_vars(SendToken)
  /\ WF_vars(SendChunk)
  /\ WF_vars(cancelled /\ AskFails)
  /\ WF_vars(cancelled /\ EndReply)
  /\ WF_vars(cancelled /\ SynthesizeFails)
  /\ WF_vars(cancelled /\ EndAudio)
  /\ WF_vars(closed /\ HandOver)

----------------------------------------------------------------------------
(* Properties                                                              *)

\* The types of the variables.
TypeOK ==
  /\ at \in {"spawned", "asking", "reading", "sending", "flushing", "joining", "reply", "done"}
  /\ attempt \in 0..2
  /\ llm \in {"off", "reading", "sending", "done"}
  /\ generated \in 0..MaxTokens
  /\ deltas \in Seq(Tokens) /\ Len(deltas) <= DeltaCap
  /\ {full, piece, kept, current} \subseteq Seq(Tokens)
  /\ segments \in Seq(Seq(Tokens)) /\ Len(segments) <= SegmentCap
  /\ worker \in {"off", "idle", "asking", "forwarding", "holding", "draining", "done"}
  /\ held \in Chunk \cup {NoChunk}
  /\ tts \in {"off", "reading", "sending", "done"}
  /\ made \in 0..MaxChunks
  /\ pcm \in Seq(Chunk) /\ Len(pcm) <= PcmCap
  /\ recvCh \in Seq(Chunk) /\ Len(recvCh) <= AudioCap
  /\ {cancelled, closed} \subseteq BOOLEAN
  /\ worked \in Seq(Seq(Tokens))
  /\ voiced \in Seq(Chunk)

\* One chunk follows another: the next of its segment, or the first of a later
\* segment.
Follows(c, d) ==
  \/ d.of = c.of /\ d.n = c.n + 1
  \/ Last(c.of) < Head(d.of) /\ d.n = 1

\* The listener hears the reply in order: no chunk twice, none left out within
\* a segment, one segment after the other, though segmenter, worker and stages
\* run concurrently and any of them may be cancelled.
VoicedInOrder ==
  \A i \in 2..Len(voiced) : Follows(voiced[i - 1], voiced[i])

\* A reply that nobody cancelled has been through the worker to its last token,
\* the trailing text without a sentence end too, when it is handed back; and it
\* is all that was generated.
WholeReply ==
  ~cancelled /\ at \in {"reply", "done"} /\ llm # "off" =>
    /\ full = [i \in 1..generated |-> i]
    /\ FlattenSeq(worked) = kept

Phase ==
  CASE at = "spawned" -> "spawned"
    [] at = "reply" -> "reply"
    [] at = "done" -> "done"
    [] OTHER -> "speaking"

Life == INSTANCE ResponseLife WITH phase <- Phase

\* The pipeline is the response that the orchestrator counts on: it is silent
\* once it has ended (bargeIn drains recvCh after <-done), and it ends once it
\* is cancelled, wherever its goroutines block and however full the channels
\* are, with a provider that hangs and a bridge that does not read.
IsAResponse == Life!FairSpec

\* A cancelled response leaves no goroutine of a stage behind, the one whose
\* reader has left included.
StagesEnd ==
  cancelled /\ at # "spawned" ~> llm \in {"off", "done"} /\ tts \in {"off", "done"}
=============================================================================
