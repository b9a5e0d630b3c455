----------------------------- MODULE ResponseLife -----------------------------
(***************************************************************************)
(* The life of a response as the orchestrator counts on it (the responses  *)
(* of module Cascade): it registers itself, queues audio for the bridge    *)
(* while it speaks and never after, stops speaking in the end once it is   *)
(* cancelled, and hands its reply over unless the session ends first.      *)
(***************************************************************************)
EXTENDS Naturals, Sequences, SequencesExt

CONSTANTS
  Chunk,     \* pieces of audio
  AudioCap   \* capacity of recvCh

VARIABLES
  phase,      \* spawned, speaking, reply, done
  cancelled,  \* its genCtx is cancelled
  closed,     \* the session's context is
  recvCh      \* its audio that the bridge has not read

vars == <<phase, cancelled, closed, recvCh>>

Init ==
  /\ phase = "spawned"
  /\ cancelled = FALSE
  /\ closed = FALSE
  /\ recvCh = <<>>

Becomes(from, to) ==
  /\ phase = from
  /\ phase' = to
  /\ UNCHANGED <<cancelled, closed, recvCh>>

Register == Becomes("spawned", "speaking")

Speak ==
  /\ phase = "speaking"
  /\ Len(recvCh) < AudioCap
  /\ recvCh' # <<>>
  /\ Front(recvCh') = recvCh
  /\ Last(recvCh') \in Chunk
  /\ UNCHANGED <<phase, cancelled, closed>>

StopSpeaking == Becomes("speaking", "reply") \/ Becomes("speaking", "done")

HandOver == Becomes("reply", "done")

\* bargeIn cancels the response, Close the session and with it the response.
Cancel ==
  /\ cancelled' = TRUE
  /\ closed' \in {closed, TRUE}
  /\ UNCHANGED <<phase, recvCh>>

\* The bridge reads.
Recv ==
  /\ recvCh # <<>>
  /\ recvCh' = Tail(recvCh)
  /\ UNCHANGED <<phase, cancelled, closed>>

\* bargeIn drains what is queued.
Drain ==
  /\ recvCh' = <<>>
  /\ UNCHANGED <<phase, cancelled, closed>>

Next == Register \/ Speak \/ StopSpeaking \/ HandOver \/ Cancel \/ Recv \/ Drain

Spec == Init /\ [][Next]_vars

FairSpec ==
  /\ Spec
  /\ WF_vars(Register)
  /\ WF_vars(cancelled /\ StopSpeaking)
  /\ WF_vars(closed /\ HandOver)
=============================================================================
