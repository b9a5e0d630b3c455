------------------------------ MODULE Cascade ------------------------------
(***************************************************************************)
(* The cascade orchestrator: one run() goroutine that owns the history and *)
(* the turn state, the respond() goroutines that stream a reply into       *)
(* recvCh, the turn-end timers, barge-in and Close.                        *)
(*                                                                         *)
(* run() is a program counter over the places where it can block: its      *)
(* select, emitTranscript, the send of scheduleSpeculative and the wait of *)
(* bargeIn.  What it does between two of them touches only its own state   *)
(* and pendingCh, and is one step.  Texts are compared by jaccard only: a  *)
(* text stands for the class of texts alike.  ASR events and typed turns   *)
(* come in any order.                                                      *)
(***************************************************************************)
EXTENDS Naturals, Sequences

CONSTANTS
  Texts,          \* texts users say or type
  None,
  AudioCap,       \* capacity of recvCh
  TranscriptCap,  \* capacity of transcriptCh
  ModelTurnCap,   \* capacity of modelTurnCh
  MaxEvents       \* bound: ASR events, typed turns and restored turns

ASSUME CascadeAssumption ==
  /\ None \notin Texts
  /\ AudioCap \in Nat \ {0}
  /\ TranscriptCap \in Nat \ {0}
  /\ ModelTurnCap \in Nat \ {0}
  /\ MaxEvents \in Nat

\* Every input starts at most one response.
Responses == 1..MaxEvents

VARIABLES
  at,           \* where run() is
  partial,      \* the ASRPartial run() is captioning: its text, and whether it is stable
  history,      \* Cascade.history
  lastUserText,
  speculative,  \* Cascade.speculativeActive
  pending,      \* a signal is queued on pendingCh
  timer,        \* the turn-detect wait behind pendingCancel runs
  loose,        \* cancelled waits that have not exited yet
  resp,         \* the respond() goroutines
  cancelled,    \* those whose genCtx is cancelled
  gen,          \* the one behind genCancel and genDone, or 0
  awaited,      \* the one bargeIn waits for, or 0
  recvCh,       \* who each queued chunk is from
  transcripts,  \* items queued on transcriptCh
  modelTurnCh,  \* whose reply each queued one is
  close,        \* progress of Close
  events,       \* bound: inputs so far
  overtaken,    \* history: something was appended after an active speculation
  missed,       \* history: a barge-in missed a running response
  hushed,       \* history: responses started before the last barge-in
  due           \* history: a final waits for its response

turnVars == <<history, lastUserText, speculative>>
timerVars == <<pending, timer, loose>>
respondVars == <<resp, cancelled, gen>>
channelVars == <<recvCh, transcripts, modelTurnCh>>
historyVars == <<overtaken, missed, hushed, due>>
vars == <<at, partial, turnVars, timerVars, respondVars, awaited, channelVars, close,
          events, historyVars>>

\* A turn of the history.  A user turn committed from a partial and not
\* confirmed yet is "tentative" here; the code tells it apart by
\* speculativeActive only.  The text of a reply is the response it came from.
Turn == [role : {"user", "tentative", "model"}, text : Texts \cup Responses]
UserTurn(t) == [role |-> "user", text |-> t]
TentativeTurn(t) == [role |-> "tentative", text |-> t]

\* Mutant: the role the LLM's API uses.
AssistantTurn(r) == [role |-> "assistant", text |-> r]

ModelTurn(r) == [role |-> "model", text |-> r]
NoPartial == [text |-> None, stable |-> FALSE]

Init ==
  /\ at = "select"
  /\ partial = NoPartial
  /\ history = <<>>
  /\ lastUserText = None
  /\ speculative = FALSE
  /\ pending = FALSE
  /\ timer = FALSE
  /\ loose = 0
  /\ resp = [r \in Responses |-> "idle"]
  /\ cancelled = {}
  /\ gen = 0
  /\ awaited = 0
  /\ recvCh = <<>>
  /\ transcripts = 0
  /\ modelTurnCh = <<>>
  /\ close = "no"
  /\ events = 0
  /\ overtaken = FALSE
  /\ missed = FALSE
  /\ hushed = {}
  /\ due = FALSE

Goto(from, to) == at = from /\ at' = to

Input ==
  /\ events < MaxEvents
  /\ events' = events + 1

----------------------------------------------------------------------------
(* Steps of run() that several handlers share                              *)

\* cancelPending: the wait is cancelled, a queued signal is taken back.  A
\* cancelled wait whose time is up as well may still signal.
CancelPending ==
  /\ timer' = FALSE
  /\ loose' = IF timer THEN loose + 1 ELSE loose
  /\ pending' = FALSE
  /\ due' = FALSE

\* Mutant: the turn is taken back whether or not it is speculative.
WithoutLast == IF history # <<>> THEN SubSeq(history, 1, Len(history) - 1) ELSE history

\* Mutant: the turn is left in the history.
WithLast == history

\* removeSpeculative: the history without the speculative turn.
WithoutSpeculative ==
  IF speculative /\ history # <<>> THEN SubSeq(history, 1, Len(history) - 1) ELSE history

\* A turn is appended to the history.
AppendTurn(turn) ==
  /\ history' = Append(history, turn)
  /\ overtaken' = (overtaken \/ speculative)

Alive(r) == resp[r] \notin {"idle", "done"}

\* startRespond: a goroutine on a snapshot of the history.
StartRespond ==
  \E r \in Responses :
    /\ resp[r] = "idle"
    /\ \A q \in 1..(r - 1) : resp[q] # "idle"
    /\ resp' = [resp EXCEPT ![r] = "spawned"]
    /\ due' = FALSE

----------------------------------------------------------------------------
(* run()                                                                   *)

\* ASRPartial: the caption is emitted first.
HearPartial ==
  /\ Input
  /\ Goto("select", "partial")
  /\ \E t \in Texts, s \in BOOLEAN : partial' = [text |-> t, stable |-> s]
  /\ UNCHANGED <<turnVars, timerVars, respondVars, awaited, channelVars, close,
                 historyVars>>

\* emitTranscript returns: there was room, or the cascade is closed.
Emit ==
  \/ transcripts < TranscriptCap /\ transcripts' = transcripts + 1
  \/ close # "no" /\ UNCHANGED transcripts

\* The rest of the partial.  An earlier speculation is taken back, its
\* response is not cancelled.  A stable one is committed as a tentative turn;
\* scheduleSpeculative drains pendingCh and then sends.
DropPartial ==
  /\ at = "partial"
  /\ Emit
  /\ CancelPending
  /\ partial' = NoPartial
  /\ IF partial.stable
     THEN /\ at' = "send"
          /\ history' = Append(WithoutSpeculative, TentativeTurn(partial.text))
          /\ speculative' = TRUE
     ELSE /\ at' = "select"
          /\ history' = WithoutSpeculative
          /\ speculative' = FALSE
  /\ UNCHANGED <<lastUserText, respondVars, awaited, recvCh, modelTurnCh, close, events, overtaken, missed, hushed>>

\* scheduleSpeculative: c.pendingCh <- struct{}{}.  A cancelled wait that
\* signals after the drain leaves run() waiting for itself.
SendPending ==
  /\ Goto("send", "select")
  /\ ~pending
  /\ pending' = TRUE
  /\ UNCHANGED <<partial, turnVars, timer, loose, respondVars, awaited, channelVars, close,
                 events, overtaken, missed, hushed, due>>

\* ASRSpeechStarted, up to the wait in bargeIn.
HearSpeech ==
  /\ Input
  /\ Goto("select", "silence")
  /\ CancelPending
  /\ history' = WithoutSpeculative
  /\ speculative' = FALSE
  /\ cancelled' = IF gen = 0 THEN cancelled ELSE cancelled \cup {gen}
  /\ awaited' = gen
  /\ missed' = (missed \/ \E r \in Responses : Alive(r) /\ r # gen)
  /\ UNCHANGED <<partial, lastUserText, resp, gen, channelVars, close, overtaken,
                 hushed>>

\* Mutant: bargeIn drains without waiting for genDone.
SilenceAtOnce ==
  /\ Goto("silence", "select")
  /\ recvCh' = <<>>
  /\ awaited' = 0
  /\ hushed' = {r \in Responses : resp[r] # "idle"}
  /\ UNCHANGED <<partial, turnVars, timerVars, respondVars, transcripts, modelTurnCh, close,
                 events, overtaken, missed, due>>

\* bargeIn: <-done, then recvCh is drained.
Silence ==
  /\ Goto("silence", "select")
  /\ awaited # 0 => resp[awaited] = "done"
  /\ recvCh' = <<>>
  /\ awaited' = 0
  /\ hushed' = {r \in Responses : resp[r] # "idle"}
  /\ UNCHANGED <<partial, turnVars, timerVars, respondVars, transcripts, modelTurnCh, close,
                 events, overtaken, missed, due>>

\* ASRFinal, a duplicate of the last utterance.
HearDuplicate ==
  /\ Input
  /\ at = "select"
  /\ lastUserText # None
  /\ history' = WithoutSpeculative
  /\ speculative' = FALSE
  /\ UNCHANGED <<at, partial, lastUserText, timerVars, respondVars, awaited, channelVars,
                 close, historyVars>>

\* ASRFinal that confirms the speculation: the last turn gets its text.
HearConfirmed ==
  \E t \in Texts \ {lastUserText} :
    /\ Input
    /\ at = "select"
    /\ speculative
    /\ history[Len(history)].text = t
    /\ history' = [history EXCEPT ![Len(history)] = UserTurn(t)]
    /\ speculative' = FALSE
    /\ lastUserText' = t
    /\ CancelPending
    /\ UNCHANGED <<at, partial, respondVars, awaited, channelVars, close, overtaken,
                   missed, hushed>>

\* Any other ASRFinal: a speculation is discarded, the turn is appended.
HearFinal ==
  \E t \in Texts \ {lastUserText} :
    /\ Input
    /\ Goto("select", "final")
    /\ speculative => history[Len(history)].text # t
    /\ history' = Append(WithoutSpeculative, UserTurn(t))
    /\ speculative' = FALSE
    /\ lastUserText' = t
    /\ CancelPending
    /\ UNCHANGED <<partial, respondVars, awaited, channelVars, close, overtaken,
                   missed, hushed>>

\* Its transcript is emitted; schedulePending drains pendingCh once more and
\* starts a wait.
SchedulePending ==
  /\ Goto("final", "select")
  /\ Emit
  /\ pending' = FALSE
  /\ timer' = TRUE
  /\ due' = TRUE
  /\ UNCHANGED <<partial, turnVars, loose, respondVars, awaited, recvCh,
                 modelTurnCh, close, events, overtaken, missed, hushed>>

\* A typed turn that is not like the last one ...
ReadText ==
  \E t \in Texts \ {lastUserText} :
    /\ Input
    /\ Goto("select", "typed")
    /\ lastUserText' = t
    /\ AppendTurn(UserTurn(t))
    /\ UNCHANGED <<partial, speculative, timerVars, respondVars, awaited, channelVars, close, missed, hushed, due>>

\* ... is emitted and answered.
RespondToText ==
  /\ Goto("typed", "select")
  /\ Emit
  /\ StartRespond
  /\ UNCHANGED <<partial, turnVars, timerVars, cancelled, gen, awaited, recvCh, modelTurnCh,
                 close, events, overtaken, missed, hushed>>

\* A signal on pendingCh.
RespondToPending ==
  /\ at = "select"
  /\ pending
  /\ pending' = FALSE
  /\ StartRespond
  /\ UNCHANGED <<at, partial, turnVars, timer, loose, cancelled, gen, awaited, channelVars,
                 close, events, overtaken, missed, hushed>>

\* restoreCh: a turn of the session that is resumed.
Restore ==
  \E t \in Texts :
    /\ Input
    /\ at = "select"
    /\ events = 0
    /\ AppendTurn(UserTurn(t))
    /\ UNCHANGED <<at, partial, lastUserText, speculative, timerVars, respondVars, awaited,
                   channelVars, close, missed, hushed, due>>

\* modelTurnCh: a reply is appended ...
ReadReply ==
  /\ modelTurnCh # <<>>
  /\ Goto("select", "reply")
  /\ AppendTurn(ModelTurn(Head(modelTurnCh)))
  /\ modelTurnCh' = Tail(modelTurnCh)
  /\ UNCHANGED <<partial, lastUserText, speculative, timerVars, respondVars, awaited, recvCh,
                 transcripts, close, events, missed, hushed, due>>

\* ... and emitted.
EmitReply ==
  /\ Goto("reply", "select")
  /\ Emit
  /\ UNCHANGED <<partial, turnVars, timerVars, respondVars, awaited, recvCh, modelTurnCh,
                 close, events, historyVars>>

\* The context is done, or the ASR stage closed its events.
Exit ==
  /\ Goto("select", "exited")
  /\ UNCHANGED <<partial, turnVars, timerVars, respondVars, awaited, channelVars, close,
                 events, historyVars>>

----------------------------------------------------------------------------
(* Turn-end waits                                                          *)

\* Mutant: pendingCh has no buffer.
TimerFiresUnbuffered ==
  /\ timer
  /\ timer' = FALSE
  /\ pending' = (pending \/ at = "select")
  /\ UNCHANGED <<at, partial, turnVars, loose, respondVars, awaited, channelVars, close,
                 events, historyVars>>

\* The pause is over: signal unless one is queued.
TimerFires ==
  /\ timer
  /\ timer' = FALSE
  /\ pending' = TRUE
  /\ UNCHANGED <<at, partial, turnVars, loose, respondVars, awaited, channelVars, close,
                 events, historyVars>>

\* A cancelled wait exits; it may have seen its pause end first.
LooseExits ==
  /\ loose > 0
  /\ loose' = loose - 1
  /\ pending' \in {pending, TRUE}
  /\ UNCHANGED <<at, partial, turnVars, timer, respondVars, awaited, channelVars, close,
                 events, historyVars>>

\* The context of the cascade is done.
TimerExits ==
  /\ close # "no"
  /\ timer
  /\ timer' = FALSE
  /\ UNCHANGED <<at, partial, turnVars, pending, loose, respondVars, awaited, channelVars,
                 close, events, historyVars>>

----------------------------------------------------------------------------
(* respond()                                                               *)

Becomes(r, from, to) ==
  /\ resp[r] = from
  /\ resp' = [resp EXCEPT ![r] = to]
  /\ UNCHANGED <<at, partial, turnVars, timerVars, cancelled, awaited, close, events,
                 historyVars>>

\* setGenCancel: bargeIn sees this response from now on, and no other.
Register(r) ==
  /\ Becomes(r, "spawned", "speaking")
  /\ gen' = r
  /\ UNCHANGED <<channelVars>>

\* synthesize forwards a chunk.  Its select may take the send although the
\* context is done.
Speak(r) ==
  /\ resp[r] = "speaking"
  /\ Len(recvCh) < AudioCap
  /\ recvCh' = Append(recvCh, r)
  /\ UNCHANGED <<at, partial, turnVars, timerVars, respondVars, awaited, transcripts,
                 modelTurnCh, close, events, historyVars>>

\* The deltas have ended, or the context is done, and all is said: with a
\* reply, even one cut short, or without (Generate failed, no delta).
StopSpeaking(r) ==
  /\ \E to \in {"reply", "done"} : Becomes(r, "speaking", to)
  /\ UNCHANGED <<gen, channelVars>>

\* Mutant: the hand-over does not watch the context.
HandOverBlindly(r) ==
  /\ Becomes(r, "reply", "done")
  /\ Len(modelTurnCh) < ModelTurnCap
  /\ modelTurnCh' = Append(modelTurnCh, r)
  /\ UNCHANGED <<gen, recvCh, transcripts>>

\* The reply is handed to run().
HandOver(r) ==
  /\ Becomes(r, "reply", "done")
  /\ \/ Len(modelTurnCh) < ModelTurnCap /\ modelTurnCh' = Append(modelTurnCh, r)
     \/ close # "no" /\ UNCHANGED modelTurnCh
  /\ UNCHANGED <<gen, recvCh, transcripts>>

----------------------------------------------------------------------------
(* The bridge: Recv, RecvTranscript and Close                              *)

Recv ==
  /\ recvCh # <<>>
  /\ recvCh' = Tail(recvCh)
  /\ UNCHANGED <<at, partial, turnVars, timerVars, respondVars, awaited, transcripts,
                 modelTurnCh, close, events, historyVars>>

RecvTranscript ==
  /\ transcripts > 0
  /\ transcripts' = transcripts - 1
  /\ UNCHANGED <<at, partial, turnVars, timerVars, respondVars, awaited, recvCh, modelTurnCh,
                 close, events, historyVars>>

\* Close: c.cancel() cancels every response and wait.
Close ==
  /\ close = "no"
  /\ close' = "waiting"
  /\ cancelled' = Responses
  /\ UNCHANGED <<at, partial, turnVars, timerVars, resp, gen, awaited, channelVars, events, historyVars>>

\* Close: c.wg.Wait() returns, and the stages are closed.
WaitDone ==
  /\ close = "waiting"
  /\ at = "exited"
  /\ ~timer
  /\ loose = 0
  /\ \A r \in Responses : ~Alive(r)
  /\ close' = "closed"
  /\ UNCHANGED <<at, partial, turnVars, timerVars, respondVars, awaited, channelVars, events, historyVars>>

----------------------------------------------------------------------------
Hear == HearPartial \/ HearSpeech \/ HearDuplicate \/ HearConfirmed \/ HearFinal

\* run() after an input.
Continue ==
  \/ DropPartial \/ SendPending \/ Silence \/ SchedulePending \/ RespondToText
  \/ RespondToPending \/ ReadReply \/ EmitReply

Respond(r) == Register(r) \/ Speak(r) \/ StopSpeaking(r) \/ HandOver(r)
Timers == TimerFires \/ LooseExits \/ TimerExits

Next ==
  \/ Hear \/ ReadText \/ Restore \/ Continue \/ Exit \/ Timers
  \/ \E r \in Responses : Respond(r)
  \/ Recv \/ RecvTranscript \/ Close \/ WaitDone

Spec == Init /\ [][Next]_vars

\* Goroutines that can run do, a response that is cancelled ends, and the
\* bridge reads the transcripts.  These steps are finitely many between two
\* inputs, so that it is enough that one of them is taken while any can be.
\* Nobody need speak, no stage need end what it streams, and no audio need be
\* read.
Progress ==
  \/ Continue \/ Timers \/ RecvTranscript \/ WaitDone
  \/ close # "no" /\ Exit
  \/ \E r \in Responses :
       Register(r) \/ (r \in cancelled /\ StopSpeaking(r)) \/ HandOver(r)

FairSpec == Spec /\ WF_vars(Progress)

----------------------------------------------------------------------------
(* Properties                                                              *)

\* The types of the variables.
TypeOK ==
  /\ at \in {"select", "partial", "send", "silence", "final", "typed", "reply", "exited"}
  /\ partial \in [text : Texts \cup {None}, stable : BOOLEAN]
  /\ history \in Seq(Turn)
  /\ lastUserText \in Texts \cup {None}
  /\ speculative \in BOOLEAN
  /\ pending \in BOOLEAN
  /\ timer \in BOOLEAN
  /\ loose \in Nat
  /\ resp \in [Responses -> {"idle", "spawned", "speaking", "reply", "done"}]
  /\ cancelled \in SUBSET Responses
  /\ gen \in Responses \cup {0}
  /\ awaited \in Responses \cup {0}
  /\ recvCh \in Seq(Responses) /\ Len(recvCh) <= AudioCap
  /\ transcripts \in 0..TranscriptCap
  /\ modelTurnCh \in Seq(Responses) /\ Len(modelTurnCh) <= ModelTurnCap
  /\ close \in {"no", "waiting", "closed"}
  /\ events \in Nat
  /\ overtaken \in BOOLEAN
  /\ missed \in BOOLEAN
  /\ hushed \in SUBSET Responses
  /\ due \in BOOLEAN

\* The active speculation is the last turn of the history and the only one that
\* nobody said yet, so that confirming and discarding it touch no other turn,
\* as long as no typed turn and no reply was appended after it.
SpeculationIsLast ==
  ~overtaken =>
    \A k \in 1..Len(history) :
      history[k].role = "tentative" <=> speculative /\ k = Len(history)

\* The dialogue the model is given is what was said: a confirmed, typed or
\* restored turn and a reply are never dropped and never rewritten, whatever
\* partials and finals follow, under the same condition.
DialogueKept ==
  [][\/ overtaken'
     \/ \A k \in 1..Len(history) :
          history[k].role # "tentative" => k <= Len(history') /\ history'[k] = history[k]]_vars

\* After a barge-in no audio of an earlier response reaches the listener, as
\* long as it found no response running but the last registered one, the only
\* one that bargeIn knows.
SilentAfterBargeIn ==
  missed \/ \A i \in 1..Len(recvCh) : recvCh[i] \notin hushed

\* A final that is not confirmed speculation gets its response, unless the user
\* goes on speaking first, or the session ends.
FinalAnswered ==
  due ~> ~due \/ close # "no" \/ at = "exited"

\* run() waits to send on its own pendingCh, which is full.
WaitsForItself == at = "send" /\ pending

\* Close comes to an end: run(), the responses and the waits all notice the
\* context, wherever they block and however full the channels are, except in
\* the send of scheduleSpeculative.
CloseReturns ==
  close = "waiting" ~> close = "closed" \/ WaitsForItself
=============================================================================
