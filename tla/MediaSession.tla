---------------------------- MODULE MediaSession ----------------------------
(***************************************************************************)
(* The media plane of one session that was committed: the adapter's        *)
(* readLoop, which fans what the provider sends out into four channels,    *)
(* the bridge's goroutines that read them, and the close of the session.   *)
(*                                                                         *)
(* The adapter is Gemini's.  A chunk of audio stands for the turn it is    *)
(* of; texts, tool calls and frames are counted.  The browser, the         *)
(* connection and the provider's server are the environment.               *)
(***************************************************************************)
EXTENDS Naturals, Sequences

CONSTANTS
  AudioCap,       \* capacity of recvCh
  TextCap,        \* capacity of textCh
  ToolCap,        \* capacity of toolCallCh
  Interruptible,  \* the model supports interruption
  MaxItems,       \* bound: what the provider sends
  MaxFrames       \* bound: frames a chunk of audio makes

ASSUME MediaAssumption ==
  /\ AudioCap \in Nat \ {0}
  /\ TextCap \in Nat \ {0}
  /\ ToolCap \in Nat \ {0}
  /\ Interruptible \in BOOLEAN
  /\ MaxItems \in Nat
  /\ MaxFrames \in Nat

VARIABLES
  reader,     \* readLoop: "read", the item it handles, "ending" or "gone"
  closed,     \* how many channels the defers of readLoop have closed
  recvCh,     \* the queued chunks of audio
  texts,      \* transcripts queued on textCh
  tools,      \* calls queued on toolCallCh
  signal,     \* an interruption is queued on interruptedCh
  turn,       \* interruptions read so far
  heeded,     \* history: interruptions the monitor has taken up
  pump,       \* writeOutbound
  frames,     \* frames in its buf, none once it is gone
  monitor,    \* monitorInterruption
  forward,    \* forwardTranscripts
  toolForward,\* forwardToolCalls
  inbound,    \* readInbound
  dc,         \* the browser's data channel
  scope,      \* progress of sessionScope.Close
  items       \* bound: items sent so far

adapterVars == <<reader, closed, recvCh, texts, tools, signal, turn, items>>
forwardVars == <<forward, toolForward, dc>>
pumpVars == <<pump, frames>>
monitorVars == <<monitor, heeded>>
vars == <<adapterVars, pumpVars, monitorVars, forwardVars, inbound, scope>>

\* A chunk is audio of a turn.  History: it is cut if it came while the monitor
\* had yet to take up, or to finish with, an interruption.
Chunk == [turn : 0..MaxItems, cut : BOOLEAN]
NewChunk == [turn |-> turn, cut |-> turn > heeded \/ monitor = "drain"]

Init ==
  /\ reader = "read"
  /\ closed = 0
  /\ recvCh = <<>>
  /\ texts = 0
  /\ tools = 0
  /\ signal = FALSE
  /\ turn = 0
  /\ heeded = 0
  /\ pump = "recv"
  /\ frames = 0
  /\ monitor = IF Interruptible THEN "poll" ELSE "gone"
  /\ forward = "none"
  /\ toolForward = "none"
  /\ inbound = "none"
  /\ dc = "none"
  /\ scope = "live"
  /\ items = 0

\* The media context is done: cancel() in sessionScope.Close.
MediaDone == scope # "live"

\* The context of the model is done: cancel() in its Close.
ModelDone == scope \notin {"live", "cancelled"}

\* The defers run last to first.
ToolsClosed == closed >= 1
SignalClosed == closed >= 2
TextsClosed == closed >= 3
AudioClosed == closed >= 4

----------------------------------------------------------------------------
(* The adapter                                                             *)

\* What readLoop handles after an item of a message, "read" being the next
\* message.
After(item) ==
  CASE item = "text" -> {"text", "tool", "interrupt", "audio", "read"}
    [] item = "tool" -> {"tool", "text", "interrupt", "audio", "read"}
    [] item = "interrupt" -> {"audio", "read"}
    [] item = "audio" -> {"audio", "read"}

\* The next item of the message; MaxItems bounds them.
Handled(item) ==
  /\ reader = item
  /\ reader' \in IF items < MaxItems THEN After(item) ELSE {"read"}
  /\ items' = IF reader' = "read" THEN items ELSE items + 1

ReadMessage ==
  /\ reader = "read"
  /\ ~ModelDone
  /\ items < MaxItems
  /\ items' = items + 1
  /\ reader' \in {"text", "tool", "interrupt", "audio"}
  /\ UNCHANGED <<closed, recvCh, texts, tools, signal, turn, pumpVars, monitorVars, forwardVars,
                 inbound, scope>>

\* emitText waits for room or for the context, which readLoop does not notice
\* before it reads on.
EmitText ==
  /\ Handled("text")
  /\ \/ texts < TextCap /\ texts' = texts + 1
     \/ ModelDone /\ UNCHANGED texts
  /\ UNCHANGED <<closed, recvCh, tools, signal, turn, pumpVars, monitorVars, forwardVars,
                 inbound, scope>>

\* handleToolCall; the context ends all calls of the message.
EmitToolCall ==
  /\ Handled("tool")
  /\ \/ tools < ToolCap /\ tools' = tools + 1
     \/ ModelDone /\ reader' # "tool" /\ UNCHANGED tools
  /\ UNCHANGED <<closed, recvCh, texts, signal, turn, pumpVars, monitorVars, forwardVars,
                 inbound, scope>>

\* Mutant: only the monitor drains.
SignalOnly ==
  /\ Handled("interrupt")
  /\ signal' = TRUE
  /\ turn' = turn + 1
  /\ UNCHANGED <<closed, recvCh, texts, tools, pumpVars, monitorVars, forwardVars, inbound,
                 scope>>

\* signalInterrupted: the queued audio is dropped, the bridge is told.
SignalInterrupted ==
  /\ Handled("interrupt")
  /\ recvCh' = <<>>
  /\ signal' = TRUE
  /\ turn' = turn + 1
  /\ UNCHANGED <<closed, texts, tools, pumpVars, monitorVars, forwardVars, inbound, scope>>

\* Mutant: recvCh has one place more.
EmitAudioMore ==
  /\ Handled("audio")
  /\ Len(recvCh) <= AudioCap
  /\ recvCh' = Append(recvCh, NewChunk)
  /\ UNCHANGED <<closed, texts, tools, signal, turn, pumpVars, monitorVars, forwardVars,
                 inbound, scope>>

EmitAudio ==
  /\ Handled("audio")
  /\ Len(recvCh) < AudioCap
  /\ recvCh' = Append(recvCh, NewChunk)
  /\ UNCHANGED <<closed, texts, tools, signal, turn, pumpVars, monitorVars, forwardVars,
                 inbound, scope>>

\* The connection fails, the server or Close ends it, or the context is done
\* while audio waits for room.
ReadEnds ==
  /\ \/ reader = "read"
     \/ reader = "audio" /\ ModelDone
  /\ reader' = "ending"
  /\ UNCHANGED <<closed, recvCh, texts, tools, signal, turn, items, pumpVars, monitorVars,
                 forwardVars, inbound, scope>>

\* A defer of readLoop: toolCallCh, interruptedCh, textCh, recvCh, wg.Done.
CloseNext ==
  /\ reader = "ending"
  /\ IF closed < 4 THEN closed' = closed + 1 /\ UNCHANGED reader
                   ELSE reader' = "gone" /\ UNCHANGED closed
  /\ UNCHANGED <<recvCh, texts, tools, signal, turn, items, pumpVars, monitorVars, forwardVars,
                 inbound, scope>>

----------------------------------------------------------------------------
(* The outbound pump                                                       *)

\* Recv returns a chunk: audio that makes some frames, or less than one.
PumpRecv ==
  /\ pump = "recv"
  /\ recvCh # <<>>
  /\ recvCh' = Tail(recvCh)
  /\ frames' \in 0..MaxFrames
  /\ pump' = IF frames' > 0 THEN "write" ELSE "recv"
  /\ UNCHANGED <<reader, closed, texts, tools, signal, turn, items, monitorVars, forwardVars,
                 inbound, scope>>

\* Recv returns io.EOF: the adapter is closed, or it has ended and all is read.
PumpEnds ==
  /\ pump = "recv"
  /\ ModelDone \/ (AudioClosed /\ recvCh = <<>>)
  /\ pump' = "gone"
  /\ UNCHANGED <<adapterVars, frames, monitorVars, forwardVars, inbound, scope>>

\* A frame is written, cannot be encoded, or cannot be written.
PumpWrite ==
  /\ pump = "write"
  /\ pump' \in {"tick", "gone", IF frames > 1 THEN "write" ELSE "recv"}
  /\ frames' = IF pump' = "gone" THEN 0 ELSE frames - 1
  /\ UNCHANGED <<adapterVars, monitorVars, forwardVars, inbound, scope>>

\* The pace: the next tick, or the end of the session.
PumpTick ==
  /\ pump = "tick"
  /\ \/ pump' = (IF frames > 0 THEN "write" ELSE "recv") /\ UNCHANGED frames
     \/ MediaDone /\ pump' = "gone" /\ frames' = 0
  /\ UNCHANGED <<adapterVars, monitorVars, forwardVars, inbound, scope>>

----------------------------------------------------------------------------
(* The interruption monitor                                                *)

\* Mutant: the answer of RecvInterrupted is not looked at.
PollBlindly ==
  /\ monitor = "poll"
  /\ monitor' = "drain"
  /\ heeded' = turn
  /\ signal' = FALSE
  /\ UNCHANGED <<reader, closed, recvCh, texts, tools, turn, items, pumpVars, forwardVars,
                 inbound, scope>>

\* A tick: RecvInterrupted says yes.  It does so, too, once interruptedCh is
\* closed.
Poll ==
  /\ monitor = "poll"
  /\ signal \/ SignalClosed
  /\ monitor' = "drain"
  /\ heeded' = turn
  /\ signal' = FALSE
  /\ UNCHANGED <<reader, closed, recvCh, texts, tools, turn, items, pumpVars, forwardVars,
                 inbound, scope>>

\* Either context is done.
MonitorEnds ==
  /\ monitor = "poll"
  /\ MediaDone
  /\ monitor' = "gone"
  /\ UNCHANGED <<adapterVars, heeded, pumpVars, forwardVars, inbound, scope>>

\* drainAudioQueue: a chunk, and another, until recvCh is empty.  A closed
\* channel never is: the receive succeeds and nothing changes.
DrainChunk ==
  /\ monitor = "drain"
  /\ recvCh # <<>>
  /\ recvCh' = Tail(recvCh)
  /\ UNCHANGED <<reader, closed, texts, tools, signal, turn, items, pumpVars, monitorVars,
                 forwardVars, inbound, scope>>

DrainEnds ==
  /\ monitor = "drain"
  /\ recvCh = <<>>
  /\ ~AudioClosed
  /\ monitor' = "poll"
  /\ UNCHANGED <<adapterVars, heeded, pumpVars, forwardVars, inbound, scope>>

----------------------------------------------------------------------------
(* The data channel                                                        *)

\* The browser's channel opens: the replay is sent, the forwarders start.  Until
\* pc.Close nothing keeps it from opening, a close under way included.
OpenChannel ==
  /\ dc = "none"
  /\ scope # "closed"
  /\ dc' = "open"
  /\ forward' = "recv"
  /\ toolForward' = "recv"
  /\ UNCHANGED <<adapterVars, pumpVars, monitorVars, inbound, scope>>

\* The channel closes, under a transcript that is being sent or not.
CloseChannel ==
  /\ dc = "open"
  /\ dc' = "gone"
  /\ forward' \in IF forward = "send" THEN {"send", "gone"} ELSE {forward}
  /\ UNCHANGED <<adapterVars, pumpVars, monitorVars, toolForward, inbound, scope>>

RecvTranscript ==
  /\ forward = "recv"
  /\ \/ texts > 0 /\ texts' = texts - 1 /\ forward' = "send"
     \/ (ModelDone \/ (TextsClosed /\ texts = 0)) /\ forward' = "gone" /\ UNCHANGED texts
  /\ UNCHANGED <<reader, closed, recvCh, tools, signal, turn, items, pumpVars, monitorVars,
                 toolForward, dc, inbound, scope>>

\* Mutant: only the channel is waited for.
SendTranscriptBlindly ==
  /\ forward = "send"
  /\ dc = "open"
  /\ forward' = "recv"
  /\ UNCHANGED <<adapterVars, pumpVars, monitorVars, toolForward, dc, inbound, scope>>

\* It waits for the channel to be open, or for the end of the session; SendText
\* may fail with the channel open, and nobody forwards transcripts any more.
SendTranscript ==
  /\ forward = "send"
  /\ \/ dc = "open" /\ forward' \in {"recv", "failed"}
     \/ dc # "open" /\ MediaDone /\ forward' = "gone"
  /\ UNCHANGED <<adapterVars, pumpVars, monitorVars, toolForward, dc, inbound, scope>>

\* Mutant: one call is forwarded.
RecvOneToolCall ==
  /\ toolForward = "recv"
  /\ \/ tools > 0 /\ tools' = tools - 1 /\ toolForward' = "gone"
     \/ (ModelDone \/ (ToolsClosed /\ tools = 0)) /\ toolForward' = "gone" /\ UNCHANGED tools
  /\ UNCHANGED <<reader, closed, recvCh, texts, signal, turn, items, pumpVars, monitorVars,
                 forward, dc, inbound, scope>>

RecvToolCall ==
  /\ toolForward = "recv"
  /\ \/ tools > 0 /\ tools' = tools - 1 /\ toolForward' = "send"
     \/ (ModelDone \/ (ToolsClosed /\ tools = 0)) /\ toolForward' = "gone" /\ UNCHANGED tools
  /\ UNCHANGED <<reader, closed, recvCh, texts, signal, turn, items, pumpVars, monitorVars,
                 forward, dc, inbound, scope>>

\* A call finds the channel open, or ends the forwarder; SendText may fail, as
\* above.  The end of the session is looked at last.
SendToolCall ==
  /\ toolForward = "send"
  /\ IF dc = "open" THEN toolForward' \in {"failed", IF MediaDone THEN "gone" ELSE "recv"}
                    ELSE toolForward' = "gone"
  /\ UNCHANGED <<adapterVars, pumpVars, monitorVars, forward, dc, inbound, scope>>

----------------------------------------------------------------------------
(* The microphone                                                          *)

\* OnTrack; until pc.Close, as above.
InboundStarts ==
  /\ inbound = "none"
  /\ scope # "closed"
  /\ inbound' = "read"
  /\ UNCHANGED <<adapterVars, pumpVars, monitorVars, forwardVars, scope>>

\* A packet that the model does not take, or the end of the track.
InboundEnds ==
  /\ inbound = "read"
  /\ ModelDone \/ reader \in {"ending", "gone"}
  /\ inbound' = "gone"
  /\ UNCHANGED <<adapterVars, pumpVars, monitorVars, forwardVars, scope>>

----------------------------------------------------------------------------
(* sessionScope.Close                                                      *)

\* The connection has dropped, or CloseAll: cancel().
CloseScope ==
  /\ scope = "live"
  /\ scope' = "cancelled"
  /\ UNCHANGED <<adapterVars, pumpVars, monitorVars, forwardVars, inbound>>

\* model.Close: its context is done, its connection is closed ...
StopModel ==
  /\ scope = "cancelled"
  /\ scope' = "stopping"
  /\ UNCHANGED <<adapterVars, pumpVars, monitorVars, forwardVars, inbound>>

\* ... and readLoop has gone.
ModelStopped ==
  /\ scope = "stopping"
  /\ reader = "gone"
  /\ scope' = "stopped"
  /\ UNCHANGED <<adapterVars, pumpVars, monitorVars, forwardVars, inbound>>

\* pc.Close
ClosePeer ==
  /\ scope = "stopped"
  /\ scope' = "closed"
  /\ dc' = IF dc = "open" THEN "gone" ELSE dc
  /\ UNCHANGED <<adapterVars, pumpVars, monitorVars, forward, toolForward, inbound>>

----------------------------------------------------------------------------
Fan == EmitText \/ EmitToolCall \/ SignalInterrupted \/ EmitAudio \/ CloseNext
Pump == PumpRecv \/ PumpEnds \/ PumpWrite \/ PumpTick
Monitor == Poll \/ MonitorEnds \/ DrainChunk \/ DrainEnds
Forward == RecvTranscript \/ SendTranscript
ForwardTools == RecvToolCall \/ SendToolCall
Closing == StopModel \/ ModelStopped \/ ClosePeer

Next ==
  \/ ReadMessage \/ ReadEnds \/ Fan \/ Pump \/ Monitor
  \/ OpenChannel \/ CloseChannel \/ Forward \/ ForwardTools
  \/ InboundStarts \/ InboundEnds \/ CloseScope \/ Closing

Spec == Init /\ [][Next]_vars

\* Every goroutine that can run does; a read ends once the adapter is closed,
\* and a microphone once its connection is.  The browser and the provider need
\* do nothing.
Fairness ==
  /\ WF_vars(Fan)
  /\ WF_vars(ModelDone /\ ReadEnds)
  /\ WF_vars(Pump)
  /\ WF_vars(Monitor)
  /\ WF_vars(Forward)
  /\ WF_vars(ForwardTools)
  /\ WF_vars(Closing)
  /\ WF_vars(scope = "closed" /\ InboundEnds)

FairSpec == Spec /\ Fairness

----------------------------------------------------------------------------
(* Properties                                                              *)

\* The types of the variables.
TypeOK ==
  /\ reader \in {"read", "text", "tool", "interrupt", "audio", "ending", "gone"}
  /\ closed \in 0..4
  /\ recvCh \in Seq(Chunk) /\ Len(recvCh) <= AudioCap
  /\ texts \in 0..TextCap
  /\ tools \in 0..ToolCap
  /\ signal \in BOOLEAN
  /\ turn \in 0..MaxItems
  /\ heeded \in 0..MaxItems
  /\ pump \in {"recv", "write", "tick", "gone"}
  /\ frames \in 0..MaxFrames
  /\ pump = "write" => frames > 0
  /\ monitor \in {"poll", "drain", "gone"}
  /\ forward \in {"none", "recv", "send", "failed", "gone"}
  /\ toolForward \in {"none", "recv", "send", "failed", "gone"}
  /\ inbound \in {"none", "read", "gone"}
  /\ dc \in {"none", "open", "gone"}
  /\ scope \in {"live", "cancelled", "stopping", "stopped", "closed"}
  /\ items \in 0..MaxItems

\* Once an interruption was read, no audio of an earlier turn is queued: the
\* listener hears no more of it than the chunk the pump holds, whenever the
\* monitor comes to poll.
InterruptedIsSilent == \A i \in 1..Len(recvCh) : recvCh[i].turn = turn

\* What the monitor drops came between an interruption and the end of the drain
\* that answers it, and no interruption is answered twice: once the monitor is
\* done with an interruption, all audio that comes is heard until the next, unless
\* the provider has ended the session; then the monitor drops what was left.
\* (readLoop has dropped the older turns itself, so what the monitor drops is
\* always audio of the turn that follows.)
LostToInterruption == [][DrainChunk => Head(recvCh).cut \/ SignalClosed]_vars

\* drainAudioQueue receives from the closed recvCh for ever.
Spinning == monitor = "drain" /\ AudioClosed

OthersGone ==
  /\ reader = "gone"
  /\ pump = "gone"
  /\ forward \in {"none", "failed", "gone"}
  /\ toolForward \in {"none", "failed", "gone"}
  /\ inbound \in {"none", "gone"}

\* A session that is closed ends, with all its goroutines, whatever each waits
\* for and however full the channels are, except a monitor that spins.
SessionEnds ==
  MediaDone ~> scope = "closed" /\ OthersGone /\ (monitor = "gone" \/ Spinning)

\* readLoop holds an item that a forwarder is there to make room for.
Gated ==
  \/ reader = "text" /\ forward # "failed"
  \/ reader = "tool" /\ toolForward # "failed"

\* Transcripts and tool calls hold up the audio that follows them for a while
\* only, as long as the data channel is open and their forwarder has not failed
\* to send on it (textCh or toolCallCh then fills, and the audio waits for good).
MediaNotGated == Gated ~> ~Gated \/ dc # "open" \/ MediaDone

----------------------------------------------------------------------------
(* What the comments say                                                   *)

\* bridge.go: CloseAll "waits for their goroutines to exit".
GoroutinesExit == MediaDone ~> OthersGone /\ monitor = "gone"
=============================================================================
