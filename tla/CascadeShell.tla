----------------------------- MODULE CascadeShell -----------------------------
(***************************************************************************)
(* The cascade as the bridge meets it: how the factory puts it together,   *)
(* the recognizer's connection and reader (asr.Whisper), the calls of the  *)
(* bridge's goroutines (SendText, Recv), the audio sources of the output   *)
(* mix (SetAudioSource), and Close, which must take all of it down while   *)
(* any of these calls is under way.  (SendAudio only writes to the         *)
(* connection; its failure ends readInbound, see MediaSession.)            *)
(*                                                                         *)
(* What run() makes of an event or a text, and how a response comes to its *)
(* audio, is the matter of the modules Cascade and Response.  Here run()   *)
(* takes its inputs one after the other, and is held up wherever handling  *)
(* one can block: by a transcript that nobody reads, by the response that  *)
(* bargeIn waits for, and, for good, by its own pendingCh.                 *)
(***************************************************************************)
EXTENDS Naturals

CONSTANTS
  Sources,   \* audio sources, each set once
  None,
  EventCap,  \* capacity of the recognizer's channel
  TextCap,   \* capacity of textIn
  SpeechCap  \* capacity of recvCh

ASSUME ShellAssumption ==
  /\ None \notin Sources
  /\ {EventCap, TextCap, SpeechCap} \subseteq Nat \ {0}

VARIABLES
  built,    \* the factory: asr, tts, abandon, failed, open
  conn,     \* the recognizer's connection: none, up, down, shut
  asrClose, \* Whisper.Close: no, cancelled, waiting, done
  listener, \* its readLoop: none, read, send, closed (the channel is), gone
  events,   \* its channel
  run,      \* run(): none, select, where it blocks (partial, caption, hush, self), gone
  textIn,
  speech,   \* recvCh
  typist,   \* SendText: none, idle, send
  pump,     \* Recv: none, call, read, clear, select, gone
  reading,  \* the source it has looked up
  audioSrc,
  used,     \* sources that were set
  replaced, \* sources a call of SetAudioSource is about to close
  closes,   \* times a source was closed
  close,    \* Close: no, waiting, stages, source, release, returned
  released, \* the source Close has taken
  late      \* history: sources set after that

buildVars == <<built, run>>
asrVars == <<conn, asrClose, listener, events>>
inputVars == <<textIn, typist>>
pumpVars == <<pump, reading, speech>>
mixVars == <<audioSrc, used, replaced, closes, late>>
closeVars == <<close, released>>
vars == <<buildVars, asrVars, inputVars, pumpVars, mixVars, closeVars>>

Init ==
  /\ built = "asr" /\ run = "none"
  /\ conn = "none" /\ asrClose = "no" /\ listener = "none" /\ events = 0
  /\ textIn = 0 /\ typist = "none"
  /\ pump = "none" /\ reading = None /\ speech = 0
  /\ audioSrc = None /\ used = {} /\ replaced = {} /\ late = {}
  /\ closes = [s \in Sources |-> 0]
  /\ close = "no" /\ released = None

\* c.ctx is done, the recognizer's is.
Cancelled == close # "no"
Stopped == asrClose # "no"

----------------------------------------------------------------------------
(* ProdModelFactory.New                                                    *)

\* NewWhisper
DialASR ==
  /\ built = "asr"
  /\ \/ built' = "tts" /\ conn' = "up" /\ listener' = "read"
     \/ built' = "failed" /\ UNCHANGED <<conn, listener>>
  /\ UNCHANGED <<run, asrClose, events, inputVars, pumpVars, mixVars, closeVars>>

\* NewXTTSStream, then cascade.New; the bridge starts its goroutines.
LoadSpeaker ==
  /\ built = "tts"
  /\ built' = "open"
  /\ run' = "select"
  /\ typist' = "idle" /\ pump' = "call"
  /\ UNCHANGED <<asrVars, textIn, reading, speech, mixVars, closeVars>>

\* NewXTTSStream fails: asrStage.Close() ...
LoadFails ==
  /\ built = "tts"
  /\ built' = "abandon"
  /\ UNCHANGED <<run, asrVars, inputVars, pumpVars, mixVars, closeVars>>

\* ... before the error is returned.
Abandon ==
  /\ built = "abandon"
  /\ asrClose = "done"
  /\ built' = "failed"
  /\ UNCHANGED <<run, asrVars, inputVars, pumpVars, mixVars, closeVars>>

----------------------------------------------------------------------------
(* asr.Whisper                                                             *)

\* The network or the recognizer drops the connection.
Break ==
  /\ conn = "up"
  /\ conn' = "down"
  /\ UNCHANGED <<buildVars, asrClose, listener, events, inputVars, pumpVars, mixVars, closeVars>>

\* A message that makes an event.
Hear ==
  /\ listener = "read"
  /\ conn = "up" /\ ~Stopped
  /\ listener' = "send"
  /\ UNCHANGED <<buildVars, conn, asrClose, events, inputVars, pumpVars, mixVars, closeVars>>

\* Mutant: the reader does not watch its context.
EmitBlindly ==
  /\ listener = "send"
  /\ events < EventCap
  /\ events' = events + 1
  /\ listener' = "read"
  /\ UNCHANGED <<buildVars, conn, asrClose, inputVars, pumpVars, mixVars, closeVars>>

\* a.events <- ev, or the context is done.
Emit ==
  /\ listener = "send"
  /\ \/ events < EventCap /\ events' = events + 1 /\ listener' = "read"
     \/ Stopped /\ listener' = "closed" /\ UNCHANGED events
  /\ UNCHANGED <<buildVars, conn, asrClose, inputVars, pumpVars, mixVars, closeVars>>

\* A read error; close(a.events).
ListenerFails ==
  /\ listener = "read"
  /\ conn # "up" \/ Stopped
  /\ listener' = "closed"
  /\ UNCHANGED <<buildVars, conn, asrClose, events, inputVars, pumpVars, mixVars, closeVars>>

\* wg.Done()
ListenerEnds ==
  /\ listener = "closed"
  /\ listener' = "gone"
  /\ UNCHANGED <<buildVars, conn, asrClose, events, inputVars, pumpVars, mixVars, closeVars>>

\* Whisper.Close, called for a cascade that is abandoned or closed: cancel ...
StopASR ==
  /\ asrClose = "no"
  /\ built = "abandon" \/ close = "stages"
  /\ asrClose' = "cancelled"
  /\ UNCHANGED <<buildVars, conn, listener, events, inputVars, pumpVars, mixVars, closeVars>>

\* ... the connection ...
ShutConn ==
  /\ asrClose = "cancelled"
  /\ asrClose' = "waiting"
  /\ conn' = "shut"
  /\ UNCHANGED <<buildVars, listener, events, inputVars, pumpVars, mixVars, closeVars>>

\* ... and the reader.
JoinListener ==
  /\ asrClose = "waiting"
  /\ listener = "gone"
  /\ asrClose' = "done"
  /\ UNCHANGED <<buildVars, conn, listener, events, inputVars, pumpVars, mixVars, closeVars>>

----------------------------------------------------------------------------
(* run()                                                                   *)

\* An ASR event: a duplicate or confirmed final, a partial or a final that is
\* captioned first, or speech, for which bargeIn waits.
TakeEvent ==
  /\ run = "select"
  /\ events > 0
  /\ events' = events - 1
  /\ run' \in {"select", "partial", "caption", "hush"}
  /\ UNCHANGED <<built, conn, asrClose, listener, inputVars, pumpVars, mixVars, closeVars>>

\* A typed turn: a duplicate, or one that is captioned.
TakeText ==
  /\ run = "select"
  /\ textIn > 0
  /\ textIn' = textIn - 1
  /\ run' \in {"select", "caption"}
  /\ UNCHANGED <<built, asrVars, typist, pumpVars, mixVars, closeVars>>

\* A response hands its reply over, which is captioned.
TakeReply ==
  /\ run = "select"
  /\ run' = "caption"
  /\ UNCHANGED <<built, asrVars, inputVars, pumpVars, mixVars, closeVars>>

\* emitTranscript returns: there is room, or the context is done.  After a
\* stable partial comes the send on pendingCh: there is room, or a wait that was
\* cancelled has signalled since the drain.
Captioned ==
  /\ run \in {"partial", "caption"}
  /\ run' \in IF run = "partial" THEN {"select", "self"} ELSE {"select"}
  /\ UNCHANGED <<built, asrVars, inputVars, pumpVars, mixVars, closeVars>>

\* The response that bargeIn waits for has ended: it is cancelled, but first it
\* hands over its reply, if modelTurnCh has room, or until the context is done.
Hushed ==
  /\ run = "hush"
  /\ run' = "select"
  /\ UNCHANGED <<built, asrVars, inputVars, pumpVars, mixVars, closeVars>>

\* The context is done, or the recognizer's channel is closed and empty.  The
\* latter cancels nothing.
RunEnds ==
  /\ run = "select"
  /\ Cancelled \/ (events = 0 /\ listener \in {"closed", "gone"})
  /\ run' = "gone"
  /\ UNCHANGED <<built, asrVars, inputVars, pumpVars, mixVars, closeVars>>

\* A response queues audio; it may after the cancel, until Close has seen it end.
Speak ==
  /\ built = "open"
  /\ close \in {"no", "waiting"}
  /\ speech < SpeechCap
  /\ speech' = speech + 1
  /\ UNCHANGED <<buildVars, asrVars, inputVars, pump, reading, mixVars, closeVars>>

----------------------------------------------------------------------------
(* SendText                                                                *)

SendText ==
  /\ typist = "idle"
  /\ typist' = "send"
  /\ UNCHANGED <<buildVars, asrVars, textIn, pumpVars, mixVars, closeVars>>

\* Mutant: SendText does not watch the context.
TextSentBlindly ==
  /\ typist = "send"
  /\ typist' = "idle"
  /\ textIn < TextCap
  /\ textIn' = textIn + 1
  /\ UNCHANGED <<buildVars, asrVars, pumpVars, mixVars, closeVars>>

\* c.textIn <- text, or the context is done.
TextSent ==
  /\ typist = "send"
  /\ typist' = "idle"
  /\ \/ textIn < TextCap /\ textIn' = textIn + 1
     \/ Cancelled /\ UNCHANGED textIn
  /\ UNCHANGED <<buildVars, asrVars, pumpVars, mixVars, closeVars>>

----------------------------------------------------------------------------
(* Recv and SetAudioSource                                                 *)

\* The active source is looked up under the lock ...
RecvLooks ==
  /\ pump = "call"
  /\ reading' = audioSrc
  /\ pump' = IF audioSrc = None THEN "select" ELSE "read"
  /\ UNCHANGED <<buildVars, asrVars, inputVars, speech, mixVars, closeVars>>

\* ... and read without it.
ReadSource ==
  /\ pump = "read"
  /\ closes[reading] = 0
  /\ pump' = "call"
  /\ UNCHANGED <<buildVars, asrVars, inputVars, reading, speech, mixVars, closeVars>>

\* The track ends, fails, or has been closed.
SourceEnds ==
  /\ pump = "read"
  /\ pump' = "clear"
  /\ UNCHANGED <<buildVars, asrVars, inputVars, reading, speech, mixVars, closeVars>>

Closed(s) == closes' = [closes EXCEPT ![s] = @ + 1]

\* Mutant: no guard against a concurrent SetAudioSource.
ClearAnySource ==
  /\ pump = "clear"
  /\ pump' = "select"
  /\ audioSrc' = None
  /\ Closed(reading)
  /\ UNCHANGED <<buildVars, asrVars, inputVars, reading, speech, used, replaced, late, closeVars>>

\* The source is cleared, unless it is no longer the active one.
ClearSource ==
  /\ pump = "clear"
  /\ pump' = "select"
  /\ IF audioSrc = reading
     THEN audioSrc' = None /\ Closed(reading)
     ELSE UNCHANGED <<audioSrc, closes>>
  /\ UNCHANGED <<buildVars, asrVars, inputVars, reading, speech, used, replaced, late, closeVars>>

RecvSpeech ==
  /\ pump = "select"
  /\ speech > 0
  /\ speech' = speech - 1
  /\ pump' = "call"
  /\ UNCHANGED <<buildVars, asrVars, inputVars, reading, mixVars, closeVars>>

\* io.EOF ends the pump.
RecvEOF ==
  /\ pump = "select"
  /\ Cancelled
  /\ pump' = "gone"
  /\ UNCHANGED <<buildVars, asrVars, inputVars, reading, speech, mixVars, closeVars>>

\* A source is put in the place of another, or taken out, at any time ...
SetAudioSource(s) ==
  /\ built = "open"
  /\ s \notin used
  /\ audioSrc' = s
  /\ used' = used \cup ({s} \ {None})
  /\ replaced' = replaced \cup ({audioSrc} \ {None})
  /\ late' = IF close \in {"release", "returned"} THEN late \cup ({s} \ {None}) ELSE late
  /\ UNCHANGED <<buildVars, asrVars, inputVars, pumpVars, closes, closeVars>>

\* ... and the one before is closed after the lock is given back.
CloseReplaced(s) ==
  /\ s \in replaced
  /\ replaced' = replaced \ {s}
  /\ Closed(s)
  /\ UNCHANGED <<buildVars, asrVars, inputVars, pumpVars, audioSrc, used, late, closeVars>>

----------------------------------------------------------------------------
(* Close                                                                   *)

\* c.cancel()
Cancel ==
  /\ built = "open"
  /\ close = "no"
  /\ close' = "waiting"
  /\ UNCHANGED <<buildVars, asrVars, inputVars, pumpVars, mixVars, released>>

\* c.wg.Wait()
RunJoined ==
  /\ close = "waiting"
  /\ run = "gone"
  /\ close' = "stages"
  /\ UNCHANGED <<buildVars, asrVars, inputVars, pumpVars, mixVars, released>>

\* asr.Close() has returned; those of the other stages do nothing.
StagesClosed ==
  /\ close = "stages"
  /\ asrClose = "done"
  /\ close' = "source"
  /\ UNCHANGED <<buildVars, asrVars, inputVars, pumpVars, mixVars, released>>

\* The active source is taken under the lock ...
TakeSource ==
  /\ close = "source"
  /\ released' = audioSrc
  /\ audioSrc' = None
  /\ close' = IF audioSrc = None THEN "returned" ELSE "release"
  /\ UNCHANGED <<buildVars, asrVars, inputVars, pumpVars, used, replaced, closes, late>>

\* ... and closed.
ReleaseSource ==
  /\ close = "release"
  /\ Closed(released)
  /\ close' = "returned"
  /\ UNCHANGED <<buildVars, asrVars, inputVars, pumpVars, audioSrc, used, replaced, late, released>>

----------------------------------------------------------------------------
New == DialASR \/ LoadSpeaker \/ LoadFails \/ Abandon
Listener == Emit \/ ListenerFails \/ ListenerEnds
CloseASR == StopASR \/ ShutConn \/ JoinListener
Run == TakeEvent \/ TakeText \/ TakeReply \/ Captioned \/ Hushed \/ RunEnds
Pump == RecvLooks \/ ClearSource \/ RecvSpeech \/ RecvEOF
Close == RunJoined \/ StagesClosed \/ TakeSource \/ ReleaseSource

Next ==
  \/ New \/ Break \/ Hear \/ Listener \/ CloseASR
  \/ Run \/ Speak \/ SendText \/ TextSent
  \/ Pump \/ ReadSource \/ SourceEnds
  \/ \E s \in Sources \cup {None} : SetAudioSource(s)
  \/ \E s \in Sources : CloseReplaced(s)
  \/ Cancel \/ Close

Spec == Init /\ [][Next]_vars

\* Goroutines that can run do.  Go's select takes one of the cases that are
\* ready at random: run() does not pass over a text, nor the end, for ever.  But
\* nothing makes the browser read its transcripts, nor a response hand over its
\* reply, before the context is done; and nothing makes room in pendingCh for a
\* run() that waits for it.  A source that has been closed does not hold up its
\* reader.
FairSpec ==
  /\ Spec
  /\ WF_vars(Abandon)
  /\ WF_vars(Listener)
  /\ WF_vars(CloseASR)
  /\ SF_vars(TakeText)
  /\ WF_vars(Cancelled /\ (Captioned \/ Hushed))
  /\ SF_vars(RunEnds)
  /\ SF_vars(TextSent)
  /\ WF_vars(Pump)
  /\ WF_vars(reading # None /\ closes[reading] > 0 /\ SourceEnds)
  /\ \A s \in Sources : WF_vars(CloseReplaced(s))
  /\ WF_vars(Close)

----------------------------------------------------------------------------
(* Properties                                                              *)

\* The types of the variables.
TypeOK ==
  /\ built \in {"asr", "tts", "abandon", "failed", "open"}
  /\ conn \in {"none", "up", "down", "shut"}
  /\ asrClose \in {"no", "cancelled", "waiting", "done"}
  /\ listener \in {"none", "read", "send", "closed", "gone"}
  /\ events \in 0..EventCap
  /\ run \in {"none", "select", "partial", "caption", "hush", "self", "gone"}
  /\ textIn \in 0..TextCap
  /\ speech \in 0..SpeechCap
  /\ typist \in {"none", "idle", "send"}
  /\ pump \in {"none", "call", "read", "clear", "select", "gone"}
  /\ reading \in Sources \cup {None}
  /\ audioSrc \in Sources \cup {None}
  /\ {used, replaced, late} \subseteq SUBSET Sources
  /\ closes \in [Sources -> Nat]
  /\ close \in {"no", "waiting", "stages", "source", "release", "returned"}
  /\ released \in Sources \cup {None}

\* An audio source is closed once, not while it is the active one, and when
\* Close has returned every source has been, or is about to be by the call that
\* replaced it, unless it was set too late: whichever of Recv at its end,
\* SetAudioSource and Close comes first.
ReleasedOnce ==
  \A s \in Sources :
    /\ closes[s] <= 1
    /\ audioSrc = s => closes[s] = 0
    /\ close = "returned" /\ s \in used => closes[s] = 1 \/ s \in replaced \cup late

\* run() is held up by what it handles.
HeldUp == run \in {"partial", "caption", "hush", "self"}

\* A typed text is taken or refused: SendText, which the data channel's callback
\* waits in, returns, however many texts are queued and however many inputs of
\* other kinds there are, unless run() has ended with the recognizer while the
\* session goes on, or one input holds it up for good: nobody reads the
\* transcripts (emitTranscript), bargeIn waits for a response whose reply has no
\* room, which only run() could make, or run() waits for itself
\* (scheduleSpeculative).
TextTaken ==
  typist = "send" ~> typist = "idle" \/ (run = "gone" /\ ~Cancelled) \/ []HeldUp

\* Close returns and the pump ends, wherever reader, run(), pump and callers
\* wait, unless run() waits for itself, which no context ends, or a source was
\* set too late, which the pump goes on to read; and a cascade that is given up
\* half-built leaves no reader of the recognizer.
ClosesDown ==
  /\ close = "waiting" ~>
       (close = "returned" /\ (pump = "gone" \/ late # {})) \/ run = "self"
  /\ built = "abandon" ~> built = "failed" /\ listener = "gone"
=============================================================================
