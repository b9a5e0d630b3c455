---------------------------- MODULE DoubaoSession ----------------------------
(***************************************************************************)
(* A session of the Doubao adapter: NewWithConfig, the read loop that      *)
(* fans the server's events out, the keep-alive, the four goroutines of    *)
(* the bridge that use the adapter (pump, monitor, forwarder, microphone), *)
(* and Close.                                                              *)
(*                                                                         *)
(* Time is counted in ticks of the keep-alive's ticker, one second apart.  *)
(* since counts those after lastSend was stored, which happened somewhere  *)
(* between two of them: the time since is at most since, and more than     *)
(* since - 1.  Chunks of audio and transcripts are counted: what they hold *)
(* is not told apart, so modelBuf, which readLoop alone looks at, is left  *)
(* out.                                                                    *)
(***************************************************************************)
EXTENDS Naturals

CONSTANTS
  Idle,       \* ticks in the keep-alive's threshold
  AudioCap,   \* capacity of recvCh
  TextCap,    \* capacity of transcriptCh
  MaxResults  \* bound: results of an ASR event

ASSUME DoubaoAssumption ==
  {Idle, AudioCap, TextCap, MaxResults} \subseteq Nat \ {0}

VARIABLES
  phase,     \* NewWithConfig: dial, connect, start, open, failed
  ctx,       \* the adapter's context: live or done
  conn,      \* none, up, down (broken), shut (closed by Close)
  reader,    \* readLoop: none, read, audio, text, ending, gone
  emit,      \* transcripts it still has to send
  recvCh,    \* chunks queued
  texts,     \* transcripts queued
  signal,    \* interruptedCh holds a signal
  shutting,  \* channels readLoop has closed: interruptedCh, transcriptCh, recvCh
  keeper,    \* keepAlive: none, wait, woken, lock, write, gone
  since,     \* ticks since lastSend was stored
  mic,       \* SendAudio: none, idle, lock, write, gone
  pump, monitor, forward,  \* the bridge's readers: none, call, (drain,) gone
  close,     \* Close: no, cancelled, waiting, returned
  quiet,     \* history: ticks since the server was sent audio, while that counts
  stalled    \* history: a send was held up over a tick

dialVars == <<phase, ctx, conn>>
readVars == <<reader, emit, shutting>>
chanVars == <<recvCh, texts, signal>>
sendVars == <<keeper, since, mic, quiet, stalled>>
bridgeVars == <<pump, monitor, forward>>
vars == <<dialVars, readVars, chanVars, sendVars, bridgeVars, close>>

Init ==
  /\ phase = "dial" /\ ctx = "live" /\ conn = "none"
  /\ reader = "none" /\ emit = 0 /\ shutting = 0
  /\ recvCh = 0 /\ texts = 0 /\ signal = FALSE
  /\ keeper = "none" /\ since = 0 /\ mic = "none" /\ quiet = 0 /\ stalled = FALSE
  /\ pump = "none" /\ monitor = "none" /\ forward = "none"
  /\ close = "no"

\* The channels that readLoop closes.
Channels == 3

SignalClosed == shutting >= 1
TextsClosed == shutting >= 2
AudioClosed == shutting = Channels

----------------------------------------------------------------------------
(* NewWithConfig                                                           *)

Dial ==
  /\ phase = "dial"
  /\ \/ phase' = "connect" /\ conn' = "up" /\ UNCHANGED ctx
     \/ phase' = "failed" /\ ctx' = "done" /\ UNCHANGED conn
  /\ UNCHANGED <<readVars, chanVars, sendVars, bridgeVars, close>>

StartConnection ==
  /\ phase = "connect"
  /\ conn = "up"
  /\ phase' = "start"
  /\ UNCHANGED <<ctx, conn, readVars, chanVars, sendVars, bridgeVars, close>>

\* A write of StartConnection or StartSession fails: d.Close(), which waits for
\* no goroutine since none has been started.
StartFails ==
  /\ phase \in {"connect", "start"}
  /\ conn = "down"
  /\ phase' = "failed"
  /\ ctx' = "done"
  /\ conn' = "shut"
  /\ UNCHANGED <<readVars, chanVars, sendVars, bridgeVars, close>>

\* StartSession is written, lastSend stored, the goroutines are started; the
\* bridge gets the adapter and starts its own.
StartSession ==
  /\ phase = "start"
  /\ conn = "up"
  /\ phase' = "open"
  /\ reader' = "read" /\ keeper' = "wait"
  /\ since' = 0 /\ quiet' = 0
  /\ mic' = "idle" /\ pump' = "call" /\ monitor' = "call"
  /\ UNCHANGED <<ctx, conn, emit, shutting, chanVars, stalled, forward, close>>

\* The network or the server drops the connection.
Break ==
  /\ conn = "up"
  /\ conn' = "down"
  /\ UNCHANGED <<phase, ctx, readVars, chanVars, sendVars, bridgeVars, close>>

----------------------------------------------------------------------------
(* readLoop                                                                *)

Receives == reader = "read" /\ conn = "up" /\ ctx = "live"

\* dbEvTTSResponse
ReadTTS ==
  /\ Receives
  /\ reader' = "audio"
  /\ UNCHANGED <<dialVars, emit, shutting, chanVars, sendVars, bridgeVars, close>>

\* dbEvASRInfo, a barge-in: signalInterrupted drains the queue and signals.
ReadASRInfo ==
  /\ Receives
  /\ recvCh' = 0
  /\ signal' = TRUE
  /\ UNCHANGED <<dialVars, readVars, texts, sendVars, bridgeVars, close>>

\* handleASR: one transcript for each result; handleChat and dbEvChatEnded: one
\* with the reply's text so far.
ReadText ==
  /\ Receives
  /\ reader' = "text"
  /\ emit' \in 1..MaxResults
  /\ UNCHANGED <<dialVars, shutting, chanVars, sendVars, bridgeVars, close>>

\* Mutant: the send does not watch the context.
QueueAudioBlindly ==
  /\ reader = "audio"
  /\ recvCh < AudioCap
  /\ recvCh' = recvCh + 1
  /\ reader' = "read"
  /\ UNCHANGED <<dialVars, emit, shutting, texts, signal, sendVars, bridgeVars, close>>

\* d.recvCh <- samples, or return: the context is done.
QueueAudio ==
  /\ reader = "audio"
  /\ \/ recvCh < AudioCap /\ recvCh' = recvCh + 1 /\ reader' = "read"
     \/ ctx = "done" /\ reader' = "ending" /\ UNCHANGED recvCh
  /\ UNCHANGED <<dialVars, emit, shutting, texts, signal, sendVars, bridgeVars, close>>

\* emitTranscript: the send, or the context is done.
EmitTranscript ==
  /\ reader = "text"
  /\ emit' = emit - 1
  /\ reader' = IF emit' = 0 THEN "read" ELSE "text"
  /\ \/ texts < TextCap /\ texts' = texts + 1
     \/ ctx = "done" /\ UNCHANGED texts
  /\ UNCHANGED <<dialVars, shutting, recvCh, signal, sendVars, bridgeVars, close>>

\* A read error, or SessionFinished, SessionFailed, ConnectionFailed.
ReadEnds ==
  /\ reader = "read"
  /\ reader' = "ending"
  /\ UNCHANGED <<dialVars, emit, shutting, chanVars, sendVars, bridgeVars, close>>

\* Mutant: a channel is closed once more.
CloseNextTwice ==
  /\ reader = "ending"
  /\ IF shutting <= Channels
     THEN shutting' = shutting + 1 /\ UNCHANGED reader
     ELSE reader' = "gone" /\ UNCHANGED shutting
  /\ UNCHANGED <<dialVars, emit, chanVars, sendVars, bridgeVars, close>>

\* The deferred closes and wg.Done.  The context stays as it is.
CloseNext ==
  /\ reader = "ending"
  /\ IF shutting < Channels
     THEN shutting' = shutting + 1 /\ UNCHANGED reader
     ELSE reader' = "gone" /\ UNCHANGED shutting
  /\ UNCHANGED <<dialVars, emit, chanVars, sendVars, bridgeVars, close>>

----------------------------------------------------------------------------
(* Audio to the server                                                     *)

\* Conditions of writeFrame: the lock, and whether conn.Write succeeds.
Unlocked == mic # "write" /\ keeper # "write"
Writable == conn = "up" /\ ctx = "live"

\* SendAudio: lastSend is stored before the frame is written.
SendAudio ==
  /\ mic = "idle"
  /\ mic' = "lock"
  /\ since' = 0
  /\ UNCHANGED <<dialVars, readVars, chanVars, keeper, quiet, stalled, bridgeVars, close>>

MicLocks ==
  /\ mic = "lock"
  /\ Unlocked
  /\ mic' = "write"
  /\ UNCHANGED <<dialVars, readVars, chanVars, keeper, since, quiet, stalled, bridgeVars, close>>

\* On an error the bridge stops reading the track.
MicWrites ==
  /\ mic = "write"
  /\ IF Writable THEN mic' = "idle" /\ quiet' = 0 ELSE mic' = "gone" /\ UNCHANGED quiet
  /\ UNCHANGED <<dialVars, readVars, chanVars, keeper, since, stalled, bridgeVars, close>>

\* The track ends.
MicEnds ==
  /\ mic = "idle"
  /\ mic' = "gone"
  /\ UNCHANGED <<dialVars, readVars, chanVars, keeper, since, quiet, stalled, bridgeVars, close>>

\* A send that was begun and is not through.
Sending == mic \in {"lock", "write"} \/ keeper \in {"lock", "write"}

\* The ticker fires.  The keep-alive takes a tick before the next one unless
\* it is held up; counters stop one above what is told apart.
Second ==
  /\ phase = "open"
  /\ keeper # "woken"
  /\ keeper' = IF keeper = "wait" THEN "woken" ELSE keeper
  /\ since' = IF since < Idle + 1 THEN since + 1 ELSE since
  /\ stalled' = (stalled \/ Sending)
  /\ quiet' = IF stalled' \/ ~Writable THEN 0
              ELSE IF quiet < Idle + 2 THEN quiet + 1 ELSE quiet
  /\ UNCHANGED <<dialVars, readVars, chanVars, mic, bridgeVars, close>>

\* Mutant: the keep-alive lets one tick too many pass.
KeepAliveWaitsLonger ==
  /\ keeper = "woken"
  /\ since <= Idle + 1
  /\ keeper' = "wait"
  /\ UNCHANGED <<dialVars, readVars, chanVars, since, mic, quiet, stalled, bridgeVars, close>>

\* keepAlive: not idle for long enough.
KeepAliveWaits ==
  /\ keeper = "woken"
  /\ since <= Idle
  /\ keeper' = "wait"
  /\ UNCHANGED <<dialVars, readVars, chanVars, since, mic, quiet, stalled, bridgeVars, close>>

\* keepAlive: the upstream is idle.
KeepAliveSends ==
  /\ keeper = "woken"
  /\ since >= Idle
  /\ keeper' = "lock"
  /\ UNCHANGED <<dialVars, readVars, chanVars, since, mic, quiet, stalled, bridgeVars, close>>

KeeperLocks ==
  /\ keeper = "lock"
  /\ Unlocked
  /\ keeper' = "write"
  /\ UNCHANGED <<dialVars, readVars, chanVars, since, mic, quiet, stalled, bridgeVars, close>>

\* The silence is written, then lastSend stored; an error ends keepAlive.
KeeperWrites ==
  /\ keeper = "write"
  /\ IF Writable
     THEN keeper' = "wait" /\ quiet' = 0 /\ since' = 0
     ELSE keeper' = "gone" /\ UNCHANGED <<quiet, since>>
  /\ UNCHANGED <<dialVars, readVars, chanVars, mic, stalled, bridgeVars, close>>

\* ctx.Done().  A tick at hand may win the select.
KeeperEnds ==
  /\ keeper \in {"wait", "woken"}
  /\ ctx = "done"
  /\ keeper' = "gone"
  /\ UNCHANGED <<dialVars, readVars, chanVars, since, mic, quiet, stalled, bridgeVars, close>>

----------------------------------------------------------------------------
(* The bridge                                                              *)

\* Recv: a chunk, or io.EOF, which ends the pump.
Recv ==
  /\ pump = "call"
  /\ recvCh > 0
  /\ recvCh' = recvCh - 1
  /\ UNCHANGED <<dialVars, readVars, texts, signal, sendVars, bridgeVars, close>>

RecvEOF ==
  /\ pump = "call"
  /\ ctx = "done" \/ (recvCh = 0 /\ AudioClosed)
  /\ pump' = "gone"
  /\ UNCHANGED <<dialVars, readVars, chanVars, sendVars, monitor, forward, close>>

\* The browser opens a data channel.
OpenChannel ==
  /\ phase = "open"
  /\ forward = "none"
  /\ forward' = "call"
  /\ UNCHANGED <<dialVars, readVars, chanVars, sendVars, pump, monitor, close>>

\* RecvTranscript: one that has text, or io.EOF, which ends the forwarder.
RecvTranscript ==
  /\ forward = "call"
  /\ texts > 0
  /\ texts' = texts - 1
  /\ UNCHANGED <<dialVars, readVars, recvCh, signal, sendVars, bridgeVars, close>>

TranscriptEOF ==
  /\ forward = "call"
  /\ ctx = "done" \/ (texts = 0 /\ TextsClosed)
  /\ forward' = "gone"
  /\ UNCHANGED <<dialVars, readVars, chanVars, sendVars, pump, monitor, close>>

\* The channel does not take the update: the forwarder ends.
ForwardFails ==
  /\ forward = "call"
  /\ texts > 0
  /\ texts' = texts - 1
  /\ forward' = "gone"
  /\ UNCHANGED <<dialVars, readVars, recvCh, signal, sendVars, pump, monitor, close>>

\* RecvInterrupted: a signal, which a closed channel always has; else nothing.
RecvInterrupted ==
  /\ monitor = "call"
  /\ signal \/ SignalClosed
  /\ signal' = FALSE
  /\ monitor' = "drain"
  /\ UNCHANGED <<dialVars, readVars, recvCh, texts, sendVars, pump, forward, close>>

MonitorEnds ==
  /\ monitor = "call"
  /\ ctx = "done"
  /\ monitor' = "gone"
  /\ UNCHANGED <<dialVars, readVars, chanVars, sendVars, pump, forward, close>>

\* HandleInterrupted: drainAudioQueue until the receive would block, which that
\* of a closed channel never does.
DrainAudioQueue ==
  /\ monitor = "drain"
  /\ \/ recvCh > 0 /\ recvCh' = recvCh - 1 /\ UNCHANGED monitor
     \/ recvCh = 0 /\ ~AudioClosed /\ monitor' = "call" /\ UNCHANGED recvCh
  /\ UNCHANGED <<dialVars, readVars, texts, signal, sendVars, pump, forward, close>>

----------------------------------------------------------------------------
(* Close                                                                   *)

Cancel ==
  /\ phase = "open"
  /\ close = "no"
  /\ close' = "cancelled"
  /\ ctx' = "done"
  /\ UNCHANGED <<phase, conn, readVars, chanVars, sendVars, bridgeVars>>

CloseConn ==
  /\ close = "cancelled"
  /\ close' = "waiting"
  /\ conn' = "shut"
  /\ UNCHANGED <<phase, ctx, readVars, chanVars, sendVars, bridgeVars>>

\* wg.Wait()
WaitDone ==
  /\ close = "waiting"
  /\ reader = "gone"
  /\ keeper = "gone"
  /\ close' = "returned"
  /\ UNCHANGED <<dialVars, readVars, chanVars, sendVars, bridgeVars>>

----------------------------------------------------------------------------
New == Dial \/ StartConnection \/ StartFails \/ StartSession
ReadEvent == ReadTTS \/ ReadASRInfo \/ ReadText
ReadLoop == QueueAudio \/ EmitTranscript \/ CloseNext
Keeper == KeepAliveWaits \/ KeepAliveSends \/ KeeperLocks \/ KeeperWrites \/ KeeperEnds
Mic == MicLocks \/ MicWrites
Bridge == OpenChannel \/ Recv \/ RecvTranscript \/ ForwardFails \/ SendAudio \/ MicEnds
Closing == CloseConn \/ WaitDone
Monitor == RecvInterrupted \/ MonitorEnds \/ DrainAudioQueue

Next ==
  \/ New \/ Break
  \/ ReadEvent \/ ReadEnds \/ ReadLoop
  \/ Keeper \/ Mic \/ Second
  \/ Bridge \/ RecvEOF \/ TranscriptEOF \/ Monitor
  \/ Cancel \/ Closing

Spec == Init /\ [][Next]_vars

\* Goroutines that can run do, and a read whose context is done fails.  The
\* server, the browser and the user need do nothing, and a track may be open
\* for good.
FairSpec ==
  /\ Spec
  /\ WF_vars(ReadLoop)
  /\ WF_vars(ctx = "done" /\ ReadEnds)
  /\ WF_vars(Keeper)
  /\ WF_vars(Mic)
  /\ WF_vars(RecvEOF)
  /\ WF_vars(TranscriptEOF)
  /\ WF_vars(Monitor)
  /\ WF_vars(Closing)

----------------------------------------------------------------------------
(* Properties                                                              *)

\* The types of the variables.
TypeOK ==
  /\ phase \in {"dial", "connect", "start", "open", "failed"}
  /\ ctx \in {"live", "done"}
  /\ conn \in {"none", "up", "down", "shut"}
  /\ reader \in {"none", "read", "audio", "text", "ending", "gone"}
  /\ emit \in 0..MaxResults
  /\ recvCh \in 0..AudioCap
  /\ texts \in 0..TextCap
  /\ signal \in BOOLEAN
  /\ shutting \in 0..Channels
  /\ keeper \in {"none", "wait", "woken", "lock", "write", "gone"}
  /\ since \in 0..(Idle + 1)
  /\ mic \in {"none", "idle", "lock", "write", "gone"}
  /\ pump \in {"none", "call", "gone"}
  /\ monitor \in {"none", "call", "drain", "gone"}
  /\ forward \in {"none", "call", "gone"}
  /\ close \in {"no", "cancelled", "waiting", "returned"}
  /\ quiet \in 0..(Idle + 2)
  /\ stalled \in BOOLEAN

\* The server, which ends a session that it hears nothing of, is sent audio at
\* the latest a tick after the idle time: whichever of the microphone and the
\* keep-alive sends, stores lastSend or waits for the lock when, as long as the
\* connection stands, the session is not closed and no send takes over a tick.
KeptAlive ==
  phase = "open" /\ conn = "up" /\ ctx = "live" /\ ~stalled => quiet <= Idle + 1

\* drainAudioQueue receives from the closed recvCh for ever.
Spinning == monitor = "drain" /\ AudioClosed

\* Close returns and the goroutines of adapter and bridge are gone, wherever
\* each waits and however full the channels are, whether the server has ended
\* the session before or is silent; except a monitor that spins.
SessionEnds ==
  close = "cancelled" ~>
    /\ close = "returned"
    /\ pump = "gone" /\ forward \in {"none", "gone"}
    /\ monitor = "gone" \/ Spinning
=============================================================================
