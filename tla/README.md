# A verification model of rt_llm_proxy

TLA+ models of the real-time voice proxy in this repository, the TLC runs that
check them and the theorems TLAPS proves about them. Paths below are relative to
the root of the repository.

## The system

A browser sends an SDP offer over HTTP. The proxy admits it, dials a model
provider, negotiates a WebRTC connection and then carries audio, transcripts and
tool calls between the two until one side leaves. A client that lost its
connection sends a new offer with its session id and the last seq it received,
and resumes.

    browser --offer--> offer.Intake --AllowDial/RecordDial--> modelcb.Manager
                          |  ResolveReplay --> rtc.Hub (Resume, SessionState) --> archives
                          |                --> replay index (another process)
                          |  Models.New    --> adapter: gemini, doubao, cascade, loopback
                          v  Hub.Serve
    browser <==media==> rtc bridge goroutines <==channels==> adapter <==socket==> provider
                          |  Record
                          v
                       transcript.Recorder --> sidechannel (Kafka) --> cmd/replay

### Inventory

| component | state | operations | hard behaviour |
|---|---|---|---|
| Provider guard, `internal/modelcb` | per provider: closed/open/half-open, `openUntil`, two failure streaks, successes, probe slot | `AllowDial`, `RecordDial`, `RecordStreamFault` | many offers between admission and outcome; outcomes that are late, stale or missing |
| Offer path, `internal/offer` | none of its own | `ServeOffer`, `ResolveReplay`, `ParseReplayHeaders` | a chain of look-ups under different locks; error returns half way |
| Session hub, `internal/rtc/bridge.go`, `scope.go`, `archive.go` | registry by id, archives with a TTL, one scope per session, a wait group | `Serve`, `Resume`, `SessionState`, `remove`, `CloseAll`, `commit`, `Close` | take-over of a live session, two reconnects of one id, tear-down against resume, shutdown |
| Recorder, `internal/transcript` | seq, bounded history | `Record`, `FullHistory`, `MaxSeq` | reads that are not atomic together; the listener is called outside the lock |
| Media bridge, `internal/rtc/bridge.go` | goroutines per session | outbound pump, interruption monitor, forwarders, inbound | channels that fill, close or are never read; contexts |
| Gemini and Doubao adapters, `internal/model/gemini`, `doubao` | bounded queues, `readLoop` | `Recv*`, `Send*`, `HandleInterrupted`, `Close` | one loop feeds all queues; closing order; draining |
| Cascade, `internal/model/cascade` | history, speculation, turn-end wait, response handle, queues | `run`, `handleASR`, `respond`, `bargeIn`, `Close` | speculation, barge-in, stale timer signals, back-pressure |
| Stages (ASR, LLM, TTS, turn detector), `internal/model/cascade/asr`, `llm`, `tts` | a goroutine and a bounded channel per stream | `Generate`, `Synthesize`, `Close`, ... | a stream nobody reads any more; services that hang or fail |
| Side channel and replay index, `internal/sidechannel`, `internal/replayindex`, `cmd/replay` | queue, index by session | `Publish`, `Close`, `Ingest`, `Query`, evictions | loss, order, a publisher that closes under publishers |
| Adaptive controllers, `internal/adaptive` | level, dwell | `Step`, `Close` | hysteresis |
| Rate limit, auth, identity, metrics, audio, config, load generator, demo, sidecars | see `PROJECT.json` | | |

What makes each part correct, in one line: the guard lets one probe through at a
time, keeps its window and always recovers; the hub finds every live session,
gives each seq once and never hands lines to someone else; the replay index
answers with what was said, in order and to its owner only, and what it lacks
has a cause; the cascade never loses what was said, answers it in order and
whole, and is silent after a barge-in; a session that is closed ends with all
its goroutines, whatever adapter it has; the shutdown finds every session and
ends. The hazards behind these, each with its line, are listed under
`hazards` in `PROJECT.json`.

## Modules

| module | models | runs |
|---|---|---|
| `ProviderGuard` | one breaker, the offers that use it, the early life of their sessions | `ProviderGuard` |
| `Breaker` | abstract: what the offer path counts on of a circuit breaker | as a property of `ProviderGuard` |
| `SessionHub` | offers from the replay headers on, hub, archives, scope, recorder, shutdown | `SessionHub`, `SessionHub_Shutdown` |
| `Conversation` | abstract: what a client counts on of its session id | as a property of `SessionHub` |
| `TranscriptLog` | abstract: what a resume may be given from the index | as a property of `ReplayPipeline` |
| `ReplayPipeline` | recorder, tap, Kafka publisher, broker, consumer, index, query, resume on another node | `ReplayPipeline`, `ReplayPipeline_Close` |
| `Cascade` | `run()`, responses, turn-end waits, barge-in, `Close` | `Cascade`, `Cascade_Live` |
| `ResponseLife` | abstract: what the orchestrator relies on in a response | as a property of `Response` |
| `Response` | `respond()`, its TTS worker, the stages' goroutines, one barge-in or close | `Response` |
| `CascadeShell` | how a cascade is put together, the recognizer, the calls of the bridge, audio sources, the outer `Close` | `CascadeShell` |
| `MediaSession` | Gemini's `readLoop` and queues, the bridge's goroutines, `sessionScope.Close` | `MediaSession`, `MediaSession_GoroutinesExit` |
| `DoubaoSession` | Doubao's dial, `readLoop`, queues, `keepAlive`, senders, `Close` | `DoubaoSession` |
| `ProviderGuardProofs`, `SessionHubProofs`, `ReplayPipelineProofs`, `CascadeProofs`, `ResponseProofs`, `CascadeShellProofs`, `MediaSessionProofs`, `DoubaoProofs` | theorems about the module each is named after | |

How they fit together: `SessionHub` is shown to implement `Conversation`, and
`ProviderGuard` to implement `Breaker`. The hub uses the index by the promise of
`TranscriptLog`: `ReplayPipeline` is shown to keep it, and the hub to count on
nothing else (`HubCountsOnIndex`). `Cascade` uses a response by the promise of
`ResponseLife`: `Response` is shown to keep it, and each response of the cascade
to live by it (`CascadeRunsResponses`).
`ProviderGuard` sees of a session what `MediaSession` and `DoubaoSession` show
of it: first audio, a fault, a hang-up.

The configurations give the constants their values; `PROJECT.json` maps each
definition to the lines it stands for. Definitions whose comment begins with
"Mutant:" are no part of a specification: each is a variant of the definition
after it, as a bug would have it, and shows that a property would notice.

Common conventions. What the code does under one mutex, or between two places
where a goroutine may block, is one step. A call that reads under one lock and
writes under another is as many steps. Variables marked "history" in their
declaration are not in the code: they remember what a property needs to speak
about and no guard reads them. Bounds are constants marked "bound".

### ProviderGuard

Each offer slot goes round `idle -> gate -> admitted -> silent -> heard -> idle`.
`ReadClock` is ServeOffer's `time.Now()`; `Gate` is `allow`; `RefuseReconnect` the
400 between admission and dial; `DialSucceeds` and `DialFails` the dial with its
`RecordDial`; `FirstAudio`, `StreamFails`, `HangUp` and `EndHeard` what the
outbound pump sees of the session. The breaker's operations are operators with
the names of the code's branches. Times are relative to the present
(`reopenIn = openUntil - now`, `clockAge` = age of the reading an offer carries),
so that no horizon is needed: a `Tick` lowers `reopenIn` and ages the readings.

The dial errors are told apart as authentication failures and others; `transient`
and `other` behave alike. The modelled reason `none` is the empty string.

A dial that was admitted before the circuit opened may succeed in a later
half-open round, and `recordSuccess` frees the slot of the probe that is out. `SingleProbeUnlessLate`
and `ClosesByProbesUnlessLate` say exactly how far the promise holds: in rounds
that have recorded no outcome of a dial they did not admit (`late`).

`Breaker` is the promise as a whole: who may dial in each state, what counts
towards closing, that only a failure opens the circuit and that nothing but time
shortens its window. Its `hold` is `reopenIn`, `dialing` the offers that were
admitted and have not reported, and a round that is `late` is `astray`: it may
admit a probe beside another and close early, and a new round begins afresh.
That a circuit closes by its own probes only (`ClosesByProbesUnlessLate`) is
part of it, so the run checks `ActsAsBreaker` in its place. The same
way `ProbeSlotHasHolder` and `RecoversWhenUp` except reconnects that are refused
between admission and dial, because nothing gives their slot back.

### SessionHub

Offers are numbered; an offer, its session and the fresh id minted for it share
the number. `pc` follows ServeOffer through ResolveReplay, the dial and Serve;
`closing` follows `sessionScope.Close` through `Hub.remove` (history, seq, delete,
put). `Resume` on a live session is five steps (find, history, seq, take-over,
hit), because the code takes three different locks and waits for the old
session's Close. `log[s]` is the history of all lines recorded under id `s`, with
the session that recorded them; a recorder retains `HistLimit` of them.

Three histories delimit what the code can promise:

* `contested`: ids that two offers resumed at once. `add` and `remove` go by id
  only, so that one session hides the other.
* `tainted`: ids of which a line was recorded after the recorder was read for a
  hand-over, or that were resumed from an index that did not have all lines.
* `lapsed`: ids whose archive expired.

`RegisteredUnlessContested`, `HandoverComplete`, `FoundUntilExpiry` and
`OneConversation` hold outside these. `HistoryOwned` holds always: whoever
resumes gets only lines of the same user and provider, and no anonymous ones.

`Conversation` is the promise about an id, over all sessions that ever have it:
one session at a time takes it, each begins with the newest lines of all that
was said, and the lines are numbered on without a gap or a repetition. The
mapping: `Holder(s)` is the session of `s` that is about to start or is not
closed; `Kept(s)` the newest lines of its recorder, or of the history it is about
to start with; `Said(s)` the log. An id that is contested or tainted is `lost`,
and shows nothing any more: `GiveUp` has no guard, because it stands for the
exceptions and not for anything the hub does on purpose. That no seq is given
twice (`SeqsOnce`) follows from `OneConversation`, which the run checks in its
place.

The replay index answers with any set of the owner's later lines with distinct
seqs, in order: it is fed by a lossy channel, bounded, and queried with a limit.

Shutdown: `Signal` stops the listener, `Drained` is the return of `srv.Shutdown`
(at its five seconds, if `GivesUp`), `CloseNext` and `WaitDone` are CloseAll, and
`MainReturns` is the end of `runProxy`, which the signal makes possible at once.
A call of a nil cleanup ends the process (`crashed`). `Record` goes on while the
handler of the session's data channel may be called: it is pion's goroutine, not
one of the wait group, so that neither `Close` nor `CloseAll` puts an end to it.
`Stuck` is the set of sessions whose model may never come to rest (a monitor that
spins, as `MediaSession_GoroutinesExit` shows, or a `run()` that waits for itself, as
`Cascade` says): nothing is assumed of their `Close` or of their goroutines, and
`CloseAllEnds` excepts them (`Hangs`).

### ReplayPipeline

A line goes `waiting` (recorded, the listener not called yet), `sending` (inside
`Publish`, under the read lock), `queue`, `held` (by the drain goroutine),
`buffered` (in the client library), `broker`, `index`. `Record` and its `Publish`
are two steps, because `Recorder.Record` calls its listener after it has unlocked:
two goroutines of a session may publish in the other order. `shut` is the
progress of `Kafka.Close`: the write lock waits for the senders, `close(k.ch)`,
the drain, `cl.Close`, which drops what is still buffered.

`Take` is `Store.Ingest` as a whole: eviction of what has expired, the insertion
of a new session, the eviction of the oldest (which on a tie may be the one just
inserted; its event is then lost), the renewal, the duplicate test, the trimming.
The index holds sets of events; the sorting is in what a query returns
(`Sorted`). An owner stands for a user with a provider, since the index compares
both.

`Query` and `Resume` are a reconnect on any node; the session on the old node may
go on, so that two recorders give out the same seq. The index then keeps the
line that arrives first, and the other one counts as lost.

Broker and client library are external: a record is taken, refused, or taken and
sent again; a consumer may skip what it fetched beside an error, and may start
anew with an empty index at an offset it committed before.

`TranscriptLog` is the promise: an answer holds lines of the session asked for,
of its owner, later than the seq asked from, in the order of their seqs, one for
each, and nothing for an anonymous caller; anything may be missing.
`ReplaysTranscript` is the refinement (`said` and `answer` map to themselves).
`GapsExplained` and `NoSilentLoss` say what may be missing: a line is on its way,
or was dropped, refused, skipped or forgotten. A client counts on from the last
line it was given, so that a line left out before that one is never replayed.

### Cascade

`at` is where `run()` is: its `select`, or one of the places where it can block.
A text stands for a class of texts that `jaccard` finds alike. A committed
partial is a `tentative` turn in the model; the code has only
`speculativeActive`. `resp[r]` follows `respond()`: spawned, registered
(`setGenCancel`), handing over, done. A cancelled turn-end wait that has not
exited is `loose`, and may signal once more: both cases of its `select` may be
ready.

`overtaken` says that something was appended after an active speculation: from
then on `removeSpeculative` and the confirmation hit the wrong turn, and
`SpeculationIsLast` and `DialogueKept` say nothing. `missed` says that a barge-in
found a response running that it does not know: `SilentAfterBargeIn` is about
the others. `WaitsForItself` is the send of `scheduleSpeculative` on a channel
that a loose wait has filled: the only place where `Close` may wait for ever.

### Response

What `Cascade` has as one step per chunk is here four goroutines: the segmenter
(`respond` itself), the worker (`synthesize`), and the goroutines of the LLM and
TTS stages, with the channels `deltas`, `segments`, `pcm` and `recvCh` between
them. Tokens are numbers, a segment the tokens in it, a chunk the segment it
speaks and its number. The hook may drop a token; any token may end a sentence.
The send of a segment watches no context, which is why `Abort` leads to a worker
that drains.

`ResponseLife` is the response as `Cascade` relies on it: it registers, speaks
into `recvCh`, which the bridge reads and `bargeIn` empties, stops, hands over;
it is silent from then on and stops once it is
cancelled. `Phase` maps the states of `respond` to it.

### CascadeShell

The cascade from outside: `ProdModelFactory.New` with its abandoned half-built
cascade, the recognizer's connection and reader (`asr.Whisper`), `SendText`, `Recv`
with its audio sources, and `Close`. (`SendAudio` changes nothing here; when it
fails, `readInbound` ends, which is in `MediaSession`.) `run` is at its `select` or
where the handling of an input holds it up: `partial` and `caption` are
`emitTranscript`, `hush` is the wait of `bargeIn`, and `self` the send on its own
`pendingCh`. `TextTaken` excepts a `run()` that one of these holds up for good, and
`ClosesDown` the last of them, which no context ends. `Recv` looks a source up
under the lock and reads it outside; `SetAudioSource` closes the old one after
the unlock; `Close` takes the active one: `ReleasedOnce` is about these three.
A source set after `Close` has taken the active one (`late`) is nobody's to
close, and the pump goes on reading it: `ReleasedOnce` and `ClosesDown` except
it.

### MediaSession

`reader` is where `readLoop` is in a message (transcripts, tool calls,
interruption, audio), or its way out, on which the defers close the channels one
by one. `pump`, `monitor`, `forward`, `toolForward` and `inbound` are the bridge's
goroutines; `scope` is the progress of `sessionScope.Close`. A chunk of audio has
the number of interruptions read before it, makes up to `MaxFrames` frames, which
the pump writes with a tick after each, and is `cut` (a history) if it came while
the monitor had yet to take up or to finish with an interruption.

`LostToInterruption` says of each chunk that the monitor drops that it is cut: the
audio lost to the slow poll (the hazard of `bridge.go:442`) ends with the drain, and
what comes after it is heard. It excepts a provider that has ended the session: a
closed `interruptedCh` reads as an interruption. `SessionEnds` excepts a monitor
that spins on the closed `recvCh`. A forwarder is `failed` after an error of
`SendText` on an open channel: it has returned, and nobody makes room in its queue
any more, so that `readLoop` and the audio behind it may wait for good.
`MediaNotGated` excepts it.

### DoubaoSession

`reader` is `readLoop`; `shutting` counts the channels its defers have closed, in
their order; `keeper`, `mic`, `pump`, `monitor`, `forward` are the goroutines that
use the adapter. Time is the keep-alive's ticker: `since` is the number of ticks
since `lastSend` was stored, `quiet` the number since the server was really sent
something. The two differ because `SendAudio` stores `lastSend` before it takes
the write lock. `KeptAlive` is about the second.

As in Gemini's adapter, the drain loop receives from a closed `recvCh` without
end; `SessionEnds` excepts a monitor that spins there.

## What the runs show

| run | distinct states | shows |
|---|---|---|
| `ProviderGuard` | 225,248 | types; one probe; the slot has a holder; only the clock runs the window down, and it is opened for its hold; a breaker as its clients count on it; recovery |
| `SessionHub` | 1,509,194 | types; registration; an id is one conversation; complete hand-over; nothing lost before expiry |
| `SessionHub_Shutdown` | 147,278 | whoever resumes gets lines of his own; CloseAll finds every session; CloseAll ends unless one hangs |
| `ReplayPipeline` | 1,018,268 | answers are an ordered part of what its owner said; gaps have a cause |
| `ReplayPipeline_Close` | 699,280 | no line is lost silently; Close returns |
| `Cascade` | 1,772,825 | types; the speculation is last; dialogue kept; silence after a barge-in |
| `Cascade_Live` | 36,107 | a final is answered; Close returns |
| `Response` | 216,319 | types; chunks in order; the reply whole; a response as the orchestrator relies on it; the stages end |
| `CascadeShell` | 194,278 | a source is closed once; typed turns are taken unless one input holds `run()` up for good; Close returns and leaves nothing, unless `run()` waits for itself |
| `MediaSession` | 460,586 | types; silence after an interruption; what is dropped came before the drain was over; a closed session ends; media is not held up |
| `DoubaoSession` | 734,263 | types; never silent for too long; a closed session ends |

`MediaSession_GoroutinesExit` finds a disagreement with the comments and quotes
it under `findings`: the provider ends the session, `readLoop` closes its
channels, and the interruption monitor receives from the closed `recvCh` for
ever, so that `CloseAll` does not end.

### Departures

Where the code departs from what its documents or comments say. Most are the
named exception of a property, so that the property says how far the promise
does hold; the last is none, but a cause of loss in a ledger.

* A single probe. `docs/ARCHITECTURE.md:550`: "half-open allows a single probe
  request at a time per provider". A late dial frees the slot of a probe
  (`breaker.go:217`). Exception `late` of `SingleProbeUnlessLate` and
  `ClosesByProbesUnlessLate`, `astray` in `Breaker`.
* Monotonic seqs. `transcript.go:11`: "Seq is monotonic per session". A line
  recorded between the reads of `FullHistory` and `MaxSeq` and the end of the old
  session is lost to the resumed one, which gives its seq out again
  (`bridge.go:179`). Exception `tainted` of `OneConversation`, `SeqsOnce` and
  `HandoverComplete`.
* Draining before exit. `cmd/proxy/root.go:121`: "Tear down live sessions and wait
  for their goroutines to exit before closing the publisher". `ListenAndServe`
  returns as soon as `srv.Shutdown` is called and main ends
  (`MainReturns`), so that the process may end with live sessions. Exception
  `process # "up"` of `CloseAllEnds`.
* No line after the publisher is closed. `cmd/proxy/root.go:122`: "otherwise a late
  transcript Publish could race the publisher shutdown". A typed line is recorded
  by the callback of the data channel (`bridge.go:371`), which no wait group counts:
  it may come while `CloseAll` waits and after it. (`Publish` then drops it, as
  `ReplayPipeline_Close` shows.) `CloseAllFindsAll` is about the sessions and says
  nothing of lines.
* Waiting for the goroutines. `bridge.go:114`: "waits for their goroutines to exit".
  One may spin, another wait for itself. `CloseAllEnds` excepts sessions that hang.
* A confirmed speculation is running. `turn.go:98`: "Final confirms speculation
  — patch text, LLM already running." A final that arrives before `run()` has read
  the signal takes the start back and schedules nothing (`turn.go:94`), and the
  turn is never answered. `FinalAnswered` is about the other finals.
* The end of the model ends the session. `docs/ARCHITECTURE.md:516`: "connection
  state changes, model EOF, and hub shutdown all funnel through it safely". The
  pump just returns on `io.EOF` (`bridge.go:519`). `SessionEnds` begins with a
  close that someone else calls.
* `Kafka.Close` "flushes the producer" (`kafka.go:105`). `cl.Close` drops what the
  client has buffered. In the model as `EndClose`, which adds it to `lost`:
  `NoSilentLoss` counts it as a known cause and does not except it.

### Bounds

* `ProviderGuard`: three offers at once are needed for a late dial beside a probe
  and one more that is admitted wrongly; two failures to open and two successes
  to close make both streaks visible; windows of one and two ticks tell the two
  holds apart; a reading may be one tick old. One refusal and one hang-up are
  enough to leak a slot and to count a client as a fault.
* `SessionHub`: three offers are a session, its reconnect, and a second reconnect
  of the same id or of the reconnected session. One offer may be fresh; two lines
  and a history of one line make trimming, loss and reuse of a seq visible; there
  is one user, since the comparison of owners only ever sends an offer away.
  `HistoryOwned` is about several: the shutdown run has three, one of them
  anonymous, with two offers and the index, and the second session may hang;
  `HubHistoryOwned` is about any number.
* `ReplayPipeline`: two nodes, two sessions and two owners, so that a session
  moves and another evicts it; three lines make an order, a gap and a duplicate
  seq; an answer of two lines leaves one out; an index of one session evicts with
  ties; one tick expires. Nodes, sessions and owners are symmetric. The run has
  no faults of the broker and the index service; the other one has one, one node
  and an index of one line.
* `Response`: three tokens and three chunks pass channels of one place each, so
  that every goroutine blocks on every other.
* `DoubaoSession`: an idle time of two ticks tells "at" from "after"; channels of
  one place.
* `CascadeShell`: two sources are replaced and replacing; channels of one place.
* `Cascade`: three inputs are a partial, a final and a barge-in, or two responses
  and a barge-in; channels of one place fill at once. The liveness run has two
  inputs.
* `MediaSession`: three items are audio, an interruption and audio; two places
  for audio, one for the others; two frames of a chunk are a tick between them.

Deadlock is checked in the `ProviderGuard` run. A session, a cascade and a
process really stop, and the pipeline has nothing to do once its lines are
used up, so the other configurations switch it off; that they do not
stop too early is what their liveness properties say.

### Fairness

* `ProviderGuard`: the gate answers, a dial and a session end, clients keep
  coming, and time passes. The gate is a mutex and a switch. That a dial ends is
  an assumption about the network and the provider, which accepts, refuses or
  lets the transport give up: the code sets no deadline on a dial (the hazard of
  `intake.go:96`). Recovery needs an offer to come after the window, as in the code.
  Nothing is assumed of the provider's condition, of refusals or of hang-ups.
* `SessionHub`: handlers and goroutines that can take a step do, as long as the
  process is up, but those of the sessions in `Stuck`, whose model need not close
  and whose goroutines need not exit. Clients need not come, speak or leave.
* `Cascade`: one weak fairness condition over all steps of goroutines that can
  run; only finitely many of them lie between two inputs. A response ends once
  it is cancelled (the stages watch their context); one that is not need not end,
  no audio need be read and nobody need speak. The bridge reads transcripts.
* `ReplayPipeline`: goroutines inside `Publish`, the drain goroutine and `Close` go
  on, and the broker takes or refuses what is sent. Nobody need call `Publish`:
  `Close` must not wait for that.
* `Response`: each goroutine that can run does; a request or a body whose context
  is done fails, as `net/http` promises. A provider may hang until then, and the
  bridge need not read. `ResponseLife` has the same for the whole response, so
  that liveness is refined as well.
* `DoubaoSession`: each goroutine that can run does, and a read whose context is
  done fails. Server, browser and microphone need do nothing.
* `CascadeShell`: each goroutine that can run does. `run()` that comes back to its
  select again and again takes a queued text, and the end, and a waiting `SendText`
  finds its room, by strong fairness: Go's select picks among the ready cases at
  random, and the senders of a channel are queued. What holds `run()` up need not
  end before the context does: nothing makes the browser read its transcripts or a
  response end. The wait for itself need not end at all. A source that was closed
  lets its reader go.
* `MediaSession`: each goroutine that can run does; a read ends once the adapter
  is closed, a microphone once its connection is. The browser and the provider
  need do nothing.

Weak fairness is what Go's scheduler gives a runnable goroutine. Where a select
has several ready cases the models choose freely, and but for the strong fairness
of `CascadeShell` nothing is assumed of the choice.

## What is proved

The theorems hold for all values of the constants that satisfy the named
assumptions (`GuardAssumption`, `HubAssumption`, `PipelineAssumption`,
`CascadeAssumption`, `ResponseAssumption`, `ShellAssumption`, `MediaAssumption`,
`DoubaoAssumption`: positive capacities and thresholds, as `normalize` and the
constructors guarantee, and model values that are told apart; `NoneAssumption`:
an empty place of the registry or the archive is told from what can be there).

* `ProviderGuardProofs`. `GuardInv` is `TypeOK` together with: the slot is
  occupied, and probes are out, in the half-open state only; a probe that is out
  is still to record its outcome; in a round without late outcomes at most one is
  out, and none while the slot is free; an occupied slot has a probe that holds
  it, unless a reconnect was refused. The strengthening is needed because
  `SingleProbeUnlessLate` alone does not say why `AllowProbe` finds no probe out:
  the slot and the set of probes must be tied together. From it
  `GuardTypeCorrect`, `AtMostOneProbe` and `ProbeSlotHeld`; `OpenWindowRunsOut` is
  proved from the same invariant, action by action: no outcome touches the timer
  of an open circuit, and one that opens it sets the timer from a reading at most
  `MaxClockAge` old. `CountsProbes` relates two
  counts that the code never compares: until a late outcome is counted, the
  breaker's `success` is the number of the round's own probes that succeeded.
  With it `CircuitClosesByProbes`. `GuardActsAsBreaker` is the step simulation of
  `Breaker`. It needs the same invariant: the free slot that lets a probe in must
  mean that none is out, and the count that closes the circuit must be that of
  the round's probes.
* `CascadeProofs`. `CascadeInv` is `TypeOK`, `SpeculationIsLast`, that the history
  is not empty while a speculation is active, and that a caption in hand is a
  text. The second and third are what lets `removeSpeculative`, which knows only
  that something is speculative, be shown to remove nothing that was said:
  `SpeculationStaysLast` and `DialogueStaysKept`. The lemma
  `WithoutSpeculativeType` says what it returns. `Hushing` is about a barge-in that
  missed no response: while it waits, only the response it waits for is alive;
  the ones it silenced are done for good, and no chunk of theirs is queued. The
  first part is what makes waiting for one response enough.
  `BargeInSilences` follows.

  The bound on responses is the model's, and so it must not be what stops a
  turn. `CascadeAffordsTurns`: each response that was started, and each claim to
  one (a queued signal, a wait that may still send one, the input in hand), has an
  input of its own, however often waits were cancelled too late. So a turn that is
  to be answered always finds a response to start (`EveryTurnCanStart`). `CascadeCloseNeverStuck` is the safety half of
  `CloseReturns`: after `Close` has cancelled, the guard of one of the steps of
  `run()`, of a response or of a wait holds until all are gone, however full the
  channels, but for `WaitsForItself`. `CascadeRunsResponses` maps one response,
  any, to `ResponseLife`: its queue there is the part of `recvCh` that is its own
  (`Backlog`).
* `MediaSessionProofs`. `MediaInv` is `TypeOK`, `InterruptedIsSilent`, that turns are
  counted by items, and `DrainHasCause`: a queued signal is an interruption that the
  monitor has not taken up, and while there is one, or it drains, all that is
  queued is cut, because `readLoop` has emptied the queue at the interruption. From
  it `InterruptedStaysSilent` and `LossHasCause`. `ClosedSessionRunsOut`
  is the safety half of `SessionEnds`: `StepsLeft` bounds what the goroutines of a
  closed session can still do: reader, queues, pump, forwarders, inbound, a channel or
  a track that may still open, and `Close` itself. A queued chunk weighs its frames,
  and an item what it may become. Each of their steps lowers it and nothing raises it; the
  monitor, which may spin on a closed channel, is the exception.
* `SessionHubProofs`. `HistoryOwned` speaks of the history an offer resumes with,
  but the look-ups that check the owner and those that read the lines are
  different steps, and the lines come from a recorder, an archive or the index.
  So `Ownership` says of every place they pass (recorder, tear-down snapshot,
  archive, log, resumed history) that it holds lines of its owner's user and
  provider, of an offer that is looking up that it is not anonymous, and of one
  that has found a live session that it is its own user's. That arrived offers
  never change what they asked for (`Settled`) carries this over the steps of
  others. From it `HubTypes` and `HubHistoryOwned`.

  How the sessions of an id follow one another takes a second invariant,
  `HubInv`. None of its properties is inductive alone: whether a hand-over is
  complete depends on who else has the id, and who is registered on what a
  take-over has found. Its first half is about whose turn it is: an id is held by
  one offer at a time, one that is about to start or a session that is not
  closed (`Serial`); an offer that has found a live session is alone with it
  (`HeldAlone`); who is registered has the id, and who is not removed yet is
  registered (`Named`, `Enrolled`); only ids that a client was given are asked
  for (`Minted`). Its second half follows the lines. `Caught` says of some lines
  and a seq that they have all that was said, up to the history limit, and it
  holds of whatever the next session may start from at that moment: what an
  offer starts with (`StartsCaught`), a recorder until it is closed
  (`RecorderCaught`), one that is being taken over, and what was read of it
  (`HeldCaught`), what is read to be archived (`SnapCaught`), and the archive when
  no session of the id is left (`ArchiveCaught`). All of it is said of ids that
  are not contested, and the second half of ids that are not tainted either. One
  lemma per action shows each step to keep both halves. From it `HubRegistered`,
  `HubSeqsOnce`, `HubHandsOver` and `HubFound`, and `HubConverses`: every step of
  the hub is one of `Conversation` or leaves the id as it is. Finding a session
  to resume is no step there, an offer that goes on to its dial takes the id,
  the last step of a session's close leaves it.

  `HubFindsAll` is `CloseAllFindsAll` from `RegisteredUnlessContested`: the snapshot
  of `CloseAll` is the registry, and a session that is not being closed is in it.
  Once `srv.Shutdown` returned in time no handler is under way, and none comes, to
  start another session or to take one over.

  `HubCountsOnIndex` joins the hub to the index. What `IndexHit` lets an offer
  resume with is exactly what `TranscriptLog` lets the index answer to the owner
  of the offer, about the lines recorded under its id: not more, so that the hub
  relies on nothing the pipeline does not keep, and not less, so that the hub's
  properties hold for every answer the pipeline may give. It needs of the
  hub that nobody who is looking up is anonymous (`Ownership`), since the index
  answers an anonymous caller with nothing.
* `ReplayPipelineProofs`. `IInv` is `TypeOK` with: lines in `said` have their
  session's owner (`Owned`); what is on its way was said (`Carried`); an index
  entry holds lines of its session and of its owner, one for each seq (`Entry`,
  `IndexRight`); the last answer is faithful (`AnswerRight`). From it
  `PipelineReplaysTranscript`, the step simulation of `TranscriptLog`. The owner
  must be carried along the whole way, because the index believes the owner that
  an event names. `PipelineNoSilentLoss` needs that the drain goroutine holds at
  most one line (`OneInHand`), that the consumer has not read more than there is
  (`ReadBefore`), and `Somewhere`: where each line is. `PipelineGapsExplained`
  combines the two: what an answer leaves out in between is not in the index.
  `PipelineNoSendOnClosed` is the comment of `Kafka.Close`: no `Publish` is
  mid-send on the channel when it is closed.
* `ResponseProofs`. `WorkerWithin` ties the worker to the states of `respond`: it is
  there from the answer of the LLM on, and gone before the reply is handed over.
  That is why nothing is queued on `recvCh` after the end, and with the types it
  gives `ResponseImplementsLife`, the step simulation (without fairness).
  `ResponseVoicedInOrder` rests on `TextOrder` (tokens increase along segments,
  the piece, the deltas and the stage) and `AudioOrder` (likewise for chunks).
  `ResponseWholeReply` compares what was handed over with what the LLM said, and
  so has to account for each token on its way: `NothingLost` says that, unless
  somebody cancels, tokens arrive one by one (`Numbered`), each goroutine ends
  only after the one it hears from (`Staged`), and the segments spoken, in hand
  and queued, with the sentence under way, are all that the hook left
  (`AllInWork`). The segments are put together by a fold. Its value over an
  appended sequence (`FlattenAppend`) is proved by an induction in the form of
  sets (`Induct`, from `WFMin` of the library): the theorems that take an operator
  as a parameter are of no use to the provers, a least element of a set is.
  `CancelledNeverStuck` is the safety half of `StagesEnd`: `StagesThere` says which
  goroutines are there in each state of `respond`, so that whoever it waits for
  can be followed to one that can go on.
* `CascadeShellProofs`. `Custody`: each source that was set is in exactly one hand:
  active, about to be closed by the call that replaced it, taken by `Close`, or
  closed once. `ShellReleasedOnce` follows.
* `DoubaoProofs`. `Watched` relates `quiet` to `since`: they differ only while the
  microphone is between its store and its write, and a tick that finds it there
  counts as `stalled`. `DoubaoKeptAlive` follows for any idle time.

Each proof module shows its invariant inductive with one step per action, and
the other theorems follow from it.

### Model-checked only

All liveness properties (`RecoversWhenUp`, `CloseAllEnds`, `FinalAnswered`,
`CloseReturns`, `SessionEnds`, `MediaNotGated`, `StagesEnd`, `TextTaken`,
`ClosesDown`, and the fairness in `IsAResponse`): liveness under fairness and
ENABLED are beyond this prover. Of three of them the part that is about safety
is proved: that a closed cascade and a cancelled response are never stuck
(`CascadeCloseNeverStuck`, `CancelledNeverStuck`, which state the guards of steps
in place of ENABLED), and that a closed session has only so many steps to go
(`ClosedSessionRunsOut`). Every other property of the passing runs is a
theorem.

### Not modelled

The adaptive controllers (two counters with hysteresis, each sequential behind
its own lock), the rate limiter (one atomic script in Redis), the binary frames
of Doubao, the requests of the HTTP stages, audio conversion and the framing of
bytes into samples, metrics, auth and configuration; `PROJECT.json` gives the
reason for each. Within the modelled parts: the buffer behind a source, a second
data channel of one client, the token hook's replacement, and what texts say. Two
things were seen there and are hazards without a property: `xtts.go:227` appends
a short read to the array of the carried odd byte, which the next odd byte then
overwrites; and `doubao.go:430` empties the reply's buffer at ChatEnded only, not
at an interruption.

## What is left

1. `Adaptive`: both controllers, with hysteresis and dwell as action properties;
   the framing of the streaming TTS as an operator against a reference
   definition.
2. `MediaSession` with the cascade's queues in place of Gemini's, and a second
   data channel.
