--------------------------- MODULE ProviderGuard ---------------------------
(***************************************************************************)
(* The provider guard (internal/modelcb) as the offer path                 *)
(* (internal/offer/intake.go) and the outbound pump (internal/rtc) drive   *)
(* it: one circuit breaker, the offers that are being served concurrently, *)
(* and the early life of the sessions they start.  Breakers of different   *)
(* providers share nothing, so one breaker is modelled.                    *)
(*                                                                         *)
(* Every operation of the breaker runs under its mutex and is one step.    *)
(* ServeOffer reads the clock once, before it asks for admission, and uses *)
(* that reading again when the dial is over: clockAge is how old the       *)
(* reading of an offer is.  All times are kept relative to the present     *)
(* (reopenIn = openUntil - now), which keeps the state finite without a    *)
(* horizon.                                                                *)
(***************************************************************************)
EXTENDS Integers

CONSTANTS
  Offers,            \* slots for offers served at the same time
  OpenAfter,         \* failures in a row that open the circuit
  OpenFor,           \* ticks the circuit stays open
  AuthOpenFor,       \* ticks it stays open after an authentication failure
  HalfOpenSuccess,   \* successes that close a half-open circuit
  EarlyFaultWindow,  \* ticks in which a silent session still counts as failed
  MaxClockAge,       \* bound: ticks between reading the clock and the outcome
  UpstreamModes,     \* the conditions the provider may be in
  MaxRefusals,       \* bound: reconnects refused with 400 after admission
  MaxHangUps         \* bound: sessions ended by the client before any audio

ASSUME GuardAssumption ==
  /\ OpenAfter \in Nat \ {0}
  /\ OpenFor \in Nat \ {0}
  /\ AuthOpenFor \in Nat \ {0}
  /\ HalfOpenSuccess \in Nat \ {0}
  /\ EarlyFaultWindow \in Nat \ {0}
  /\ MaxClockAge \in Nat
  /\ UpstreamModes \subseteq {"up", "down", "denied", "dead"}
  /\ MaxRefusals \in Nat
  /\ MaxHangUps \in Nat

VARIABLES
  state, reason,     \* the breaker: closed, open or half_open, and why
  reopenIn,          \* openUntil, relative to the present
  connectFailures, streamFailures,  \* failures in a row, dials and streams
  success,           \* successes counted by the half-open circuit
  probeInFlight,     \* halfOpenProbeInFlight
  pc,                \* where each offer, and the session it started, is
  clockAge,          \* age of the clock reading an offer holds
  callAge,           \* time since the session started, up to EarlyFaultWindow
  upstream,          \* the provider: up, down (dials fail), denied (they fail
                     \* with 401/403), dead (dials work, streams fail)
  refusals, hangUps, \* how often the two bounded environment steps happened
  probes,            \* history: offers admitted by the present half-open round
                     \* whose outcome is not recorded yet
  wins,              \* history: probes of the round that succeeded
  late               \* history: the round counted a dial it did not admit

breakerVars == <<state, reason, reopenIn, connectFailures, streamFailures,
                 success, probeInFlight>>
historyVars == <<probes, wins, late>>
budgetVars == <<refusals, hangUps>>
vars == <<breakerVars, pc, clockAge, callAge, upstream, budgetVars, historyVars>>

Init ==
  /\ state = "closed"
  /\ reason = "none"
  /\ reopenIn = 0
  /\ connectFailures = 0
  /\ streamFailures = 0
  /\ success = 0
  /\ probeInFlight = FALSE
  /\ pc = [o \in Offers |-> "idle"]
  /\ clockAge = [o \in Offers |-> 0]
  /\ callAge = [o \in Offers |-> 0]
  /\ upstream \in UpstreamModes
  /\ refusals = 0
  /\ hangUps = 0
  /\ probes = {}
  /\ wins = 0
  /\ late = FALSE

----------------------------------------------------------------------------
(* The breaker's operations, each under its mutex.  s is the age of the    *)
(* clock reading the caller passes as "now".                               *)

\* ~now.Before(openUntil)
Elapsed(s) == reopenIn <= 0 - s

\* Mutant: the hold is subtracted from the reading.
HenceBackwards(d, s) == 0 - d - s

\* now.Add(d), relative to the present.
Hence(d, s) == d - s

\* open.  The callers that find the circuit half-open free the probe slot first;
\* in the other states it is free.
Open(why, until) ==
  /\ state' = "open"
  /\ reason' = why
  /\ reopenIn' = until
  /\ connectFailures' = 0
  /\ streamFailures' = 0
  /\ success' = 0
  /\ probeInFlight' = FALSE

\* A half-open round ends: its probes are not told apart any more.
EndRound ==
  /\ probes' = {}
  /\ wins' = 0
  /\ late' = FALSE

\* recordSuccess in the closed state: both streaks start again.
SuccessClosed ==
  /\ state = "closed"
  /\ connectFailures' = 0
  /\ streamFailures' = 0
  /\ UNCHANGED <<state, reason, reopenIn, success, probeInFlight, historyVars>>

\* Mutant: a success that does not complete the round keeps the probe slot.
SuccessKeepsSlot(o) ==
  /\ state = "half_open"
  /\ success + 1 < HalfOpenSuccess
  /\ success' = success + 1
  /\ probes' = probes \ {o}
  /\ wins' = IF o \in probes THEN wins + 1 ELSE wins
  /\ late' = (late \/ o \notin probes)
  /\ UNCHANGED <<state, reason, reopenIn, connectFailures, streamFailures, probeInFlight>>

\* recordSuccess in the half-open state, more successes needed.
SuccessCounted(o) ==
  /\ state = "half_open"
  /\ success + 1 < HalfOpenSuccess
  /\ success' = success + 1
  /\ probeInFlight' = FALSE
  /\ probes' = probes \ {o}
  /\ wins' = IF o \in probes THEN wins + 1 ELSE wins
  /\ late' = (late \/ o \notin probes)
  /\ UNCHANGED <<state, reason, reopenIn, connectFailures, streamFailures>>

Close ==
  /\ state' = "closed"
  /\ reason' = "none"
  /\ connectFailures' = 0
  /\ streamFailures' = 0
  /\ success' = 0
  /\ probeInFlight' = FALSE
  /\ EndRound
  /\ UNCHANGED reopenIn

\* Mutant: any half-open success closes the circuit.
SuccessClosesEarly ==
  /\ state = "half_open"
  /\ Close

\* recordSuccess in the half-open state, enough successes.
SuccessCloses ==
  /\ state = "half_open"
  /\ success + 1 >= HalfOpenSuccess
  /\ Close

\* recordSuccess and the failures alike: an open circuit ignores outcomes.
IgnoredWhileOpen ==
  /\ state = "open"
  /\ UNCHANGED <<breakerVars, historyVars>>

RecordSuccess(o) ==
  SuccessClosed \/ SuccessCounted(o) \/ SuccessCloses \/ IgnoredWhileOpen

HoldFor(why) == IF why = "auth" THEN AuthOpenFor ELSE OpenFor

\* Mutant: a failure while the circuit is open sets the timer again.
OpenByDialFailureAgain(why, s) ==
  /\ state = "closed" => why = "auth" \/ connectFailures + 1 >= OpenAfter
  /\ Open(why, Hence(HoldFor(why), s))
  /\ EndRound

\* recordDialFailure that opens the circuit.
OpenByDialFailure(why, s) ==
  /\ \/ state = "half_open"
     \/ state = "closed" /\ (why = "auth" \/ connectFailures + 1 >= OpenAfter)
  /\ Open(why, Hence(HoldFor(why), s))
  /\ EndRound

\* recordDialFailure that is only counted.
CountDialFailure(why) ==
  /\ state = "closed"
  /\ why # "auth"
  /\ connectFailures + 1 < OpenAfter
  /\ connectFailures' = connectFailures + 1
  /\ UNCHANGED <<state, reason, reopenIn, streamFailures, success, probeInFlight,
                 historyVars>>

RecordDialFailure(why, s) ==
  OpenByDialFailure(why, s) \/ CountDialFailure(why) \/ IgnoredWhileOpen

\* recordStreamFailure that opens the circuit; it reads the clock itself.
OpenByStreamFailure ==
  /\ \/ state = "half_open"
     \/ state = "closed" /\ streamFailures + 1 >= OpenAfter
  /\ Open("stream_early", Hence(OpenFor, 0))
  /\ EndRound

CountStreamFailure ==
  /\ state = "closed"
  /\ streamFailures + 1 < OpenAfter
  /\ streamFailures' = streamFailures + 1
  /\ UNCHANGED <<state, reason, reopenIn, connectFailures, success, probeInFlight,
                 historyVars>>

RecordStreamFailure ==
  OpenByStreamFailure \/ CountStreamFailure \/ IgnoredWhileOpen

----------------------------------------------------------------------------
(* ServeOffer, one offer at a time per slot.                               *)

\* now := time.Now()
ReadClock(o) ==
  /\ pc[o] = "idle"
  /\ pc' = [pc EXCEPT ![o] = "gate"]
  /\ clockAge' = [clockAge EXCEPT ![o] = 0]
  /\ UNCHANGED <<breakerVars, callAge, upstream, budgetVars, historyVars>>

Admitted(o) == pc' = [pc EXCEPT ![o] = "admitted"]

Refused(o) ==
  /\ pc' = [pc EXCEPT ![o] = "idle"]
  /\ clockAge' = [clockAge EXCEPT ![o] = 0]

\* allow: a closed circuit admits every dial.
AllowClosed(o) ==
  /\ pc[o] = "gate"
  /\ state = "closed"
  /\ Admitted(o)
  /\ UNCHANGED <<breakerVars, clockAge, callAge, upstream, budgetVars, historyVars>>

\* allow: the circuit is open and its time is not over (503, Retry-After).
RejectOpen(o) ==
  /\ pc[o] = "gate"
  /\ state = "open"
  /\ ~Elapsed(clockAge[o])
  /\ Refused(o)
  /\ UNCHANGED <<breakerVars, callAge, upstream, budgetVars, historyVars>>

\* allow: the first offer after the open time starts a half-open round.
AllowFirstProbe(o) ==
  /\ pc[o] = "gate"
  /\ state = "open"
  /\ Elapsed(clockAge[o])
  /\ state' = "half_open"
  /\ success' = 0
  /\ probeInFlight' = TRUE
  /\ Admitted(o)
  /\ probes' = {o}
  /\ wins' = 0
  /\ late' = FALSE
  /\ UNCHANGED <<reason, reopenIn, connectFailures, streamFailures,
                 clockAge, callAge, upstream, budgetVars>>

\* Mutant: the probe slot is not looked at.
AllowEveryProbe(o) ==
  /\ pc[o] = "gate"
  /\ state = "half_open"
  /\ probeInFlight' = TRUE
  /\ Admitted(o)
  /\ probes' = probes \cup {o}
  /\ UNCHANGED <<state, reason, reopenIn, connectFailures, streamFailures, success,
                 clockAge, callAge, upstream, budgetVars, wins, late>>

\* allow: the next probe of a round, once the slot is free.
AllowProbe(o) ==
  /\ pc[o] = "gate"
  /\ state = "half_open"
  /\ ~probeInFlight
  /\ probeInFlight' = TRUE
  /\ Admitted(o)
  /\ probes' = probes \cup {o}
  /\ UNCHANGED <<state, reason, reopenIn, connectFailures, streamFailures, success,
                 clockAge, callAge, upstream, budgetVars, wins, late>>

\* allow: a probe is out (503).
RejectProbe(o) ==
  /\ pc[o] = "gate"
  /\ state = "half_open"
  /\ probeInFlight
  /\ Refused(o)
  /\ UNCHANGED <<breakerVars, callAge, upstream, budgetVars, historyVars>>

\* ResolveReplay returns ProtocolInvalidError after the admission: ServeOffer
\* answers 400 without a dial and without recording anything.
RefuseReconnect(o) ==
  /\ pc[o] = "admitted"
  /\ refusals < MaxRefusals
  /\ refusals' = refusals + 1
  /\ Refused(o)
  /\ probes' = probes \ {o}
  /\ UNCHANGED <<breakerVars, callAge, upstream, hangUps, wins, late>>

\* Models.New succeeds, RecordDial(nil), Serve starts the session.
DialSucceeds(o) ==
  /\ pc[o] = "admitted"
  /\ upstream \in {"up", "dead"}
  /\ RecordSuccess(o)
  /\ pc' = [pc EXCEPT ![o] = "silent"]
  /\ clockAge' = [clockAge EXCEPT ![o] = 0]
  /\ callAge' = [callAge EXCEPT ![o] = 0]
  /\ UNCHANGED <<upstream, budgetVars>>

\* Models.New fails, RecordDial(err) with the reading taken before the dial.
DialFails(o) ==
  /\ pc[o] = "admitted"
  /\ upstream \in {"down", "denied"}
  /\ RecordDialFailure(IF upstream = "denied" THEN "auth" ELSE "dial", clockAge[o])
  /\ Refused(o)
  /\ UNCHANGED <<callAge, upstream, budgetVars>>

----------------------------------------------------------------------------
(* The session the offer started, as its outbound pump sees it.            *)

\* The pump wrote a frame: produced = true, no fault can be reported any more.
FirstAudio(o) ==
  /\ pc[o] = "silent"
  /\ upstream = "up"
  /\ pc' = [pc EXCEPT ![o] = "heard"]
  /\ callAge' = [callAge EXCEPT ![o] = 0]
  /\ UNCHANGED <<breakerVars, clockAge, upstream, budgetVars, historyVars>>

\* Recv fails before any audio: reportFault(false, err).
ReportSilentEnd(o) ==
  /\ pc[o] = "silent"
  /\ IF callAge[o] < EarlyFaultWindow
     THEN RecordStreamFailure
     ELSE UNCHANGED <<breakerVars, historyVars>>
  /\ pc' = [pc EXCEPT ![o] = "idle"]
  /\ callAge' = [callAge EXCEPT ![o] = 0]
  /\ UNCHANGED <<clockAge, upstream>>

\* ... because the provider's stream broke.
StreamFails(o) ==
  /\ upstream # "up"
  /\ ReportSilentEnd(o)
  /\ UNCHANGED budgetVars

\* ... because the client left (or the SDP was bad): sessionScope.Close closes
\* the model, Recv returns an error and the pump reports it all the same.
HangUp(o) ==
  /\ hangUps < MaxHangUps
  /\ hangUps' = hangUps + 1
  /\ ReportSilentEnd(o)
  /\ UNCHANGED refusals

\* A session that produced audio ends; nothing is recorded.
EndHeard(o) ==
  /\ pc[o] = "heard"
  /\ pc' = [pc EXCEPT ![o] = "idle"]
  /\ UNCHANGED <<breakerVars, clockAge, callAge, upstream, budgetVars, historyVars>>

----------------------------------------------------------------------------
\* Time passes.  Dials are bounded by MaxClockAge; nothing else waits for time.
Tick ==
  /\ \A o \in Offers : pc[o] \in {"gate", "admitted"} => clockAge[o] < MaxClockAge
  /\ reopenIn' = IF reopenIn > 0 - MaxClockAge THEN reopenIn - 1 ELSE reopenIn
  /\ clockAge' = [o \in Offers |->
       IF pc[o] \in {"gate", "admitted"} THEN clockAge[o] + 1 ELSE clockAge[o]]
  /\ callAge' = [o \in Offers |->
       IF pc[o] = "silent" /\ callAge[o] < EarlyFaultWindow
       THEN callAge[o] + 1 ELSE callAge[o]]
  /\ UNCHANGED <<state, reason, connectFailures, streamFailures, success,
                 probeInFlight, pc, upstream, budgetVars, historyVars>>

UpstreamChanges ==
  /\ \E m \in UpstreamModes \ {upstream} : upstream' = m
  /\ UNCHANGED <<breakerVars, pc, clockAge, callAge, budgetVars, historyVars>>

Gate(o) ==
  \/ AllowClosed(o)
  \/ RejectOpen(o)
  \/ AllowFirstProbe(o)
  \/ AllowProbe(o)
  \/ RejectProbe(o)

Dial(o) == DialSucceeds(o) \/ DialFails(o)

Session(o) == FirstAudio(o) \/ StreamFails(o) \/ EndHeard(o)

Next ==
  \/ \E o \in Offers :
       ReadClock(o) \/ Gate(o) \/ RefuseReconnect(o) \/ Dial(o)
         \/ Session(o) \/ HangUp(o)
  \/ Tick
  \/ UpstreamChanges

Spec == Init /\ [][Next]_vars

\* Clients keep sending offers, the gate answers, dials and sessions come to an
\* end, time passes.  Nothing is assumed of the provider, of refused
\* reconnects or of hang-ups.
Fairness ==
  /\ WF_vars(Tick)
  /\ \A o \in Offers : /\ WF_vars(ReadClock(o))
                       /\ WF_vars(Gate(o))
                       /\ WF_vars(Dial(o))
                       /\ WF_vars(Session(o))

FairSpec == Spec /\ Fairness

----------------------------------------------------------------------------
(* Properties                                                              *)

\* The types of the variables and the range of the relative times.
TypeOK ==
  /\ state \in {"closed", "open", "half_open"}
  /\ reason \in {"none", "auth", "dial", "stream_early"}
  /\ reopenIn \in Int
  /\ reopenIn >= 0 - MaxClockAge
  /\ connectFailures \in Nat
  /\ streamFailures \in Nat
  /\ success \in Nat
  /\ probeInFlight \in BOOLEAN
  /\ pc \in [Offers -> {"idle", "gate", "admitted", "silent", "heard"}]
  /\ clockAge \in [Offers -> 0..MaxClockAge]
  /\ callAge \in [Offers -> 0..EarlyFaultWindow]
  /\ upstream \in UpstreamModes
  /\ refusals \in Nat
  /\ hangUps \in Nat
  /\ probes \in SUBSET Offers
  /\ wins \in Nat
  /\ late \in BOOLEAN

\* As long as every outcome a half-open round records is that of a dial the
\* round admitted, at most one of its probes is out, whatever order offers
\* read the clock, pass the gate and come back in (allow, recordSuccess).
SingleProbeUnlessLate ==
  state = "half_open" /\ ~late => \A o, p \in probes : o = p

\* An occupied probe slot belongs to an offer whose outcome is still to come,
\* and will free it, unless a reconnect was refused between admission and dial
\* (halfOpenProbeInFlight and the return paths of ServeOffer).
ProbeSlotHasHolder ==
  probeInFlight /\ refusals = 0 => \E o \in probes : pc[o] = "admitted"

\* The timer of an open circuit stands still but for the clock: Tick, the step
\* in which no offer moves, is the only one to lower it.
OnlyTheClockRuns ==
  /\ reason' = reason
  /\ \/ reopenIn' = reopenIn
     \/ reopenIn' = reopenIn - 1 /\ UNCHANGED pc

\* What opens a circuit sets the timer to the hold of its reason, less what the
\* clock reading it brings is old: the reading of a dial by the time the dial took.
OpensForItsHold ==
  /\ reopenIn' <= HoldFor(reason')
  /\ reopenIn' >= HoldFor(reason') - MaxClockAge

\* Late outcomes of dials and streams neither shorten nor prolong the time an
\* open circuit stays open, nor close it: only an offer that comes after the
\* time is over leaves the open state, and to half_open ("Already open; keep
\* existing timer").  A failure that opens it cuts the time by no more than its
\* dial has lasted (now is read before the dial, RecordDial gets it after).
OpenWindowRuns ==
  [][/\ state = "open" => \/ state' = "open" /\ OnlyTheClockRuns
                          \/ state' = "half_open" /\ reopenIn <= 0
     /\ state # "open" /\ state' = "open" => OpensForItsHold]_vars

\* The step that closes a half-open circuit is the success of a probe of the
\* round, and completes HalfOpenSuccess of them ...
ClosedByProbes ==
  /\ wins + 1 >= HalfOpenSuccess
  /\ \E o \in probes : pc[o] = "admitted" /\ pc'[o] = "silent"

\* ... or that of a dial the round did not admit.
ClosedByLateDial ==
  \E o \in Offers \ probes : pc[o] = "admitted" /\ pc'[o] = "silent"

\* In a round that has seen no late outcome the circuit closes after
\* HalfOpenSuccess probes of that round, or by the first late success itself
\* (recordSuccess counts whatever it is given).
ClosesByProbesUnlessLate ==
  [][state = "half_open" /\ state' = "closed" /\ ~late =>
       ClosedByProbes \/ ClosedByLateDial]_vars

Promise == INSTANCE Breaker WITH
  Callers <- Offers,
  Needed <- HalfOpenSuccess,
  phase <- state,
  hold <- reopenIn,
  dialing <- {o \in Offers : pc[o] = "admitted"},
  astray <- late

\* Seen from outside the mutex the guard is a circuit breaker: with the offers
\* between admission and outcome as the callers, every step of every offer,
\* session and clock is one of Breaker's or does not show.  Admission, the
\* counting of successes and the end of a round go by the probes of the round,
\* although the code keeps one flag and one counter for all outcomes (allow,
\* recordSuccess, recordDialFailure, recordStreamFailure).
ActsAsBreaker == Promise!Spec

\* Once the provider is up for good the circuit is closed from some point on,
\* whatever stale failures, probes and hang-ups came before, unless a reconnect
\* was refused between admission and dial: that offer's probe slot is never
\* given back.
RecoversWhenUp ==
  [](refusals = 0) /\ <>[](upstream = "up") => <>[](state = "closed")
=============================================================================
