------------------------ MODULE ProviderGuardProofs ------------------------
(***************************************************************************)
(* Proofs about the provider guard, for any number of concurrent offers    *)
(* and any configuration of the breaker.                                   *)
(***************************************************************************)
EXTENDS ProviderGuard, TLAPS

\* The breaker and the offers it admitted agree: the probe slot is occupied
\* only while half-open, the probes of a round are offers between admission
\* and outcome, and until a late outcome is counted a free slot means that no
\* probe is out.
GuardInv ==
  /\ TypeOK
  /\ probeInFlight => state = "half_open"
  /\ state # "half_open" => probes = {}
  /\ \A o \in probes : pc[o] = "admitted"
  /\ ~late => \A o, p \in probes : o = p
  /\ ~late /\ ~probeInFlight => probes = {}
  /\ probeInFlight /\ refusals = 0 => probes # {}

\* The part of the invariant about the breaker's own variables.
BreakerOK ==
  /\ state \in {"closed", "open", "half_open"}
  /\ reason \in {"none", "auth", "dial", "stream_early"}
  /\ reopenIn \in Int
  /\ reopenIn >= 0 - MaxClockAge
  /\ connectFailures \in Nat
  /\ streamFailures \in Nat
  /\ success \in Nat
  /\ probeInFlight \in BOOLEAN
  /\ probes \in SUBSET Offers
  /\ wins \in Nat
  /\ late \in BOOLEAN

\* What the recording of any outcome leaves behind: a free probe slot, and no
\* probe out unless the outcome was a late one.
Settled ==
  /\ BreakerOK'
  /\ ~probeInFlight'
  /\ state' # "half_open" => probes' = {}
  /\ ~late' => probes' = {}
  /\ probes' \subseteq probes

\* recordSuccess settles the breaker, and the probe it was given is not out.
LEMMA RecordSuccessSettles ==
  ASSUME GuardInv, NEW o \in Offers, RecordSuccess(o)
  PROVE  Settled /\ (o \notin probes')
<1> USE DEF GuardInv, TypeOK, Settled, BreakerOK
<1>1. CASE SuccessClosed
  BY <1>1 DEF SuccessClosed, historyVars
<1>2. CASE SuccessCounted(o)
  <2>1. probeInFlight' \in BOOLEAN /\ ~probeInFlight'
    BY <1>2, Zenon DEF SuccessCounted
  <2>2. late' \in BOOLEAN /\ (~late' => ~late /\ o \in probes)
    BY <1>2, Zenon DEF SuccessCounted
  <2>3. /\ state = "half_open"
        /\ success' = success + 1
        /\ probes' = probes \ {o}
        /\ wins' = IF o \in probes THEN wins + 1 ELSE wins
        /\ UNCHANGED <<state, reason, reopenIn, connectFailures, streamFailures>>
    BY <1>2 DEF SuccessCounted
  <2>4. ~late' => probes' = {}
    BY <2>2, <2>3
  <2> QED
    BY <2>1, <2>2, <2>3, <2>4
<1>3. CASE SuccessCloses
  BY <1>3 DEF SuccessCloses, Close, EndRound
<1>4. CASE IgnoredWhileOpen
  BY <1>4 DEF IgnoredWhileOpen, breakerVars, historyVars
<1> QED
  BY <1>1, <1>2, <1>3, <1>4 DEF RecordSuccess

\* A failure settles it too, and leaves no half-open round behind.
LEMMA RecordDialFailureSettles ==
  ASSUME GuardInv, NEW why \in {"auth", "dial"}, NEW s \in 0..MaxClockAge,
         RecordDialFailure(why, s)
  PROVE  Settled /\ probes' = {}
<1> USE GuardAssumption DEF GuardInv, TypeOK, Settled, BreakerOK
<1>1. CASE OpenByDialFailure(why, s)
  <2>1. /\ probeInFlight' \in BOOLEAN /\ ~probeInFlight'
        /\ late' \in BOOLEAN /\ probes' = {} /\ wins' = 0
    BY <1>1, Zenon DEF OpenByDialFailure, Open, EndRound
  <2>2. /\ state' = "open" /\ reason' = why /\ reopenIn' = HoldFor(why) - s
        /\ connectFailures' = 0 /\ streamFailures' = 0 /\ success' = 0
    BY <1>1 DEF OpenByDialFailure, Open, Hence
  <2> QED
    BY <2>1, <2>2 DEF HoldFor
<1>2. CASE CountDialFailure(why)
  BY <1>2 DEF CountDialFailure, historyVars
<1>3. CASE IgnoredWhileOpen
  BY <1>3 DEF IgnoredWhileOpen, breakerVars, historyVars
<1> QED
  BY <1>1, <1>2, <1>3 DEF RecordDialFailure

\* So does an early stream failure.
LEMMA RecordStreamFailureSettles ==
  ASSUME GuardInv, RecordStreamFailure
  PROVE  Settled /\ probes' = {}
<1> USE GuardAssumption DEF GuardInv, TypeOK, Settled, BreakerOK
<1>1. CASE OpenByStreamFailure
  <2>1. /\ probeInFlight' \in BOOLEAN /\ ~probeInFlight'
        /\ late' \in BOOLEAN /\ probes' = {} /\ wins' = 0
    BY <1>1, Zenon DEF OpenByStreamFailure, Open, EndRound
  <2>2. /\ state' = "open" /\ reason' = "stream_early" /\ reopenIn' = OpenFor - 0
        /\ connectFailures' = 0 /\ streamFailures' = 0 /\ success' = 0
    BY <1>1 DEF OpenByStreamFailure, Open, Hence
  <2> QED
    BY <2>1, <2>2
<1>2. CASE CountStreamFailure
  BY <1>2 DEF CountStreamFailure, historyVars
<1>3. CASE IgnoredWhileOpen
  BY <1>3 DEF IgnoredWhileOpen, breakerVars, historyVars
<1> QED
  BY <1>1, <1>2, <1>3 DEF RecordStreamFailure

\* The invariant holds initially.
LEMMA InitGuardInv == Init => GuardInv
<1> SUFFICES ASSUME Init PROVE GuardInv
  OBVIOUS
<1>1. probeInFlight \in BOOLEAN /\ ~probeInFlight /\ late \in BOOLEAN /\ probes = {}
  BY Zenon DEF Init
<1>2. /\ state = "closed" /\ reason = "none" /\ reopenIn = 0
      /\ connectFailures = 0 /\ streamFailures = 0 /\ success = 0
      /\ pc = [o \in Offers |-> "idle"]
      /\ clockAge = [o \in Offers |-> 0] /\ callAge = [o \in Offers |-> 0]
      /\ upstream \in UpstreamModes /\ refusals = 0 /\ hangUps = 0 /\ wins = 0
  BY DEF Init
<1> QED
  BY <1>1, <1>2, GuardAssumption DEF GuardInv, TypeOK

\* Every step preserves the invariant.
LEMMA NextGuardInv == GuardInv /\ [Next]_vars => GuardInv'
<1> SUFFICES ASSUME GuardInv, [Next]_vars PROVE GuardInv'
  OBVIOUS
<1> USE GuardAssumption DEF GuardInv, TypeOK
<1>1. ASSUME NEW o \in Offers, ReadClock(o) PROVE GuardInv'
  BY <1>1 DEF ReadClock, breakerVars, budgetVars, historyVars
<1>2. ASSUME NEW o \in Offers, AllowClosed(o) PROVE GuardInv'
  BY <1>2 DEF AllowClosed, Admitted, breakerVars, budgetVars, historyVars
<1>3. ASSUME NEW o \in Offers, RejectOpen(o) PROVE GuardInv'
  BY <1>3 DEF RejectOpen, Refused, breakerVars, budgetVars, historyVars
<1>4. ASSUME NEW o \in Offers, AllowFirstProbe(o) PROVE GuardInv'
  BY <1>4 DEF AllowFirstProbe, Admitted, budgetVars
<1>5. ASSUME NEW o \in Offers, AllowProbe(o) PROVE GuardInv'
  BY <1>5 DEF AllowProbe, Admitted, budgetVars
<1>6. ASSUME NEW o \in Offers, RejectProbe(o) PROVE GuardInv'
  BY <1>6 DEF RejectProbe, Refused, breakerVars, budgetVars, historyVars
<1>7. ASSUME NEW o \in Offers, RefuseReconnect(o) PROVE GuardInv'
  BY <1>7 DEF RefuseReconnect, Refused, breakerVars
<1>8. ASSUME NEW o \in Offers, DialSucceeds(o) PROVE GuardInv'
  <2>1. Settled /\ o \notin probes'
    BY <1>8, RecordSuccessSettles DEF DialSucceeds
  <2>2. /\ pc' = [pc EXCEPT ![o] = "silent"]
        /\ clockAge' = [clockAge EXCEPT ![o] = 0]
        /\ callAge' = [callAge EXCEPT ![o] = 0]
        /\ UNCHANGED <<upstream, refusals, hangUps>>
    BY <1>8 DEF DialSucceeds, budgetVars
  <2>3. TypeOK'
    BY <2>1, <2>2 DEF Settled, BreakerOK
  <2>4. \A p \in probes' : pc'[p] = "admitted"
    BY <2>1, <2>2 DEF Settled
  <2> QED
    BY <2>1, <2>3, <2>4 DEF Settled
<1>9. ASSUME NEW o \in Offers, DialFails(o) PROVE GuardInv'
  <2> DEFINE why == IF upstream = "denied" THEN "auth" ELSE "dial"
  <2>1. Settled /\ probes' = {}
    <3>1. RecordDialFailure(why, clockAge[o])
      BY <1>9 DEF DialFails
    <3>2. why \in {"auth", "dial"} /\ clockAge[o] \in 0..MaxClockAge
      OBVIOUS
    <3> HIDE DEF why
    <3> QED
      BY <3>1, <3>2, RecordDialFailureSettles
  <2>2. TypeOK'
    BY <1>9, <2>1 DEF DialFails, Refused, budgetVars, Settled, BreakerOK
  <2> QED
    BY <2>1, <2>2 DEF Settled
<1>10. ASSUME NEW o \in Offers, FirstAudio(o) PROVE GuardInv'
  BY <1>10 DEF FirstAudio, breakerVars, budgetVars, historyVars
<1>11. ASSUME NEW o \in Offers, ReportSilentEnd(o), refusals' = refusals,
              hangUps' \in Nat
       PROVE  GuardInv'
  <2>1. CASE callAge[o] < EarlyFaultWindow
    <3>1. Settled /\ probes' = {}
      BY <1>11, <2>1, RecordStreamFailureSettles DEF ReportSilentEnd
    <3>2. TypeOK'
      BY <1>11, <3>1 DEF ReportSilentEnd, Settled, BreakerOK
    <3> QED
      BY <3>1, <3>2 DEF Settled
  <2>2. CASE ~(callAge[o] < EarlyFaultWindow)
    BY <1>11, <2>2 DEF ReportSilentEnd, breakerVars, historyVars
  <2> QED
    BY <2>1, <2>2
<1>12. ASSUME NEW o \in Offers, StreamFails(o) PROVE GuardInv'
  BY <1>11, <1>12 DEF StreamFails, budgetVars
<1>13. ASSUME NEW o \in Offers, HangUp(o) PROVE GuardInv'
  BY <1>11, <1>13 DEF HangUp
<1>14. ASSUME NEW o \in Offers, EndHeard(o) PROVE GuardInv'
  BY <1>14 DEF EndHeard, breakerVars, budgetVars, historyVars
<1>15. CASE Tick
  <2>1. reopenIn' \in Int /\ reopenIn' >= 0 - MaxClockAge
    BY <1>15 DEF Tick
  <2>2. clockAge' \in [Offers -> 0..MaxClockAge] /\ callAge' \in [Offers -> 0..EarlyFaultWindow]
    BY <1>15 DEF Tick
  <2> QED
    BY <1>15, <2>1, <2>2 DEF Tick, budgetVars, historyVars
<1>16. CASE UpstreamChanges
  BY <1>16 DEF UpstreamChanges, breakerVars, budgetVars, historyVars
<1>17. CASE UNCHANGED vars
  BY <1>17 DEF vars, breakerVars, budgetVars, historyVars
<1> QED
  BY <1>1, <1>2, <1>3, <1>4, <1>5, <1>6, <1>7, <1>8, <1>9, <1>10, <1>12, <1>13,
     <1>14, <1>15, <1>16, <1>17
  DEF Next, Gate, Dial, Session

\* The invariant holds in every reachable state.
THEOREM GuardInvariance == Spec => []GuardInv
<1>1. Init => GuardInv
  BY InitGuardInv
<1>2. GuardInv /\ [Next]_vars => GuardInv'
  BY NextGuardInv
<1> QED
  BY <1>1, <1>2, PTL DEF Spec

\* Type correctness for every value of the constants.
THEOREM GuardTypeCorrect == Spec => []TypeOK
<1>1. GuardInv => TypeOK
  BY DEF GuardInv
<1> QED
  BY <1>1, GuardInvariance, PTL

\* However many offers race through the gate, a half-open round that has seen
\* no late outcome has at most one probe out.
THEOREM AtMostOneProbe == Spec => []SingleProbeUnlessLate
<1>1. GuardInv => SingleProbeUnlessLate
  BY DEF GuardInv, SingleProbeUnlessLate
<1> QED
  BY <1>1, GuardInvariance, PTL

\* An occupied probe slot has an offer that will give it back, unless a
\* reconnect was refused between its admission and its dial.
THEOREM ProbeSlotHeld == Spec => []ProbeSlotHasHolder
<1>1. GuardInv => ProbeSlotHasHolder
  BY DEF GuardInv, ProbeSlotHasHolder, TypeOK
<1> QED
  BY <1>1, GuardInvariance, PTL

\* A failure that opens the circuit holds it for the time of its reason, less at
\* most what its clock reading is old.
LEMMA OpeningHolds ==
  ASSUME NEW s \in 0..MaxClockAge, NEW why \in {"auth", "dial", "stream_early"},
         Open(why, Hence(HoldFor(why), s))
  PROVE  OpensForItsHold
<1>1. HoldFor(why) \in Int
  BY GuardAssumption DEF HoldFor
<1>2. reopenIn' = HoldFor(why) - s /\ reason' = why
  BY DEF Open, Hence
<1>3. HoldFor(why) - s <= HoldFor(why) /\ HoldFor(why) - s >= HoldFor(why) - MaxClockAge
  BY <1>1, GuardAssumption
<1> QED
  BY <1>2, <1>3 DEF OpensForItsHold

\* Nothing but the clock shortens the time an open circuit stays open, nothing
\* prolongs it, and only an offer that comes after it ends it; an opening sets it
\* to its hold but for the age of the reading.
THEOREM OpenWindowRunsOut == Spec => OpenWindowRuns
<1> DEFINE Kept == state = "open" => \/ state' = "open" /\ OnlyTheClockRuns
                                     \/ state' = "half_open" /\ reopenIn <= 0
           Opened == state # "open" /\ state' = "open" => OpensForItsHold
<1>1. GuardInv /\ [Next]_vars => [Kept /\ Opened]_vars
  <2> SUFFICES ASSUME GuardInv, Next PROVE Kept /\ Opened
    BY DEF vars
  <2>1. reopenIn \in Int /\ clockAge \in [Offers -> 0..MaxClockAge] /\ MaxClockAge \in Nat
    BY GuardAssumption DEF GuardInv, TypeOK
  <2>2. ASSUME UNCHANGED breakerVars PROVE Kept /\ Opened
    BY <2>1, <2>2 DEF breakerVars, OnlyTheClockRuns
  <2>3. ASSUME NEW o \in Offers, AllowFirstProbe(o) PROVE Kept /\ Opened
    <3>1. clockAge[o] \in 0..MaxClockAge
      BY <2>1
    <3> QED
      BY <2>1, <2>3, <3>1, GuardAssumption DEF AllowFirstProbe, Elapsed
  <2>4. ASSUME NEW o \in Offers, DialSucceeds(o) PROVE Kept /\ Opened
    <3>1. CASE IgnoredWhileOpen
      BY <2>2, <3>1 DEF IgnoredWhileOpen
    <3>2. CASE SuccessClosed \/ SuccessCounted(o) \/ SuccessCloses
      BY <3>2 DEF SuccessClosed, SuccessCounted, SuccessCloses, Close
    <3> QED
      BY <2>4, <3>1, <3>2 DEF DialSucceeds, RecordSuccess
  <2>5. ASSUME NEW o \in Offers, DialFails(o) PROVE Kept /\ Opened
    <3> DEFINE why == IF upstream = "denied" THEN "auth" ELSE "dial"
    <3>1. RecordDialFailure(why, clockAge[o]) /\ clockAge[o] \in 0..MaxClockAge
      BY <2>1, <2>5 DEF DialFails
    <3>2. why \in {"auth", "dial", "stream_early"}
      OBVIOUS
    <3> HIDE DEF why
    <3>3. CASE IgnoredWhileOpen
      BY <2>2, <3>3 DEF IgnoredWhileOpen
    <3>4. CASE CountDialFailure(why)
      BY <3>4 DEF CountDialFailure
    <3>5. CASE OpenByDialFailure(why, clockAge[o])
      <4>1. OpensForItsHold
        BY <3>1, <3>2, <3>5, OpeningHolds DEF OpenByDialFailure
      <4> QED
        BY <3>5, <4>1 DEF OpenByDialFailure
    <3> QED
      BY <3>1, <3>3, <3>4, <3>5 DEF RecordDialFailure
  <2>6. ASSUME NEW o \in Offers, ReportSilentEnd(o) PROVE Kept /\ Opened
    <3>1. CASE UNCHANGED breakerVars
      BY <2>2, <3>1
    <3>2. CASE CountStreamFailure
      BY <3>2 DEF CountStreamFailure
    <3>3. CASE OpenByStreamFailure
      <4>1. HoldFor("stream_early") = OpenFor /\ 0 \in 0..MaxClockAge
        BY <2>1 DEF HoldFor
      <4>2. OpensForItsHold
        BY <3>3, <4>1, OpeningHolds DEF OpenByStreamFailure
      <4> QED
        BY <3>3, <4>2 DEF OpenByStreamFailure
    <3> QED
      BY <2>6, <3>1, <3>2, <3>3 DEF ReportSilentEnd, RecordStreamFailure, IgnoredWhileOpen
  <2>7. CASE Tick
    BY <2>1, <2>7, GuardAssumption DEF Tick, OnlyTheClockRuns
  <2>8. ASSUME NEW o \in Offers,
               \/ ReadClock(o) \/ AllowClosed(o) \/ RejectOpen(o) \/ AllowProbe(o)
               \/ RejectProbe(o) \/ RefuseReconnect(o) \/ FirstAudio(o) \/ EndHeard(o)
        PROVE  Kept /\ Opened
    <3>1. CASE AllowProbe(o)
      BY <3>1 DEF AllowProbe
    <3>2. CASE UNCHANGED breakerVars
      BY <2>2, <3>2
    <3> QED
      BY <2>8, <3>1, <3>2
      DEF ReadClock, AllowClosed, RejectOpen, RejectProbe, RefuseReconnect,
          FirstAudio, EndHeard
  <2>9. CASE UpstreamChanges
    BY <2>2, <2>9 DEF UpstreamChanges
  <2> QED
    BY <2>3, <2>4, <2>5, <2>6, <2>7, <2>8, <2>9
    DEF Next, Gate, Dial, Session, StreamFails, HangUp
<1> QED
  BY <1>1, GuardInvariance, PTL DEF Spec, OpenWindowRuns

\* Until a late outcome is counted, the successes the breaker has counted in a
\* round are those of its own probes.
CountsProbes == state = "half_open" /\ ~late => success = wins

\* Every step keeps the count.  The first probe starts it afresh; a success adds
\* to both sides, or is a late one; any other outcome ends the round.
LEMMA NextCountsProbes == GuardInv /\ CountsProbes /\ [Next]_vars => CountsProbes'
<1> SUFFICES ASSUME GuardInv, CountsProbes, [Next]_vars PROVE CountsProbes'
  OBVIOUS
<1>1. ASSUME UNCHANGED <<state, late, success, wins>> PROVE CountsProbes'
  BY <1>1 DEF CountsProbes
<1>2. ASSUME state' # "half_open" PROVE CountsProbes'
  BY <1>2 DEF CountsProbes
<1>3. ASSUME NEW o \in Offers, AllowFirstProbe(o) PROVE CountsProbes'
  BY <1>3 DEF AllowFirstProbe, CountsProbes
<1>4. ASSUME NEW o \in Offers, DialSucceeds(o) PROVE CountsProbes'
  <2>1. CASE SuccessCounted(o)
    <3>1. state = "half_open" /\ success' = success + 1
      BY <2>1 DEF SuccessCounted
    <3>2. ~late' => ~late /\ o \in probes
      BY <2>1, Zenon DEF SuccessCounted
    <3>3. ~late' => wins' = wins + 1
      BY <2>1, <3>2 DEF SuccessCounted
    <3> QED
      BY <3>1, <3>2, <3>3 DEF CountsProbes
  <2>2. CASE SuccessClosed \/ SuccessCloses
    BY <1>2, <2>2 DEF SuccessClosed, SuccessCloses, Close
  <2>3. CASE IgnoredWhileOpen
    BY <1>2, <2>3 DEF IgnoredWhileOpen, breakerVars
  <2> QED
    BY <1>4, <2>1, <2>2, <2>3 DEF DialSucceeds, RecordSuccess
<1>5. ASSUME NEW o \in Offers, DialFails(o) PROVE CountsProbes'
  BY <1>1, <1>2, <1>5
  DEF DialFails, RecordDialFailure, OpenByDialFailure, Open, CountDialFailure,
      IgnoredWhileOpen, breakerVars, historyVars
<1>6. ASSUME NEW o \in Offers, ReportSilentEnd(o) PROVE CountsProbes'
  BY <1>1, <1>2, <1>6
  DEF ReportSilentEnd, RecordStreamFailure, OpenByStreamFailure, Open, CountStreamFailure,
      IgnoredWhileOpen, breakerVars, historyVars
<1>7. ASSUME NEW o \in Offers,
             \/ ReadClock(o) \/ AllowClosed(o) \/ RejectOpen(o) \/ AllowProbe(o)
             \/ RejectProbe(o) \/ RefuseReconnect(o) \/ FirstAudio(o) \/ EndHeard(o)
      PROVE  CountsProbes'
  BY <1>1, <1>7
  DEF ReadClock, AllowClosed, RejectOpen, AllowProbe, RejectProbe, RefuseReconnect,
      FirstAudio, EndHeard, breakerVars, historyVars
<1>8. CASE Tick \/ UpstreamChanges \/ UNCHANGED vars
  BY <1>1, <1>8 DEF Tick, UpstreamChanges, vars, breakerVars, historyVars
<1> QED
  BY <1>3, <1>4, <1>5, <1>6, <1>7, <1>8
  DEF Next, Gate, Dial, Session, StreamFails, HangUp

\* However late outcomes and probes interleave, a round without a late outcome
\* closes the circuit with HalfOpenSuccess probes of its own, or by the first
\* late success.
THEOREM CircuitClosesByProbes == Spec => ClosesByProbesUnlessLate
<1> DEFINE Closing == state = "half_open" /\ state' = "closed" /\ ~late =>
                        ClosedByProbes \/ ClosedByLateDial
<1>1. Init => CountsProbes
  BY DEF Init, CountsProbes
<1>2. GuardInv /\ CountsProbes /\ [Next]_vars => [Closing]_vars
  <2> SUFFICES ASSUME GuardInv, CountsProbes, Next,
                      state = "half_open", state' = "closed", ~late
               PROVE  ClosedByProbes \/ ClosedByLateDial
    BY DEF vars
  <2>1. PICK o \in Offers : DialSucceeds(o)
    BY DEF Next, Gate, Dial, Session, StreamFails, HangUp, ReadClock, AllowClosed,
           RejectOpen, AllowFirstProbe, AllowProbe, RejectProbe, RefuseReconnect,
           DialFails, RecordDialFailure, OpenByDialFailure, CountDialFailure,
           FirstAudio, ReportSilentEnd, RecordStreamFailure, OpenByStreamFailure,
           CountStreamFailure, IgnoredWhileOpen, Open, EndHeard, Tick,
           UpstreamChanges, breakerVars
  <2>2. pc[o] = "admitted" /\ pc'[o] = "silent"
    BY <2>1 DEF DialSucceeds, GuardInv, TypeOK
  <2>3. SuccessCloses
    BY <2>1 DEF DialSucceeds, RecordSuccess, SuccessClosed, SuccessCounted, IgnoredWhileOpen
  <2>4. wins + 1 >= HalfOpenSuccess
    BY <2>3 DEF SuccessCloses, CountsProbes
  <2> QED
    BY <2>2, <2>4 DEF ClosedByProbes, ClosedByLateDial
<1> QED
  BY <1>1, <1>2, NextCountsProbes, GuardInvariance, PTL DEF Spec, ClosesByProbesUnlessLate
----------------------------------------------------------------------------
(* The guard implements the abstract circuit breaker, step by step.        *)

\* The offers that are between admission and outcome.
Dialing == {o \in Offers : pc[o] = "admitted"}

\* The abstract breaker starts where the guard does.
LEMMA InitActsAsBreaker == Init => Promise!Init
<1> SUFFICES ASSUME Init PROVE Promise!Init
  OBVIOUS
<1>1. ~late /\ late \in BOOLEAN /\ probes = {} /\ wins = 0
  BY Zenon DEF Init
<1>2. state = "closed" /\ reopenIn = 0 /\ Dialing = {}
  BY DEF Init, Dialing
<1> QED
  BY <1>1, <1>2 DEF Promise!Init, Dialing

\* An offer that is admitted joins the dialling ones, one that is not admitted
\* any more leaves them, and no other is touched.
LEMMA DialingJoins ==
  ASSUME TypeOK, NEW o \in Offers, pc[o] # "admitted",
         pc' = [pc EXCEPT ![o] = "admitted"]
  PROVE  o \notin Dialing /\ Dialing' = Dialing \cup {o}
BY DEF TypeOK, Dialing

LEMMA DialingLeaves ==
  ASSUME TypeOK, NEW o \in Offers, NEW to, to # "admitted", pc[o] = "admitted",
         pc' = [pc EXCEPT ![o] = to]
  PROVE  o \in Dialing /\ Dialing' = Dialing \ {o}
BY DEF TypeOK, Dialing

LEMMA DialingStays ==
  ASSUME TypeOK, NEW o \in Offers, NEW to, to # "admitted", pc[o] # "admitted",
         pc' = [pc EXCEPT ![o] = to]
  PROVE  Dialing' = Dialing
BY DEF TypeOK, Dialing

\* Admission is the abstract breaker's: a free slot means that the round has no
\* probe out, or has gone astray.
LEMMA GateActsAsBreaker ==
  ASSUME GuardInv, NEW o \in Offers,
         AllowClosed(o) \/ AllowFirstProbe(o) \/ AllowProbe(o)
  PROVE  Promise!Admit(o)
<1>1. /\ o \notin Dialing
      /\ Dialing' = Dialing \cup {o}
      /\ UNCHANGED reopenIn
  BY DialingJoins DEF GuardInv, AllowClosed, AllowFirstProbe, AllowProbe, Admitted,
     breakerVars, TypeOK
<1>2. ASSUME AllowClosed(o) PROVE Promise!AdmitDial
  BY <1>2, Zenon DEF AllowClosed, breakerVars, historyVars, Promise!AdmitDial, Promise!roundVars
<1>3. ASSUME AllowFirstProbe(o) PROVE Promise!AdmitFirstProbe(o)
  <2>1. reopenIn <= 0
    BY <1>3, GuardAssumption DEF AllowFirstProbe, Elapsed, GuardInv, TypeOK
  <2> QED
    BY <1>3, <2>1, Zenon DEF AllowFirstProbe, Promise!AdmitFirstProbe, Promise!NewRound
<1>4. ASSUME AllowProbe(o) PROVE Promise!AdmitNextProbe(o)
  BY <1>4, Zenon DEF AllowProbe, GuardInv, Promise!AdmitNextProbe
<1> QED
  BY <1>1, <1>2, <1>3, <1>4, Zenon DEF Promise!Admit, Dialing

\* The success of a dial is the abstract breaker's: until a late outcome the
\* code's one counter is the number of probes that won.
LEMMA SuccessActsAsBreaker ==
  ASSUME GuardInv, CountsProbes, NEW o \in Offers, DialSucceeds(o)
  PROVE  Promise!Succeed(o)
<1>1. o \in Dialing /\ Dialing' = Dialing \ {o}
  BY DialingLeaves DEF GuardInv, DialSucceeds, TypeOK
<1>2. UNCHANGED reopenIn
  BY DEF DialSucceeds, RecordSuccess, SuccessClosed, SuccessCounted, SuccessCloses, Close,
     IgnoredWhileOpen, breakerVars
<1>3. state = "half_open" /\ o \in probes /\ ~late => success = wins
  BY DEF CountsProbes
<1>4. ASSUME SuccessClosed \/ IgnoredWhileOpen PROVE Promise!Ignored
  BY <1>4, Zenon DEF SuccessClosed, IgnoredWhileOpen, breakerVars, historyVars,
     Promise!Ignored, Promise!roundVars
<1>5. ASSUME SuccessCounted(o) PROVE Promise!Counted(o)
  <2>1. o \in probes /\ ~late => wins + 1 < HalfOpenSuccess
    BY <1>3, <1>5 DEF SuccessCounted
  <2> QED
    BY <1>5, <2>1, Zenon DEF SuccessCounted, Promise!Counted
<1>6. ASSUME SuccessCloses PROVE Promise!Completed(o)
  <2>1. late \/ o \notin probes \/ wins + 1 >= HalfOpenSuccess
    BY <1>3, <1>6 DEF SuccessCloses
  <2> QED
    BY <1>6, <2>1, Zenon DEF SuccessCloses, Close, EndRound, Promise!Completed, Promise!NewRound
<1>7. RecordSuccess(o)
  BY DEF DialSucceeds
<1> QED
  BY <1>1, <1>2, <1>4, <1>5, <1>6, <1>7, Zenon
  DEF RecordSuccess, Promise!Succeed, Promise!Leaves, Dialing

\* Whatever opens the circuit is the abstract breaker's trip.
LEMMA OpenTrips ==
  ASSUME NEW why, NEW until \in Int, state # "open", Open(why, until), EndRound
  PROVE  Promise!Trip
BY Zenon DEF Open, EndRound, Promise!Trip, Promise!NewRound

\* So is the failure of a dial ...
LEMMA FailureActsAsBreaker ==
  ASSUME GuardInv, NEW o \in Offers, DialFails(o)
  PROVE  Promise!Fail(o)
<1> DEFINE why == IF upstream = "denied" THEN "auth" ELSE "dial"
<1>1. o \in Dialing /\ Dialing' = Dialing \ {o}
  BY DialingLeaves DEF GuardInv, DialFails, Refused, TypeOK
<1>2. HoldFor(why) \in Int /\ Hence(HoldFor(why), clockAge[o]) \in Int
  BY GuardAssumption DEF GuardInv, TypeOK, HoldFor, Hence
<1>3. RecordDialFailure(why, clockAge[o])
  BY DEF DialFails
<1> HIDE DEF why
<1>4. ASSUME OpenByDialFailure(why, clockAge[o]) PROVE Promise!Trip
  BY <1>2, <1>4, OpenTrips DEF OpenByDialFailure
<1>5. ASSUME CountDialFailure(why) \/ IgnoredWhileOpen
      PROVE  Promise!Ignored /\ UNCHANGED reopenIn
  BY <1>5, Zenon DEF CountDialFailure, IgnoredWhileOpen, breakerVars, historyVars,
     Promise!Ignored, Promise!roundVars
<1> QED
  BY <1>1, <1>3, <1>4, <1>5, Zenon
  DEF RecordDialFailure, Promise!Fail, Promise!Leaves, Dialing

\* ... and the early end of a session, which is not one of its callers.
LEMMA SilentEndActsAsBreaker ==
  ASSUME GuardInv, NEW o \in Offers, ReportSilentEnd(o)
  PROVE  Promise!Fault \/ UNCHANGED Promise!vars
<1>1. Dialing' = Dialing
  BY DialingStays DEF GuardInv, ReportSilentEnd, TypeOK
<1>2. Hence(OpenFor, 0) \in Int
  BY GuardAssumption DEF Hence
<1>3. ASSUME OpenByStreamFailure PROVE Promise!Trip
  BY <1>2, <1>3, OpenTrips DEF OpenByStreamFailure
<1>4. ASSUME CountStreamFailure \/ IgnoredWhileOpen \/ UNCHANGED <<breakerVars, historyVars>>
      PROVE  UNCHANGED <<state, reopenIn, probes, wins, late>>
  BY <1>4, Zenon DEF CountStreamFailure, IgnoredWhileOpen, breakerVars, historyVars
<1> QED
  BY <1>1, <1>3, <1>4, Zenon
  DEF ReportSilentEnd, RecordStreamFailure, Promise!Fault, Promise!vars,
      Promise!roundVars, Dialing

\* A refused reconnect gives its admission up; outside a round no probe is out.
LEMMA RefusalActsAsBreaker ==
  ASSUME GuardInv, NEW o \in Offers, RefuseReconnect(o)
  PROVE  Promise!GiveUp(o)
<1>1. o \in Dialing /\ Dialing' = Dialing \ {o}
  BY DialingLeaves DEF GuardInv, RefuseReconnect, Refused, TypeOK
<1> QED
  BY <1>1, Zenon DEF RefuseReconnect, breakerVars, Promise!GiveUp, Promise!Leaves, Dialing

\* Every step of the guard is a step, or a stutter, of the abstract breaker.
LEMMA NextActsAsBreaker ==
  GuardInv /\ CountsProbes /\ [Next]_vars => [Promise!Next]_Promise!vars
<1> SUFFICES ASSUME GuardInv, CountsProbes, [Next]_vars
             PROVE  Promise!Next \/ UNCHANGED Promise!vars
  BY Zenon
<1>1. ASSUME Dialing' = Dialing, UNCHANGED <<state, reopenIn, probes, wins, late>>
      PROVE  UNCHANGED Promise!vars
  BY <1>1, Zenon DEF Promise!vars, Promise!roundVars, Dialing
<1>2. ASSUME NEW o \in Offers, Gate(o) PROVE Promise!Next \/ UNCHANGED Promise!vars
  <2>1. CASE RejectOpen(o) \/ RejectProbe(o)
    <3>1. Dialing' = Dialing
      BY <2>1, DialingStays DEF GuardInv, RejectOpen, RejectProbe, Refused, TypeOK
    <3> QED
      BY <1>1, <2>1, <3>1, Zenon DEF RejectOpen, RejectProbe, breakerVars, historyVars
  <2>2. CASE AllowClosed(o) \/ AllowFirstProbe(o) \/ AllowProbe(o)
    BY <2>2, GateActsAsBreaker, Zenon DEF Promise!Next
  <2> QED
    BY <1>2, <2>1, <2>2 DEF Gate
<1>3. ASSUME NEW o \in Offers, Dial(o) \/ RefuseReconnect(o) PROVE Promise!Next
  BY <1>3, SuccessActsAsBreaker, FailureActsAsBreaker, RefusalActsAsBreaker, Zenon
  DEF Dial, Promise!Next
<1>4. ASSUME NEW o \in Offers, StreamFails(o) \/ HangUp(o)
      PROVE  Promise!Next \/ UNCHANGED Promise!vars
  BY <1>4, SilentEndActsAsBreaker, Zenon DEF StreamFails, HangUp, Promise!Next
<1>5. ASSUME NEW o \in Offers, ReadClock(o) \/ FirstAudio(o) \/ EndHeard(o)
      PROVE  UNCHANGED Promise!vars
  <2>1. Dialing' = Dialing
    BY <1>5, DialingStays DEF GuardInv, ReadClock, FirstAudio, EndHeard, TypeOK
  <2> QED
    BY <1>1, <1>5, <2>1, Zenon DEF ReadClock, FirstAudio, EndHeard, breakerVars, historyVars
<1>6. CASE Tick
  <2>1. Dialing' = Dialing
    BY <1>6 DEF Tick, Dialing
  <2>2. reopenIn' < reopenIn \/ reopenIn' = reopenIn
    BY <1>6 DEF Tick, GuardInv, TypeOK
  <2>3. UNCHANGED <<state, probes, wins, late>>
    BY <1>6, Zenon DEF Tick, historyVars
  <2>4. ASSUME reopenIn' < reopenIn PROVE Promise!Wait
    BY <2>1, <2>3, <2>4, Zenon DEF Promise!Wait, Promise!roundVars, Dialing
  <2> QED
    BY <1>1, <2>1, <2>2, <2>3, <2>4, Zenon DEF Promise!Next
<1>7. CASE UpstreamChanges \/ UNCHANGED vars
  <2>1. Dialing' = Dialing
    BY <1>7 DEF UpstreamChanges, vars, Dialing
  <2> QED
    BY <1>1, <1>7, <2>1, Zenon DEF UpstreamChanges, vars, breakerVars, historyVars
<1> QED
  BY <1>2, <1>3, <1>4, <1>5, <1>6, <1>7, Zenon DEF Next, Session

\* For any number of offers and any configuration the guard is the circuit
\* breaker the offer path counts on: at most one probe at a time, and no end of
\* a round but by its own probes or by a failure, unless a late outcome was
\* counted; and an open circuit that no outcome touches.
THEOREM GuardActsAsBreaker == Spec => ActsAsBreaker
<1>1. Init => CountsProbes
  BY DEF Init, CountsProbes
<1> QED
  BY <1>1, InitActsAsBreaker, NextActsAsBreaker, NextCountsProbes, GuardInvariance, PTL
  DEF Spec, ActsAsBreaker, Promise!Spec
=============================================================================
