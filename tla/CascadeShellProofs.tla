-------------------------- MODULE CascadeShellProofs --------------------------
(***************************************************************************)
(* Proofs about CascadeShell: its types, and that an audio source is       *)
(* closed once, for any number of sources and any capacity.                *)
(*                                                                         *)
(* ReleasedOnce is not inductive: what keeps a second close away is that   *)
(* the three who close a source, Recv at its end, SetAudioSource and       *)
(* Close, each take it out of the mix first, so that whoever has it in     *)
(* hand is alone with it.  Custody says who that is.                       *)
(***************************************************************************)
EXTENDS CascadeShell, TLAPS

\* Close has taken s and not closed it yet.
InRelease(s) == close = "release" /\ released = s

\* A source that was set and is not closed is in one pair of hands: it is the
\* active one, a call of SetAudioSource has replaced it, or Close has it.
Custody(s) ==
  /\ closes[s] \in {0, 1}
  /\ audioSrc = s => s \in used /\ closes[s] = 0 /\ s \notin replaced /\ ~InRelease(s)
  /\ s \in replaced => s \in used /\ closes[s] = 0 /\ ~InRelease(s)
  /\ InRelease(s) => s \in used /\ closes[s] = 0
  /\ closes[s] = 1 => s \in used
  /\ s \in used /\ closes[s] = 0 => audioSrc = s \/ s \in replaced \/ InRelease(s)

\* What is active once Close has looked was set too late.
ActiveIsLate ==
  close \in {"release", "returned"} /\ audioSrc # None => audioSrc \in late

\* Recv gives up a source only after it has looked one up.
ReadsASource == pump \in {"read", "clear"} => reading # None

IInv ==
  /\ TypeOK
  /\ \A s \in Sources : Custody(s)
  /\ ActiveIsLate
  /\ ReadsASource

\* A count of closes stays one.
LEMMA ClosedOK ==
  ASSUME closes \in [Sources -> Nat], NEW s, Closed(s)
  PROVE  closes' \in [Sources -> Nat]
<1>1. closes' = [t \in Sources |-> IF t = s THEN closes[s] + 1 ELSE closes[t]]
  BY DEF Closed
<1>2. \A t \in Sources : (IF t = s THEN closes[s] + 1 ELSE closes[t]) \in Nat
  OBVIOUS
<1> QED BY <1>1, <1>2

\* Whoever has closed a source has done so once.
LEMMA CustodyGivesReleasedOnce == IInv => ReleasedOnce
<1> SUFFICES ASSUME IInv, NEW s \in Sources
             PROVE  /\ closes[s] <= 1
                    /\ audioSrc = s => closes[s] = 0
                    /\ close = "returned" /\ s \in used => closes[s] = 1 \/ s \in replaced \cup late
  BY DEF ReleasedOnce
<1>1. Custody(s) /\ ActiveIsLate /\ s # None
  BY ShellAssumption DEF IInv
<1>2. close = "returned" => ~InRelease(s)
  BY DEF InRelease
<1> QED BY <1>1, <1>2 DEF Custody, ActiveIsLate

\* The invariant holds initially.
LEMMA InitIInv == Init => IInv
BY ShellAssumption DEF Init, IInv, TypeOK, Custody, InRelease, ActiveIsLate, ReadsASource

\* Every step keeps the types, and a reader its source.
LEMMA NextTypeOK ==
  ASSUME TypeOK, ReadsASource, [Next]_vars
  PROVE  TypeOK' /\ ReadsASource'
<1> DEFINE Goal == TypeOK' /\ ReadsASource'
<1> SUFFICES Goal
  OBVIOUS
<1> USE ShellAssumption DEF TypeOK, ReadsASource, buildVars, asrVars, inputVars, pumpVars, mixVars, closeVars
<1>1. CASE DialASR
  BY <1>1 DEF DialASR
<1>2. CASE LoadSpeaker
  BY <1>2 DEF LoadSpeaker
<1>3. CASE LoadFails
  BY <1>3 DEF LoadFails
<1>4. CASE Abandon
  BY <1>4 DEF Abandon
<1>5. CASE Break
  BY <1>5 DEF Break
<1>6. CASE Hear
  BY <1>6 DEF Hear
<1>7. CASE Emit
  BY <1>7 DEF Emit
<1>8. CASE ListenerFails
  BY <1>8 DEF ListenerFails
<1>9. CASE ListenerEnds
  BY <1>9 DEF ListenerEnds
<1>10. CASE StopASR
  BY <1>10 DEF StopASR
<1>11. CASE ShutConn
  BY <1>11 DEF ShutConn
<1>12. CASE JoinListener
  BY <1>12 DEF JoinListener
<1>13. CASE TakeEvent
  BY <1>13 DEF TakeEvent
<1>14. CASE TakeText
  BY <1>14 DEF TakeText
<1>15. CASE TakeReply
  BY <1>15 DEF TakeReply
<1>16. CASE Captioned
  BY <1>16 DEF Captioned
<1>17. CASE Hushed
  BY <1>17 DEF Hushed
<1>18. CASE RunEnds
  BY <1>18 DEF RunEnds
<1>19. CASE Speak
  BY <1>19 DEF Speak
<1>20. CASE SendText
  BY <1>20 DEF SendText
<1>21. CASE TextSent
  BY <1>21 DEF TextSent
<1>22. CASE RecvLooks
  BY <1>22 DEF RecvLooks
<1>23. CASE ClearSource
  BY <1>23, ClosedOK DEF ClearSource
<1>24. CASE RecvSpeech
  BY <1>24 DEF RecvSpeech
<1>25. CASE RecvEOF
  BY <1>25 DEF RecvEOF
<1>26. CASE ReadSource
  BY <1>26 DEF ReadSource
<1>27. CASE SourceEnds
  BY <1>27 DEF SourceEnds
<1>28. ASSUME NEW s \in Sources \cup {None}, SetAudioSource(s) PROVE Goal
  BY <1>28 DEF SetAudioSource
<1>29. ASSUME NEW s \in Sources, CloseReplaced(s) PROVE Goal
  BY <1>29, ClosedOK DEF CloseReplaced
<1>30. CASE Cancel
  BY <1>30 DEF Cancel
<1>31. CASE RunJoined
  BY <1>31 DEF RunJoined
<1>32. CASE StagesClosed
  BY <1>32 DEF StagesClosed
<1>33. CASE TakeSource
  BY <1>33 DEF TakeSource
<1>34. CASE ReleaseSource
  BY <1>34, ClosedOK DEF ReleaseSource
<1>35. CASE UNCHANGED vars
  BY <1>35 DEF vars
<1> HIDE DEF Goal, TypeOK, ReadsASource
<1> QED
  BY <1>1, <1>2, <1>3, <1>4, <1>5, <1>6, <1>7, <1>8, <1>9, <1>10, <1>11, <1>12, <1>13, <1>14, <1>15, <1>16, <1>17, <1>18, <1>19, <1>20, <1>21, <1>22, <1>23, <1>24, <1>25, <1>26, <1>27, <1>28, <1>29, <1>30, <1>31, <1>32, <1>33, <1>34, <1>35, Zenon
  DEF Next, New, Listener, CloseASR, Run, Pump, Close

\* What the sources' custody depends on.
custodyVars == <<mixVars, closeVars>>

\* A step that changes nothing of the mix and of Close leaves custody alone.
LEMMA CustodyUnchanged ==
  ASSUME UNCHANGED custodyVars
  PROVE  /\ \A s \in Sources : Custody(s) => Custody(s)'
         /\ ActiveIsLate => ActiveIsLate'
BY DEF custodyVars, mixVars, closeVars, Custody, InRelease, ActiveIsLate

\* Every step leaves each source in one pair of hands.
LEMMA NextCustody ==
  ASSUME IInv, [Next]_vars
  PROVE  (\A s \in Sources : Custody(s)') /\ ActiveIsLate'
<1> DEFINE Goal == (\A s \in Sources : Custody(s)') /\ ActiveIsLate'
<1> SUFFICES Goal
  OBVIOUS
<1> USE ShellAssumption
<1>0. TypeOK /\ (\A s \in Sources : Custody(s)) /\ ActiveIsLate /\ ReadsASource
  BY DEF IInv
<1>1. CASE DialASR
  BY <1>1, <1>0, CustodyUnchanged DEF DialASR, custodyVars
<1>2. CASE LoadSpeaker
  BY <1>2, <1>0, CustodyUnchanged DEF LoadSpeaker, custodyVars
<1>3. CASE LoadFails
  BY <1>3, <1>0, CustodyUnchanged DEF LoadFails, custodyVars
<1>4. CASE Abandon
  BY <1>4, <1>0, CustodyUnchanged DEF Abandon, custodyVars
<1>5. CASE Break
  BY <1>5, <1>0, CustodyUnchanged DEF Break, custodyVars
<1>6. CASE Hear
  BY <1>6, <1>0, CustodyUnchanged DEF Hear, custodyVars
<1>7. CASE Emit
  BY <1>7, <1>0, CustodyUnchanged DEF Emit, custodyVars
<1>8. CASE ListenerFails
  BY <1>8, <1>0, CustodyUnchanged DEF ListenerFails, custodyVars
<1>9. CASE ListenerEnds
  BY <1>9, <1>0, CustodyUnchanged DEF ListenerEnds, custodyVars
<1>10. CASE StopASR
  BY <1>10, <1>0, CustodyUnchanged DEF StopASR, custodyVars
<1>11. CASE ShutConn
  BY <1>11, <1>0, CustodyUnchanged DEF ShutConn, custodyVars
<1>12. CASE JoinListener
  BY <1>12, <1>0, CustodyUnchanged DEF JoinListener, custodyVars
<1>13. CASE TakeEvent
  BY <1>13, <1>0, CustodyUnchanged DEF TakeEvent, custodyVars
<1>14. CASE TakeText
  BY <1>14, <1>0, CustodyUnchanged DEF TakeText, custodyVars
<1>15. CASE TakeReply
  BY <1>15, <1>0, CustodyUnchanged DEF TakeReply, custodyVars
<1>16. CASE Captioned
  BY <1>16, <1>0, CustodyUnchanged DEF Captioned, custodyVars
<1>17. CASE Hushed
  BY <1>17, <1>0, CustodyUnchanged DEF Hushed, custodyVars
<1>18. CASE RunEnds
  BY <1>18, <1>0, CustodyUnchanged DEF RunEnds, custodyVars
<1>19. CASE Speak
  BY <1>19, <1>0, CustodyUnchanged DEF Speak, custodyVars
<1>20. CASE SendText
  BY <1>20, <1>0, CustodyUnchanged DEF SendText, custodyVars
<1>21. CASE TextSent
  BY <1>21, <1>0, CustodyUnchanged DEF TextSent, custodyVars
<1>22. CASE RecvLooks
  BY <1>22, <1>0, CustodyUnchanged DEF RecvLooks, custodyVars
<1>23. CASE ClearSource
  BY <1>23, <1>0 DEF ClearSource, TypeOK, Custody, InRelease, ActiveIsLate, ReadsASource, mixVars, closeVars, Closed
<1>24. CASE RecvSpeech
  BY <1>24, <1>0, CustodyUnchanged DEF RecvSpeech, custodyVars
<1>25. CASE RecvEOF
  BY <1>25, <1>0, CustodyUnchanged DEF RecvEOF, custodyVars
<1>26. CASE ReadSource
  BY <1>26, <1>0, CustodyUnchanged DEF ReadSource, custodyVars
<1>27. CASE SourceEnds
  BY <1>27, <1>0, CustodyUnchanged DEF SourceEnds, custodyVars
<1>28. ASSUME NEW t \in Sources \cup {None}, SetAudioSource(t) PROVE Goal
  BY <1>28, <1>0 DEF SetAudioSource, TypeOK, Custody, InRelease, ActiveIsLate, ReadsASource, mixVars, closeVars
<1>29. ASSUME NEW t \in Sources, CloseReplaced(t) PROVE Goal
  BY <1>29, <1>0 DEF CloseReplaced, TypeOK, Custody, InRelease, ActiveIsLate, ReadsASource, mixVars, closeVars, Closed
<1>30. CASE Cancel
  BY <1>30, <1>0 DEF Cancel, TypeOK, Custody, InRelease, ActiveIsLate, ReadsASource, mixVars, closeVars
<1>31. CASE RunJoined
  BY <1>31, <1>0 DEF RunJoined, TypeOK, Custody, InRelease, ActiveIsLate, ReadsASource, mixVars, closeVars
<1>32. CASE StagesClosed
  BY <1>32, <1>0 DEF StagesClosed, TypeOK, Custody, InRelease, ActiveIsLate, ReadsASource, mixVars, closeVars
<1>33. CASE TakeSource
  BY <1>33, <1>0 DEF TakeSource, TypeOK, Custody, InRelease, ActiveIsLate, ReadsASource, mixVars, closeVars
<1>34. CASE ReleaseSource
  BY <1>34, <1>0 DEF ReleaseSource, TypeOK, Custody, InRelease, ActiveIsLate, ReadsASource, mixVars, closeVars, Closed
<1>35. CASE UNCHANGED vars
  BY <1>35, <1>0, CustodyUnchanged DEF vars, custodyVars
<1> HIDE DEF Goal
<1> QED
  BY <1>1, <1>2, <1>3, <1>4, <1>5, <1>6, <1>7, <1>8, <1>9, <1>10, <1>11, <1>12, <1>13, <1>14, <1>15, <1>16, <1>17, <1>18, <1>19, <1>20, <1>21, <1>22, <1>23, <1>24, <1>25, <1>26, <1>27, <1>28, <1>29, <1>30, <1>31, <1>32, <1>33, <1>34, <1>35, Zenon
  DEF Next, New, Listener, CloseASR, Run, Pump, Close

\* Every step keeps the invariant.
LEMMA NextIInv == IInv /\ [Next]_vars => IInv'
<1> SUFFICES ASSUME IInv, [Next]_vars PROVE IInv'
  OBVIOUS
<1>1. TypeOK' /\ ReadsASource'
  BY NextTypeOK, Zenon DEF IInv
<1>2. (\A s \in Sources : Custody(s)') /\ ActiveIsLate'
  BY NextCustody, Zenon
<1> QED BY <1>1, <1>2, Zenon DEF IInv

\* The types hold in every state, whatever the capacities.
THEOREM ShellTypes == Spec => []TypeOK
<1>1. IInv => TypeOK
  BY DEF IInv
<1> QED BY InitIInv, NextIInv, <1>1, PTL DEF Spec

\* An audio source is closed once, never while it is the active one, and none
\* that was set in time is left open by Close: the locking of Recv,
\* SetAudioSource and Close (cascade/model.go), for any number of sources.
THEOREM ShellReleasedOnce == Spec => []ReleasedOnce
BY InitIInv, NextIInv, CustodyGivesReleasedOnce, PTL DEF Spec
=============================================================================
