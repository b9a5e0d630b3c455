--------------------------- MODULE CascadeProofs ---------------------------
(***************************************************************************)
(* Proofs about the cascade, for any capacities of its channels and any    *)
(* number of inputs: its turns, its barge-in, what starts a response, that *)
(* Close is never stuck, and that its responses are those of ResponseLife. *)
(***************************************************************************)
EXTENDS Cascade, FiniteSets, FiniteSetTheorems, FunctionTheorems, SequenceTheorems, SequencesExt, TLAPS

\* The partial that run() is captioning has a text.
Captioned == at = "partial" => partial.text \in Texts

\* What run() knows of the history: an active speculation has a turn, and the
\* tentative turn is the last one.
CascadeInv ==
  /\ TypeOK
  /\ Captioned
  /\ speculative => history # <<>>
  /\ SpeculationIsLast

\* removeSpeculative leaves a prefix of the history.
LEMMA WithoutSpeculativeType ==
  ASSUME history \in Seq(Turn)
  PROVE  /\ WithoutSpeculative \in Seq(Turn)
         /\ Len(WithoutSpeculative) <= Len(history)
         /\ \A k \in 1..Len(WithoutSpeculative) : WithoutSpeculative[k] = history[k]
         /\ speculative /\ history # <<>> => Len(WithoutSpeculative) = Len(history) - 1
         /\ ~speculative => WithoutSpeculative = history
<1>1. CASE speculative /\ history # <<>>
  <2> DEFINE h == SubSeq(history, 1, Len(history) - 1)
  <2>1. WithoutSpeculative = h
    BY <1>1 DEF WithoutSpeculative
  <2>2. Len(history) \in Nat /\ Len(history) > 0
    BY <1>1
  <2>3. h \in Seq(Turn) /\ Len(h) = Len(history) - 1
    <3> DEFINE n == Len(history) - 1
    <3>1. 1 \in Int /\ n \in Int /\ 1 <= n + 1 /\ \A i \in 1..n : history[i] \in Turn
      BY <2>2
    <3> HIDE DEF n
    <3>2. /\ SubSeq(history, 1, n) \in Seq(Turn)
          /\ Len(SubSeq(history, 1, n)) = IF 1 <= n THEN n - 1 + 1 ELSE 0
      BY <3>1, SubSeqProperties
    <3>3. Len(SubSeq(history, 1, n)) = n
      BY <3>1, <3>2
    <3> QED BY <3>2, <3>3 DEF n
  <2>4. \A k \in 1..Len(h) : h[k] = history[k]
    BY <2>2, <2>3, SubSeqProperties
  <2> HIDE DEF h
  <2>5. Len(h) <= Len(history)
    BY <2>2, <2>3
  <2> QED BY <1>1, <2>1, <2>3, <2>4, <2>5, Zenon
<1>2. CASE ~(speculative /\ history # <<>>)
  <2>1. WithoutSpeculative = history
    BY <1>2 DEF WithoutSpeculative
  <2> QED BY <1>2, <2>1
<1> QED BY <1>1, <1>2

\* What is left of the history was said, unless a speculation was overtaken.
LEMMA WithoutSpeculativeSaid ==
  ASSUME CascadeInv, ~overtaken
  PROVE  \A k \in 1..Len(WithoutSpeculative) : WithoutSpeculative[k].role # "tentative"
<1>1. history \in Seq(Turn)
  BY DEF CascadeInv, TypeOK
<1>2. \A k \in 1..Len(history) :
        history[k].role = "tentative" <=> speculative /\ k = Len(history)
  BY DEF CascadeInv, SpeculationIsLast
<1>3. CASE speculative
  <2>1. history # <<>>
    BY <1>3 DEF CascadeInv
  <2> QED BY <1>1, <1>2, <1>3, <2>1, WithoutSpeculativeType
<1>4. CASE ~speculative
  BY <1>1, <1>2, <1>4, WithoutSpeculativeType
<1> QED BY <1>3, <1>4

\* The types, Boolean variables apart.
BooleansOK ==
  /\ speculative \in BOOLEAN
  /\ pending \in BOOLEAN
  /\ timer \in BOOLEAN
  /\ overtaken \in BOOLEAN
  /\ missed \in BOOLEAN
  /\ due \in BOOLEAN

ValuesOK ==
  /\ at \in {"select", "partial", "send", "silence", "final", "typed", "reply", "exited"}
  /\ partial \in [text : Texts \cup {None}, stable : BOOLEAN]
  /\ history \in Seq(Turn)
  /\ lastUserText \in Texts \cup {None}
  /\ loose \in Nat
  /\ resp \in [Responses -> {"idle", "spawned", "speaking", "reply", "done"}]
  /\ cancelled \in SUBSET Responses
  /\ gen \in Responses \cup {0}
  /\ awaited \in Responses \cup {0}
  /\ recvCh \in Seq(Responses) /\ Len(recvCh) <= AudioCap
  /\ transcripts \in 0..TranscriptCap
  /\ modelTurnCh \in Seq(Responses) /\ Len(modelTurnCh) <= ModelTurnCap
  /\ close \in {"no", "waiting", "closed"}
  /\ events \in Nat
  /\ hushed \in SUBSET Responses

\* The two parts together are the types.
LEMMA TypeParts == (TypeOK <=> BooleansOK /\ ValuesOK) /\ (TypeOK' <=> BooleansOK' /\ ValuesOK')
BY Zenon DEF TypeOK, BooleansOK, ValuesOK

\* The invariant holds initially.
LEMMA InitCascadeInv == Init => CascadeInv
<1> SUFFICES ASSUME Init PROVE CascadeInv
  OBVIOUS
<1>1. BooleansOK
  BY Zenon DEF Init, BooleansOK
<1>2. ValuesOK
  BY CascadeAssumption DEF Init, ValuesOK, NoPartial
<1>3. SpeculationIsLast
  BY DEF Init, SpeculationIsLast
<1>4. ~speculative /\ Captioned
  BY DEF Init, Captioned
<1> QED BY <1>1, <1>2, <1>3, <1>4, TypeParts, Zenon DEF CascadeInv

\* Every step of the cascade keeps the flags Boolean.
LEMMA NextBooleansOK ==
  ASSUME BooleansOK, [Next]_vars
  PROVE  BooleansOK'
<1> USE DEF BooleansOK, turnVars, timerVars, respondVars, channelVars, historyVars
<1>1. CASE HearPartial
  BY <1>1, Zenon DEF HearPartial, Input, Goto
<1>2. CASE DropPartial
  BY <1>2, Zenon DEF DropPartial, Emit, CancelPending, NoPartial
<1>3. CASE SendPending
  BY <1>3, Zenon DEF SendPending, Goto
<1>4. CASE HearSpeech
  BY <1>4, Zenon DEF HearSpeech, Input, Goto, CancelPending
<1>5. CASE Silence
  BY <1>5, Zenon DEF Silence, Goto
<1>6. CASE HearDuplicate
  BY <1>6, Zenon DEF HearDuplicate, Input
<1>7. CASE HearConfirmed
  BY <1>7, Zenon DEF HearConfirmed, Input, CancelPending
<1>8. CASE HearFinal
  BY <1>8, Zenon DEF HearFinal, Input, Goto, CancelPending
<1>9. CASE SchedulePending
  BY <1>9, Zenon DEF SchedulePending, Goto, Emit
<1>10. CASE ReadText
  BY <1>10, Zenon DEF ReadText, Input, Goto, AppendTurn
<1>11. CASE RespondToText
  BY <1>11, Zenon DEF RespondToText, Goto, Emit, StartRespond
<1>12. CASE RespondToPending
  BY <1>12, Zenon DEF RespondToPending, StartRespond
<1>13. CASE Restore
  BY <1>13, Zenon DEF Restore, Input, AppendTurn
<1>14. CASE ReadReply
  BY <1>14, Zenon DEF ReadReply, Goto, AppendTurn
<1>15. CASE EmitReply
  BY <1>15, Zenon DEF EmitReply, Goto, Emit
<1>16. CASE Exit
  BY <1>16, Zenon DEF Exit, Goto
<1>17. CASE TimerFires
  BY <1>17, Zenon DEF TimerFires
<1>18. CASE LooseExits
  BY <1>18, Zenon DEF LooseExits
<1>19. CASE TimerExits
  BY <1>19, Zenon DEF TimerExits
<1>20. ASSUME NEW r \in Responses, Register(r) PROVE BooleansOK'
  BY <1>20, Zenon DEF Register, Becomes
<1>21. ASSUME NEW r \in Responses, Speak(r) PROVE BooleansOK'
  BY <1>21, Zenon DEF Speak
<1>22. ASSUME NEW r \in Responses, StopSpeaking(r) PROVE BooleansOK'
  BY <1>22, Zenon DEF StopSpeaking, Becomes
<1>23. ASSUME NEW r \in Responses, HandOver(r) PROVE BooleansOK'
  BY <1>23, Zenon DEF HandOver, Becomes
<1>24. CASE Recv
  BY <1>24, Zenon DEF Recv
<1>25. CASE RecvTranscript
  BY <1>25, Zenon DEF RecvTranscript
<1>26. CASE Close
  BY <1>26, Zenon DEF Close
<1>27. CASE WaitDone
  BY <1>27, Zenon DEF WaitDone
<1>28. CASE UNCHANGED vars
  BY <1>28, Zenon DEF vars
<1> QED
  BY <1>1, <1>2, <1>3, <1>4, <1>5, <1>6, <1>7, <1>8, <1>9, <1>10, <1>11, <1>12, <1>13, <1>14, <1>15, <1>16, <1>17, <1>18, <1>19, <1>20, <1>21, <1>22, <1>23, <1>24, <1>25, <1>26, <1>27, <1>28, Zenon
  DEF Next, Hear, Continue, Timers, Respond

\* A turn of the history, or none, is replaced by another.
LEMMA ExceptTurn ==
  ASSUME NEW S, NEW h \in Seq(S), NEW i, NEW e \in S
  PROVE  /\ [h EXCEPT ![i] = e] \in Seq(S)
         /\ Len([h EXCEPT ![i] = e]) = Len(h)
         /\ \A k \in 1..Len(h) : [h EXCEPT ![i] = e][k] = IF k = i THEN e ELSE h[k]
<1>1. CASE i \in 1..Len(h)
  BY <1>1, ExceptSeq
<1>2. CASE i \notin 1..Len(h)
  <2>1. [h EXCEPT ![i] = e] = h
    BY <1>2
  <2> QED BY <1>2, <2>1
<1> QED BY <1>1, <1>2

\* Every step of the cascade keeps the other types.
LEMMA NextValuesOK ==
  ASSUME CascadeInv, [Next]_vars
  PROVE  ValuesOK' /\ Captioned'
<1> USE CascadeAssumption DEF ValuesOK, Captioned, turnVars, timerVars, respondVars, channelVars, historyVars
<1>a. ValuesOK /\ Captioned
  BY TypeParts, Zenon DEF CascadeInv
<1>b. history \in Seq(Turn) /\ WithoutSpeculative \in Seq(Turn)
  BY <1>a, WithoutSpeculativeType
<1>1. CASE HearPartial
  BY <1>1, <1>a, <1>b DEF HearPartial, Input, Goto
<1>2. CASE DropPartial
  <2>1. TentativeTurn(partial.text) \in Turn
    BY <1>2, <1>a DEF DropPartial, TentativeTurn, Turn
  <2>2. at' \in {"send", "select"} /\ history' \in Seq(Turn)
    BY <1>2, <1>b, <2>1 DEF DropPartial
  <2>3. transcripts' \in 0..TranscriptCap
    BY <1>2, <1>a DEF DropPartial, Emit
  <2>4. partial' \in [text : Texts \cup {None}, stable : BOOLEAN] /\ loose' \in Nat
    BY <1>2, <1>a DEF DropPartial, CancelPending, NoPartial
  <2> QED BY <1>2, <1>a, <2>2, <2>3, <2>4 DEF DropPartial
<1>3. CASE SendPending
  BY <1>3, <1>a, <1>b DEF SendPending, Goto
<1>4. CASE HearSpeech
  BY <1>4, <1>a, <1>b DEF HearSpeech, Input, Goto, CancelPending
<1>5. CASE Silence
  BY <1>5, <1>a, <1>b DEF Silence, Goto
<1>6. CASE HearDuplicate
  BY <1>6, <1>a, <1>b DEF HearDuplicate, Input
<1>7. CASE HearConfirmed
  <2>1. PICK t \in Texts : history' = [history EXCEPT ![Len(history)] = UserTurn(t)]
                           /\ lastUserText' = t /\ UNCHANGED <<at, partial>>
    BY <1>7, Zenon DEF HearConfirmed
  <2>2. UserTurn(t) \in Turn
    BY DEF UserTurn, Turn
  <2>3. history' \in Seq(Turn)
    BY <1>b, <2>1, <2>2, ExceptTurn
  <2> QED BY <1>7, <1>a, <2>1, <2>3 DEF HearConfirmed, Input, CancelPending
<1>8. CASE HearFinal
  BY <1>8, <1>a, <1>b DEF HearFinal, Input, Goto, CancelPending, UserTurn, Turn
<1>9. CASE SchedulePending
  BY <1>9, <1>a, <1>b DEF SchedulePending, Goto, Emit
<1>10. CASE ReadText
  BY <1>10, <1>a, <1>b DEF ReadText, Input, Goto, AppendTurn, UserTurn, Turn
<1>11. CASE RespondToText
  BY <1>11, <1>a, <1>b DEF RespondToText, Goto, Emit, StartRespond
<1>12. CASE RespondToPending
  BY <1>12, <1>a, <1>b DEF RespondToPending, StartRespond
<1>13. CASE Restore
  BY <1>13, <1>a, <1>b DEF Restore, Input, AppendTurn, UserTurn, Turn
<1>14. CASE ReadReply
  BY <1>14, <1>a, <1>b DEF ReadReply, Goto, AppendTurn, ModelTurn, Turn
<1>15. CASE EmitReply
  BY <1>15, <1>a, <1>b DEF EmitReply, Goto, Emit
<1>16. CASE Exit
  BY <1>16, <1>a, <1>b DEF Exit, Goto
<1>17. CASE TimerFires
  BY <1>17, <1>a, <1>b DEF TimerFires
<1>18. CASE LooseExits
  BY <1>18, <1>a, <1>b DEF LooseExits
<1>19. CASE TimerExits
  BY <1>19, <1>a, <1>b DEF TimerExits
<1>20. ASSUME NEW r \in Responses, Register(r) PROVE ValuesOK' /\ Captioned'
  BY <1>20, <1>a DEF Register, Becomes
<1>21. ASSUME NEW r \in Responses, Speak(r) PROVE ValuesOK' /\ Captioned'
  BY <1>21, <1>a DEF Speak
<1>22. ASSUME NEW r \in Responses, StopSpeaking(r) PROVE ValuesOK' /\ Captioned'
  BY <1>22, <1>a DEF StopSpeaking, Becomes
<1>23. ASSUME NEW r \in Responses, HandOver(r) PROVE ValuesOK' /\ Captioned'
  <2>1. modelTurnCh' \in Seq(Responses) /\ Len(modelTurnCh') <= ModelTurnCap
    <3>1. CASE modelTurnCh' = modelTurnCh
      BY <1>a, <3>1
    <3>2. CASE Len(modelTurnCh) < ModelTurnCap /\ modelTurnCh' = Append(modelTurnCh, r)
      <4>1. modelTurnCh' \in Seq(Responses) /\ Len(modelTurnCh') = Len(modelTurnCh) + 1
        BY <1>23, <1>a, <3>2
      <4> QED BY <1>a, <3>2, <4>1
    <3> QED BY <1>23, <3>1, <3>2, Zenon DEF HandOver
  <2>2. resp' \in [Responses -> {"idle", "spawned", "speaking", "reply", "done"}]
    BY <1>23, <1>a DEF HandOver, Becomes
  <2> QED BY <1>23, <1>a, <2>1, <2>2 DEF HandOver, Becomes
<1>24. CASE Recv
  BY <1>24, <1>a, <1>b DEF Recv
<1>25. CASE RecvTranscript
  BY <1>25, <1>a, <1>b DEF RecvTranscript
<1>26. CASE Close
  BY <1>26, <1>a, <1>b DEF Close
<1>27. CASE WaitDone
  BY <1>27, <1>a, <1>b DEF WaitDone
<1>28. CASE UNCHANGED vars
  BY <1>28, <1>a DEF vars
<1> QED
  BY <1>1, <1>2, <1>3, <1>4, <1>5, <1>6, <1>7, <1>8, <1>9, <1>10, <1>11, <1>12, <1>13, <1>14, <1>15, <1>16, <1>17, <1>18, <1>19, <1>20, <1>21, <1>22, <1>23, <1>24, <1>25, <1>26, <1>27, <1>28, Zenon
  DEF Next, Hear, Continue, Timers, Respond

\* What a step may do to the history.
HistoryStep ==
  /\ SpeculationIsLast'
  /\ speculative' => history' # <<>>
  /\ \/ overtaken'
     \/ \A k \in 1..Len(history) :
          history[k].role # "tentative" => k <= Len(history') /\ history'[k] = history[k]

\* A step that leaves the history alone.
LEMMA HistorySame ==
  ASSUME CascadeInv, UNCHANGED <<history, speculative, overtaken>>
  PROVE  HistoryStep
<1>1. history \in Seq(Turn)
  BY DEF CascadeInv, TypeOK
<1>2. (speculative' <=> speculative) /\ (overtaken' <=> overtaken) /\ history' = history
  BY Zenon
<1> QED BY <1>1, <1>2 DEF CascadeInv, SpeculationIsLast, HistoryStep

\* A step that takes the speculation back.
LEMMA HistoryDropped ==
  ASSUME CascadeInv, history' = WithoutSpeculative, ~speculative', overtaken' = overtaken
  PROVE  HistoryStep
<1>1. overtaken' <=> overtaken
  BY Zenon
<1>2. history \in Seq(Turn)
  BY DEF CascadeInv, TypeOK
<1>3. /\ WithoutSpeculative \in Seq(Turn)
      /\ \A k \in 1..Len(WithoutSpeculative) : WithoutSpeculative[k] = history[k]
      /\ speculative /\ history # <<>> => Len(WithoutSpeculative) = Len(history) - 1
      /\ ~speculative => WithoutSpeculative = history
  BY <1>2, WithoutSpeculativeType
<1>4. CASE overtaken
  BY <1>1, <1>4 DEF SpeculationIsLast, HistoryStep
<1>5. CASE ~overtaken
  <2>1. \A k \in 1..Len(WithoutSpeculative) : WithoutSpeculative[k].role # "tentative"
    BY <1>5, WithoutSpeculativeSaid
  <2>2. SpeculationIsLast'
    BY <2>1 DEF SpeculationIsLast
  <2>3. \A k \in 1..Len(history) :
          history[k].role = "tentative" <=> speculative /\ k = Len(history)
    BY <1>5 DEF CascadeInv, SpeculationIsLast
  <2>4. ASSUME NEW k \in 1..Len(history), history[k].role # "tentative"
        PROVE  k <= Len(history') /\ history'[k] = history[k]
    BY <1>2, <1>3, <2>3, <2>4
  <2> QED BY <2>2, <2>4 DEF HistoryStep
<1> QED BY <1>4, <1>5

\* A step that takes the speculation back and appends a turn.
LEMMA HistoryReplaced ==
  ASSUME CascadeInv, NEW turn \in Turn, history' = Append(WithoutSpeculative, turn),
         turn.role = "tentative" <=> speculative', overtaken' = overtaken
  PROVE  HistoryStep
<1> DEFINE h == WithoutSpeculative
<1>1. overtaken' <=> overtaken
  BY Zenon
<1>2. history \in Seq(Turn)
  BY DEF CascadeInv, TypeOK
<1>3. /\ h \in Seq(Turn)
      /\ \A k \in 1..Len(h) : h[k] = history[k]
      /\ speculative /\ history # <<>> => Len(h) = Len(history) - 1
      /\ ~speculative => h = history
  BY <1>2, WithoutSpeculativeType
<1>s. ~overtaken => \A k \in 1..Len(h) : h[k].role # "tentative"
  BY WithoutSpeculativeSaid
<1> HIDE DEF h
<1>4. /\ history' = Append(h, turn)
      /\ Len(history') = Len(h) + 1
      /\ history'[Len(h) + 1] = turn
      /\ \A k \in 1..Len(h) : history'[k] = h[k]
      /\ history' # <<>>
  BY <1>3 DEF h
<1>5. CASE overtaken
  BY <1>1, <1>4, <1>5 DEF SpeculationIsLast, HistoryStep
<1>6. CASE ~overtaken
  <2>2. SpeculationIsLast'
    <3>1. ASSUME NEW k \in 1..Len(history')
          PROVE  history'[k].role = "tentative" <=> speculative' /\ k = Len(history')
      <4>1. CASE k = Len(h) + 1
        BY <1>4, <4>1
      <4>2. CASE k # Len(h) + 1
        BY <1>s, <1>3, <1>4, <1>6, <4>2
      <4> QED BY <4>1, <4>2
    <3> QED BY <3>1 DEF SpeculationIsLast
  <2>3. \A k \in 1..Len(history) :
          history[k].role = "tentative" <=> speculative /\ k = Len(history)
    BY <1>6 DEF CascadeInv, SpeculationIsLast
  <2>4. ASSUME NEW k \in 1..Len(history), history[k].role # "tentative"
        PROVE  k <= Len(history') /\ history'[k] = history[k]
    <3>1. k \in 1..Len(h)
      BY <1>2, <1>3, <2>3, <2>4
    <3> QED BY <1>3, <1>4, <3>1
  <2> QED BY <1>4, <2>2, <2>4 DEF HistoryStep
<1> QED BY <1>5, <1>6

\* A step that appends a turn that was said, to whatever is there.
LEMMA HistoryAppended ==
  ASSUME CascadeInv, NEW turn \in Turn, turn.role # "tentative", AppendTurn(turn),
         speculative' = speculative
  PROVE  HistoryStep
<1>1. (overtaken' <=> overtaken \/ speculative) /\ (speculative' <=> speculative)
  BY Zenon DEF AppendTurn
<1>2. history \in Seq(Turn) /\ history' = Append(history, turn)
  BY DEF CascadeInv, TypeOK, AppendTurn
<1>3. /\ Len(history') = Len(history) + 1
      /\ history'[Len(history) + 1] = turn
      /\ \A k \in 1..Len(history) : history'[k] = history[k]
      /\ history' # <<>>
  BY <1>2
<1>4. SpeculationIsLast'
  <2>1. CASE overtaken'
    BY <2>1 DEF SpeculationIsLast
  <2>2. CASE ~overtaken'
    <3>1. \A k \in 1..Len(history) : history[k].role # "tentative"
      BY <1>1, <2>2 DEF CascadeInv, SpeculationIsLast
    <3>2. \A k \in 1..Len(history') : history'[k].role # "tentative"
      BY <1>2, <1>3, <3>1
    <3> QED BY <1>1, <2>2, <3>2 DEF SpeculationIsLast
  <2> QED BY <2>1, <2>2
<1>5. \A k \in 1..Len(history) : k <= Len(history') /\ history'[k] = history[k]
  BY <1>2, <1>3
<1> QED BY <1>3, <1>4, <1>5 DEF HistoryStep

\* Every step of the cascade keeps the dialogue and the speculation apart.
LEMMA NextHistory ==
  ASSUME CascadeInv, [Next]_vars
  PROVE  HistoryStep
<1> USE DEF turnVars, timerVars, respondVars, channelVars, historyVars
<1>a. ValuesOK /\ Captioned
  BY TypeParts, Zenon DEF CascadeInv
<1>1. CASE DropPartial
  <2>1. CASE partial.stable
    <3>1. TentativeTurn(partial.text) \in Turn /\ TentativeTurn(partial.text).role = "tentative"
      BY <1>1, <1>a DEF DropPartial, Captioned, TentativeTurn, Turn
    <3>2. history' = Append(WithoutSpeculative, TentativeTurn(partial.text))
          /\ speculative' /\ overtaken' = overtaken
      BY <1>1, <2>1, Zenon DEF DropPartial
    <3> QED BY <3>1, <3>2, HistoryReplaced
  <2>2. CASE ~partial.stable
    <3>1. history' = WithoutSpeculative /\ ~speculative' /\ overtaken' = overtaken
      BY <1>1, <2>2, Zenon DEF DropPartial
    <3> QED BY <3>1, HistoryDropped
  <2> QED BY <2>1, <2>2
<1>2. CASE HearSpeech
  <2>1. history' = WithoutSpeculative /\ ~speculative' /\ overtaken' = overtaken
    BY <1>2, Zenon DEF HearSpeech
  <2> QED BY <2>1, HistoryDropped
<1>3. CASE HearDuplicate
  <2>1. history' = WithoutSpeculative /\ ~speculative' /\ overtaken' = overtaken
    BY <1>3, Zenon DEF HearDuplicate
  <2> QED BY <2>1, HistoryDropped
<1>4. CASE HearConfirmed
  <2> DEFINE n == Len(history)
  <2>1. PICK t \in Texts : history' = [history EXCEPT ![n] = UserTurn(t)]
    BY <1>4, Zenon DEF HearConfirmed
  <2>2. speculative /\ ~speculative' /\ overtaken' = overtaken
    BY <1>4, Zenon DEF HearConfirmed
  <2>3. overtaken' <=> overtaken
    BY <2>2, Zenon
  <2>4. UserTurn(t) \in Turn /\ UserTurn(t).role = "user"
    BY DEF UserTurn, Turn
  <2>5. history \in Seq(Turn)
    BY <1>a DEF ValuesOK
  <2>6. /\ Len(history') = n
        /\ \A k \in 1..n : history'[k] = IF k = n THEN UserTurn(t) ELSE history[k]
    BY <2>1, <2>4, <2>5, ExceptTurn
  <2>7. CASE overtaken
    BY <2>2, <2>3, <2>7 DEF SpeculationIsLast, HistoryStep
  <2>8. CASE ~overtaken
    <3>1. \A k \in 1..n : history[k].role = "tentative" <=> k = n
      BY <2>2, <2>8 DEF CascadeInv, SpeculationIsLast
    <3>2. \A k \in 1..n : history'[k].role # "tentative"
      BY <2>4, <2>6, <3>1
    <3>3. SpeculationIsLast'
      BY <2>2, <2>6, <3>2 DEF SpeculationIsLast
    <3>4. \A k \in 1..n : history[k].role # "tentative" => k <= Len(history') /\ history'[k] = history[k]
      BY <2>5, <2>6, <3>1
    <3> QED BY <2>2, <3>3, <3>4 DEF HistoryStep
  <2> QED BY <2>7, <2>8
<1>5. CASE HearFinal
  <2>1. PICK t \in Texts : history' = Append(WithoutSpeculative, UserTurn(t))
    BY <1>5, Zenon DEF HearFinal
  <2>2. ~speculative' /\ overtaken' = overtaken
    BY <1>5, Zenon DEF HearFinal
  <2>3. UserTurn(t) \in Turn /\ UserTurn(t).role # "tentative"
    BY DEF UserTurn, Turn
  <2> QED BY <2>1, <2>2, <2>3, HistoryReplaced
<1>6. CASE ReadText
  <2>1. PICK t \in Texts : AppendTurn(UserTurn(t)) /\ speculative' = speculative
    BY <1>6, Zenon DEF ReadText
  <2>2. UserTurn(t) \in Turn /\ UserTurn(t).role # "tentative"
    BY DEF UserTurn, Turn
  <2> QED BY <2>1, <2>2, HistoryAppended
<1>7. CASE Restore
  <2>1. PICK t \in Texts : AppendTurn(UserTurn(t)) /\ speculative' = speculative
    BY <1>7, Zenon DEF Restore
  <2>2. UserTurn(t) \in Turn /\ UserTurn(t).role # "tentative"
    BY DEF UserTurn, Turn
  <2> QED BY <2>1, <2>2, HistoryAppended
<1>8. CASE ReadReply
  <2> DEFINE r == Head(modelTurnCh)
  <2>1. AppendTurn(ModelTurn(r)) /\ speculative' = speculative
    BY <1>8, Zenon DEF ReadReply
  <2>2. r \in Responses
    BY <1>8, <1>a DEF ReadReply, ValuesOK
  <2>3. ModelTurn(r) \in Turn /\ ModelTurn(r).role # "tentative"
    BY <2>2 DEF ModelTurn, Turn
  <2> QED BY <2>1, <2>3, HistoryAppended
<1>9. CASE SendPending
  BY <1>9, HistorySame, Zenon DEF SendPending
<1>10. CASE Silence
  BY <1>10, HistorySame, Zenon DEF Silence
<1>11. CASE SchedulePending
  BY <1>11, HistorySame, Zenon DEF SchedulePending
<1>12. CASE RespondToText
  BY <1>12, HistorySame, Zenon DEF RespondToText
<1>13. CASE RespondToPending
  BY <1>13, HistorySame, Zenon DEF RespondToPending
<1>14. CASE EmitReply
  BY <1>14, HistorySame, Zenon DEF EmitReply
<1>15. CASE Exit
  BY <1>15, HistorySame, Zenon DEF Exit
<1>16. CASE TimerFires
  BY <1>16, HistorySame, Zenon DEF TimerFires
<1>17. CASE LooseExits
  BY <1>17, HistorySame, Zenon DEF LooseExits
<1>18. CASE TimerExits
  BY <1>18, HistorySame, Zenon DEF TimerExits
<1>19. CASE Recv
  BY <1>19, HistorySame, Zenon DEF Recv
<1>20. CASE RecvTranscript
  BY <1>20, HistorySame, Zenon DEF RecvTranscript
<1>21. CASE Close
  BY <1>21, HistorySame, Zenon DEF Close
<1>22. CASE WaitDone
  BY <1>22, HistorySame, Zenon DEF WaitDone
<1>23. CASE HearPartial
  BY <1>23, HistorySame, Zenon DEF HearPartial
<1>24. ASSUME NEW r \in Responses, Register(r) PROVE HistoryStep
  BY <1>24, HistorySame, Zenon DEF Register, Becomes
<1>25. ASSUME NEW r \in Responses, Speak(r) PROVE HistoryStep
  BY <1>25, HistorySame, Zenon DEF Speak
<1>26. ASSUME NEW r \in Responses, StopSpeaking(r) PROVE HistoryStep
  BY <1>26, HistorySame, Zenon DEF StopSpeaking, Becomes
<1>27. ASSUME NEW r \in Responses, HandOver(r) PROVE HistoryStep
  BY <1>27, HistorySame, Zenon DEF HandOver, Becomes
<1>28. CASE UNCHANGED vars
  BY <1>28, HistorySame, Zenon DEF vars
<1> QED
  BY <1>1, <1>2, <1>3, <1>4, <1>5, <1>6, <1>7, <1>8, <1>9, <1>10, <1>11, <1>12, <1>13, <1>14, <1>15, <1>16, <1>17, <1>18, <1>19, <1>20, <1>21, <1>22, <1>23, <1>24, <1>25, <1>26, <1>27, <1>28, Zenon
  DEF Next, Hear, Continue, Timers, Respond

\* Every step of the cascade keeps the invariant.
LEMMA NextCascadeInv ==
  ASSUME CascadeInv, [Next]_vars
  PROVE  CascadeInv'
<1>1. BooleansOK
  BY TypeParts, Zenon DEF CascadeInv
<1>2. TypeOK' /\ Captioned'
  BY <1>1, NextBooleansOK, NextValuesOK, TypeParts, Zenon
<1>3. SpeculationIsLast' /\ (speculative' => history' # <<>>)
  BY NextHistory, Zenon DEF HistoryStep
<1> QED BY <1>2, <1>3, Zenon DEF CascadeInv

----------------------------------------------------------------------------
(* Barge-in                                                                *)

\* What bargeIn relies on, as long as it has missed no response: while it waits,
\* only the one it waits for is alive; those it has silenced are done for good;
\* and nothing of them is queued.
Hushing ==
  ~missed =>
    /\ at = "silence" => \A r \in Responses : Alive(r) => r = awaited
    /\ \A r \in hushed : resp[r] = "done"
    /\ \A i \in 1..Len(recvCh) : recvCh[i] \notin hushed

\* A step that is neither a barge-in nor a response's.
LEMMA HushingSame ==
  ASSUME Hushing, UNCHANGED <<resp, awaited, recvCh, missed, hushed>>,
         at' = "silence" => at = "silence"
  PROVE  Hushing'
<1>1. ~missed' => ~missed
  BY Zenon
<1>2. UNCHANGED <<resp, awaited, recvCh, hushed>>
  BY Zenon
<1> QED BY <1>1, <1>2 DEF Hushing, Alive

\* A response that goes on was alive or is only starting, and is none of those
\* silenced; it may queue a chunk of its own.
LEMMA HushingResponse ==
  ASSUME TypeOK, Hushing, NEW r \in Responses, resp[r] # "done",
         at = "silence" => Alive(r), at' = "silence" => at = "silence",
         NEW to \in {"spawned", "speaking", "reply", "done"},
         resp' = [resp EXCEPT ![r] = to],
         recvCh' = recvCh \/ recvCh' = Append(recvCh, r),
         UNCHANGED <<awaited, missed, hushed>>
  PROVE  Hushing'
<1>1. ~missed' => ~missed
  BY Zenon
<1>2. UNCHANGED <<awaited, hushed>>
  BY Zenon
<1>3. SUFFICES ASSUME ~missed PROVE Hushing'
  BY <1>1 DEF Hushing
<1>4. resp \in [Responses -> {"idle", "spawned", "speaking", "reply", "done"}]
  BY DEF TypeOK
<1>5. hushed \subseteq Responses /\ recvCh \in Seq(Responses)
  BY DEF TypeOK
<1>6. r \notin hushed
  BY <1>3 DEF Hushing
<1>7. \A q \in hushed : resp'[q] = "done"
  BY <1>3, <1>4, <1>5, <1>6 DEF Hushing
<1>8. at' = "silence" => \A q \in Responses : Alive(q)' => q = awaited'
  BY <1>2, <1>3, <1>4 DEF Hushing, Alive
<1>9. \A i \in 1..Len(recvCh') : recvCh'[i] \notin hushed
  BY <1>3, <1>5, <1>6 DEF Hushing
<1> QED BY <1>2, <1>7, <1>8, <1>9 DEF Hushing

\* A response that starts was idle.
LEMMA HushingStart ==
  ASSUME TypeOK, Hushing, StartRespond, at # "silence", at' # "silence",
         UNCHANGED <<awaited, recvCh, missed, hushed>>
  PROVE  Hushing'
<1>1. PICK r \in Responses : resp[r] = "idle" /\ resp' = [resp EXCEPT ![r] = "spawned"]
  BY DEF StartRespond
<1> QED BY <1>1, HushingResponse

\* Every step of the cascade keeps what bargeIn relies on.
LEMMA NextHushing == CascadeInv /\ Hushing /\ [Next]_vars => Hushing'
<1> SUFFICES ASSUME CascadeInv, Hushing, [Next]_vars PROVE Hushing'
  OBVIOUS
<1> USE DEF turnVars, timerVars, respondVars, channelVars, historyVars
<1>a. TypeOK
  BY Zenon DEF CascadeInv
<1>b. /\ gen \in Responses \cup {0}
      /\ awaited \in Responses \cup {0}
      /\ recvCh \in Seq(Responses)
      /\ resp \in [Responses -> {"idle", "spawned", "speaking", "reply", "done"}]
  BY <1>a DEF TypeOK
<1>c. 0 \notin Responses
  BY CascadeAssumption DEF Responses
<1>1. CASE HearSpeech
  <2>1. ~missed' => ~missed /\ \A r \in Responses : Alive(r) => r = gen
    BY <1>1, Zenon DEF HearSpeech
  <2>2. awaited' = gen /\ UNCHANGED <<resp, recvCh, hushed>>
    BY <1>1, Zenon DEF HearSpeech
  <2> QED BY <2>1, <2>2 DEF Hushing, Alive
<1>2. CASE Silence
  <2>1. /\ at = "silence" /\ at' = "select"
        /\ awaited # 0 => resp[awaited] = "done"
        /\ recvCh' = <<>> /\ hushed' = {r \in Responses : resp[r] # "idle"}
        /\ resp' = resp
    BY <1>2 DEF Silence, Goto
  <2>2. ~missed' => ~missed
    BY <1>2, Zenon DEF Silence
  <2>3. ~missed => \A r \in Responses : ~Alive(r)
    BY <1>b, <1>c, <2>1 DEF Hushing, Alive
  <2>4. ~missed => \A r \in hushed' : resp'[r] = "done"
    BY <1>b, <2>1, <2>3 DEF Alive
  <2>5. Len(recvCh') = 0
    BY <2>1
  <2> QED BY <2>1, <2>2, <2>4, <2>5 DEF Hushing
<1>3. CASE RespondToText
  <2>1. /\ at = "typed" /\ at' = "select" /\ StartRespond
        /\ UNCHANGED <<awaited, recvCh, missed, hushed>>
    BY <1>3, Zenon DEF RespondToText, Goto
  <2>2. at # "silence" /\ at' # "silence"
    BY <2>1
  <2> QED BY <1>a, <2>1, <2>2, HushingStart, Zenon
<1>4. CASE RespondToPending
  <2>1. /\ at = "select" /\ at' = at /\ StartRespond
        /\ UNCHANGED <<awaited, recvCh, missed, hushed>>
    BY <1>4, Zenon DEF RespondToPending
  <2>2. at # "silence" /\ at' # "silence"
    BY <2>1
  <2> QED BY <1>a, <2>1, <2>2, HushingStart, Zenon
<1>5. ASSUME NEW r \in Responses, Respond(r) PROVE Hushing'
  <2>1. resp[r] \in {"spawned", "speaking", "reply"} /\ UNCHANGED <<at, awaited, missed, hushed>>
    BY <1>5 DEF Respond, Register, Speak, StopSpeaking, HandOver, Becomes
  <2>2. UNCHANGED <<awaited, missed, hushed>>
    BY <1>5, Zenon DEF Respond, Register, Speak, StopSpeaking, HandOver, Becomes
  <2>3. Alive(r) /\ resp[r] # "done"
    BY <2>1 DEF Alive
  <2>4. recvCh' = recvCh \/ recvCh' = Append(recvCh, r)
    BY <1>5, Zenon DEF Respond, Register, Speak, StopSpeaking, HandOver, Becomes
  <2>5. \E to \in {"spawned", "speaking", "reply", "done"} : resp' = [resp EXCEPT ![r] = to]
    <3>1. CASE Speak(r)
      BY <1>b, <2>1, <3>1 DEF Speak
    <3> QED BY <1>5, <3>1 DEF Respond, Register, StopSpeaking, HandOver, Becomes
  <2>6. at' = at
    BY <2>1
  <2> QED BY <1>a, <2>2, <2>3, <2>4, <2>5, <2>6, HushingResponse
<1>6. CASE Recv
  <2>1. recvCh # <<>> /\ recvCh' = Tail(recvCh) /\ UNCHANGED <<at, resp, awaited, hushed>>
    BY <1>6, Zenon DEF Recv
  <2>2. ~missed' => ~missed
    BY <1>6, Zenon DEF Recv
  <2>3. \A i \in 1..Len(recvCh') : i + 1 \in 1..Len(recvCh) /\ recvCh'[i] = recvCh[i + 1]
    BY <1>b, <2>1
  <2> QED BY <2>1, <2>2, <2>3 DEF Hushing, Alive
<1>7. ASSUME \/ HearPartial \/ HearDuplicate \/ HearConfirmed \/ HearFinal
             \/ ReadText \/ Restore \/ DropPartial \/ SendPending \/ SchedulePending
             \/ ReadReply \/ EmitReply \/ Exit \/ Timers
             \/ RecvTranscript \/ Close \/ WaitDone \/ UNCHANGED vars
      PROVE  Hushing'
  <2>1. UNCHANGED <<resp, awaited, recvCh, missed, hushed>>
    BY <1>7, Zenon
    DEF HearPartial, HearDuplicate, HearConfirmed, HearFinal, ReadText, Restore, DropPartial,
        SendPending, SchedulePending, ReadReply, EmitReply, Exit, Timers, TimerFires,
        LooseExits, TimerExits, RecvTranscript, Close, WaitDone, vars, AppendTurn, CancelPending
  <2>2. at' = at \/ at' \in {"partial", "final", "typed", "send", "select", "reply", "exited"}
    BY <1>7
    DEF HearPartial, HearDuplicate, HearConfirmed, HearFinal, ReadText, Restore, DropPartial,
        SendPending, SchedulePending, ReadReply, EmitReply, Exit, Timers, TimerFires,
        LooseExits, TimerExits, RecvTranscript, Close, WaitDone, vars, Goto
  <2>3. at' = "silence" => at = "silence"
    BY <2>2
  <2> QED BY <2>1, <2>3, HushingSame, Zenon
<1> QED
  BY <1>1, <1>2, <1>3, <1>4, <1>5, <1>6, <1>7, Zenon DEF Next, Hear, Continue

----------------------------------------------------------------------------
(* Responses and waits are never more than inputs                          *)

One(b) == IF b THEN 1 ELSE 0

\* The input that run() has in hand may yet ask for a response.
InHand == at \in {"partial", "send", "final", "typed"}

\* So may a queued signal, and the waits that may still send one.
Claims == One(pending) + One(timer) + loose + One(InHand)

\* Responses are started in order, the first n of them so far.
FirstStarted(n) == \A r \in Responses : resp[r] # "idle" <=> r <= n

\* Each started response and each claim has an input of its own.
Afforded ==
  /\ events <= MaxEvents
  /\ \E n \in 0..MaxEvents : FirstStarted(n) /\ n + Claims <= events

\* The values that Claims adds up.
LEMMA OneValue ==
  \A b \in BOOLEAN : One(b) \in 0..1 /\ (b => One(b) = 1) /\ (~b => One(b) = 0)
BY DEF One

\* Before a step and after it the claims are a number.
LEMMA ClaimsNat ==
  ASSUME TypeOK, TypeOK'
  PROVE  /\ One(pending) \in 0..1 /\ One(timer) \in 0..1 /\ One(InHand) \in 0..1 /\ loose \in Nat
         /\ One(pending') \in 0..1 /\ One(timer') \in 0..1 /\ One(InHand') \in 0..1 /\ loose' \in Nat
         /\ Claims \in Nat /\ Claims' \in Nat
<1>1. /\ pending \in BOOLEAN /\ timer \in BOOLEAN
      /\ pending' \in BOOLEAN /\ timer' \in BOOLEAN
      /\ loose \in Nat /\ loose' \in Nat
  BY Zenon DEF TypeOK
<1>i. InHand \in BOOLEAN /\ InHand' \in BOOLEAN
  BY DEF InHand
<1>2. /\ One(pending) \in 0..1 /\ One(timer) \in 0..1 /\ One(InHand) \in 0..1
      /\ One(pending') \in 0..1 /\ One(timer') \in 0..1 /\ One(InHand') \in 0..1
  BY <1>1, <1>i, OneValue, Zenon
<1>3. One(pending) + One(timer) + loose + One(InHand) \in Nat
  BY <1>1, <1>2
<1>4. One(pending') + One(timer') + loose' + One(InHand') \in Nat
  BY <1>1, <1>2
<1> QED BY <1>1, <1>2, <1>3, <1>4, Zenon DEF Claims

\* An inequality that holds before a step holds after it.
LEMMA Carried ==
  ASSUME NEW n \in Nat, NEW c \in Nat, NEW d \in Nat, NEW e \in Nat, NEW f \in Nat,
         n + c <= e, d - c <= f - e
  PROVE  n + d <= f
OBVIOUS

LEMMA CarriedStart ==
  ASSUME NEW n \in Nat, NEW c \in Nat, NEW d \in Nat, NEW e \in Nat, n + c <= e, d + 1 <= c
  PROVE  (n + 1) + d <= e
OBVIOUS

\* A step that starts no response adds no more claims than inputs.
LEMMA AffordedSame ==
  ASSUME Afforded, TypeOK, TypeOK', UNCHANGED resp, events' <= MaxEvents,
         NEW k \in 0..1, events' = events + k,
         One(pending') + One(timer') + loose' + One(InHand')
           <= One(pending) + One(timer) + loose + One(InHand) + k
  PROVE  Afforded'
<1>1. PICK n \in 0..MaxEvents : FirstStarted(n) /\ n + Claims <= events
  BY DEF Afforded
<1>2. FirstStarted(n)'
  BY <1>1 DEF FirstStarted
<1>3. events \in Nat /\ events' \in Nat /\ n \in Nat
  BY DEF TypeOK
<1>4. events' - events = k
  BY <1>3
<1>5. Claims \in Nat /\ Claims' \in Nat
  BY ClaimsNat
<1>6. (One(pending') + One(timer') + loose' + One(InHand'))
        - (One(pending) + One(timer) + loose + One(InHand)) <= events' - events
  BY <1>4, ClaimsNat
<1>7. Claims' - Claims <= events' - events
  BY <1>6, Zenon DEF Claims
<1>8. n + Claims' <= events'
  BY <1>1, <1>3, <1>5, <1>7, Carried, Zenon
<1> QED BY <1>2, <1>8 DEF Afforded

\* The response that a step starts takes the place of a claim.
LEMMA AffordedStart ==
  ASSUME Afforded, TypeOK, TypeOK', StartRespond, events' = events,
         One(pending') + One(timer') + loose' + One(InHand') + 1
           <= One(pending) + One(timer) + loose + One(InHand)
  PROVE  Afforded'
<1>1. PICK n \in 0..MaxEvents : FirstStarted(n) /\ n + Claims <= events
  BY DEF Afforded
<1>2. PICK r \in Responses : /\ resp[r] = "idle"
                             /\ \A q \in 1..(r - 1) : resp[q] # "idle"
                             /\ resp' = [resp EXCEPT ![r] = "spawned"]
  BY DEF StartRespond
<1>3. events \in Nat /\ events <= MaxEvents
  BY DEF TypeOK, Afforded
<1>4. r = n + 1
  <2>1. ~(r <= n)
    BY <1>1, <1>2 DEF FirstStarted
  <2>2. ASSUME n + 1 < r PROVE FALSE
    <3>1. n + 1 \in 1..(r - 1) /\ n + 1 \in Responses
      BY <2>2, CascadeAssumption DEF Responses
    <3>2. resp[n + 1] # "idle"
      BY <1>2, <3>1
    <3>3. n + 1 <= n
      BY <1>1, <3>1, <3>2 DEF FirstStarted
    <3> QED BY <3>3
  <2> QED BY <2>1, <2>2, CascadeAssumption DEF Responses
<1>5. FirstStarted(n + 1)'
  <2>1. resp \in [Responses -> {"idle", "spawned", "speaking", "reply", "done"}]
    BY DEF TypeOK
  <2>2. ASSUME NEW q \in Responses PROVE resp'[q] # "idle" <=> q <= n + 1
    BY <1>1, <1>2, <1>4, <2>1, CascadeAssumption DEF FirstStarted, Responses
  <2> QED BY <2>2 DEF FirstStarted
<1>6. (n + 1) + Claims' <= events' /\ n + 1 \in 0..MaxEvents
  <2>1. n \in Nat /\ r \in 1..MaxEvents /\ events' = events
    BY DEF Responses
  <2>2. (n + 1) + Claims' <= events
    <3>1. (One(pending') + One(timer') + loose' + One(InHand')) + 1
            <= One(pending) + One(timer) + loose + One(InHand)
      BY ClaimsNat
    <3>2. Claims' + 1 <= Claims
      BY <3>1, Zenon DEF Claims
    <3> QED BY <1>1, <1>3, <2>1, <3>2, ClaimsNat, CarriedStart, Zenon
  <2>3. n + 1 \in 0..MaxEvents
    BY <1>4, <2>1
  <2> QED BY <2>1, <2>2, <2>3, Zenon
<1> QED BY <1>3, <1>5, <1>6 DEF Afforded

\* A response that goes on was started before.
LEMMA AffordedRespond ==
  ASSUME Afforded, TypeOK, NEW r \in Responses, resp[r] # "idle",
         NEW to \in {"speaking", "reply", "done"}, resp' = [resp EXCEPT ![r] = to],
         UNCHANGED <<events, pending, timer, loose, at>>
  PROVE  Afforded'
<1>1. PICK n \in 0..MaxEvents : FirstStarted(n) /\ n + Claims <= events
  BY DEF Afforded
<1>2. resp \in [Responses -> {"idle", "spawned", "speaking", "reply", "done"}]
  BY DEF TypeOK
<1>3. FirstStarted(n)'
  BY <1>1, <1>2 DEF FirstStarted
<1>4. Claims' = Claims
  BY Zenon DEF Claims, InHand
<1> QED BY <1>1, <1>3, <1>4 DEF Afforded

\* Every step leaves each started response and each claim its input.
LEMMA NextAfforded == CascadeInv /\ Afforded /\ [Next]_vars => Afforded'
<1> SUFFICES ASSUME CascadeInv, Afforded, [Next]_vars PROVE Afforded'
  OBVIOUS
<1> USE DEF turnVars, timerVars, respondVars, channelVars, historyVars
<1>a. TypeOK /\ TypeOK'
  BY NextCascadeInv, Zenon DEF CascadeInv
<1>b. events \in Nat /\ events <= MaxEvents
  BY <1>a DEF TypeOK, Afforded
<1>c. /\ pending \in BOOLEAN /\ timer \in BOOLEAN
      /\ pending' \in BOOLEAN /\ timer' \in BOOLEAN
  BY <1>a, Zenon DEF TypeOK
<1>d. /\ (pending' => One(pending') = 1) /\ (~pending' => One(pending') = 0)
      /\ (pending => One(pending) = 1) /\ (~pending => One(pending) = 0)
      /\ (timer => One(timer) = 1) /\ (~timer => One(timer) = 0)
      /\ (timer' => One(timer') = 1) /\ (~timer' => One(timer') = 0)
  BY <1>c, OneValue, Zenon
<1>e. /\ at' = at => One(InHand') = One(InHand)
      /\ at \in {"partial", "send", "final", "typed"} => One(InHand) = 1
      /\ at \notin {"partial", "send", "final", "typed"} => One(InHand) = 0
      /\ at' \in {"partial", "send", "final", "typed"} => One(InHand') = 1
      /\ at' \notin {"partial", "send", "final", "typed"} => One(InHand') = 0
  BY DEF One, InHand
<1>f. ASSUME CancelPending
      PROVE  One(pending') = 0 /\ One(timer') = 0 /\ loose' = loose + One(timer)
  <2>1. ~pending' /\ ~timer' /\ loose' = IF timer THEN loose + 1 ELSE loose
    BY <1>f, Zenon DEF CancelPending
  <2>2. loose' = loose + One(timer)
    BY <1>a, <2>1 DEF One, TypeOK
  <2> QED BY <1>d, <2>1, <2>2, Zenon
<1>1. CASE HearPartial \/ ReadText
  <2>1. /\ UNCHANGED <<pending, timer, loose, resp>>
        /\ at = "select" /\ events < MaxEvents /\ events' = events + 1
    BY <1>1, Zenon DEF HearPartial, ReadText, Input, Goto
  <2>2. One(pending') = One(pending) /\ One(timer') = One(timer)
    BY <2>1, Zenon
  <2>3. One(InHand) = 0
    BY <1>e, <2>1
  <2>a. One(pending') + One(timer') + loose' + One(InHand')
          <= One(pending) + One(timer) + loose + One(InHand) + 1
    BY <2>1, <2>2, <2>3, ClaimsNat, <1>a
  <2>b. events' = events + 1 /\ events' <= MaxEvents /\ 1 \in 0..1
    BY <1>b, <2>1, CascadeAssumption
  <2> QED BY <1>a, <2>1, <2>a, <2>b, AffordedSame, Zenon
<1>2. CASE DropPartial
  <2>1. CancelPending /\ UNCHANGED <<resp, events>> /\ at = "partial"
    BY <1>2, Zenon DEF DropPartial
  <2>2. One(InHand) = 1
    BY <1>e, <2>1
  <2>a. One(pending') + One(timer') + loose' + One(InHand')
          <= One(pending) + One(timer) + loose + One(InHand) + 0
    BY <1>f, <2>1, <2>2, ClaimsNat, <1>a
  <2>b. events' = events + 0 /\ events' <= MaxEvents /\ 0 \in 0..1
    BY <1>b, <2>1
  <2> QED BY <1>a, <2>1, <2>a, <2>b, AffordedSame, Zenon
<1>3. CASE SendPending
  <2>1. /\ at = "send" /\ at' = "select" /\ ~pending
        /\ UNCHANGED <<timer, loose, resp, events>>
    BY <1>3, Zenon DEF SendPending, Goto
  <2>2. One(pending) = 0 /\ One(timer') = One(timer)
    BY <1>d, <2>1, Zenon
  <2>3. One(InHand) = 1 /\ One(InHand') = 0
    BY <1>e, <2>1
  <2>a. One(pending') + One(timer') + loose' + One(InHand')
          <= One(pending) + One(timer) + loose + One(InHand) + 0
    BY <2>1, <2>2, <2>3, ClaimsNat, <1>a
  <2>b. events' = events + 0 /\ events' <= MaxEvents /\ 0 \in 0..1
    BY <1>b, <2>1, CascadeAssumption
  <2> QED BY <1>a, <2>1, <2>a, <2>b, AffordedSame, Zenon
<1>4. CASE HearSpeech \/ HearConfirmed \/ HearFinal
  <2>1. /\ CancelPending /\ at = "select" /\ UNCHANGED resp
        /\ events < MaxEvents /\ events' = events + 1
    BY <1>4, Zenon DEF HearSpeech, HearConfirmed, HearFinal, Input, Goto
  <2>2. One(InHand) = 0
    BY <1>e, <2>1
  <2>a. One(pending') + One(timer') + loose' + One(InHand')
          <= One(pending) + One(timer) + loose + One(InHand) + 1
    BY <1>f, <2>1, <2>2, ClaimsNat, <1>a
  <2>b. events' = events + 1 /\ events' <= MaxEvents /\ 1 \in 0..1
    BY <1>b, <2>1, CascadeAssumption
  <2> QED BY <1>a, <2>1, <2>a, <2>b, AffordedSame, Zenon
<1>5. CASE SchedulePending
  <2>1. /\ at = "final" /\ at' = "select" /\ ~pending'
        /\ UNCHANGED <<loose, resp, events>>
    BY <1>5, Zenon DEF SchedulePending, Goto
  <2>2. One(pending') = 0
    BY <1>d, <2>1, Zenon
  <2>3. One(InHand) = 1 /\ One(InHand') = 0
    BY <1>e, <2>1
  <2>a. One(pending') + One(timer') + loose' + One(InHand')
          <= One(pending) + One(timer) + loose + One(InHand) + 0
    BY <2>1, <2>2, <2>3, ClaimsNat, <1>a
  <2>b. events' = events + 0 /\ events' <= MaxEvents /\ 0 \in 0..1
    BY <1>b, <2>1, CascadeAssumption
  <2> QED BY <1>a, <2>1, <2>a, <2>b, AffordedSame, Zenon
<1>6. CASE RespondToText
  <2>1. /\ at = "typed" /\ at' = "select" /\ StartRespond
        /\ UNCHANGED <<pending, timer, loose, events>>
    BY <1>6, Zenon DEF RespondToText, Goto
  <2>2. One(pending') = One(pending) /\ One(timer') = One(timer)
    BY <2>1, Zenon
  <2>3. One(InHand) = 1 /\ One(InHand') = 0
    BY <1>e, <2>1
  <2>a. One(pending') + One(timer') + loose' + One(InHand') + 1
          <= One(pending) + One(timer) + loose + One(InHand)
    BY <2>1, <2>2, <2>3, ClaimsNat, <1>a
  <2> QED BY <1>a, <2>1, <2>a, AffordedStart, Zenon
<1>7. CASE RespondToPending
  <2>1. /\ pending /\ ~pending' /\ StartRespond
        /\ UNCHANGED <<at, timer, loose, events>>
    BY <1>7, Zenon DEF RespondToPending
  <2>2. One(pending) = 1 /\ One(pending') = 0 /\ One(timer') = One(timer)
    BY <1>d, <2>1, Zenon
  <2>3. One(InHand') = One(InHand)
    BY <1>e, <2>1
  <2>4. loose' = loose
    BY <2>1, Zenon
  <2>a. One(pending') + One(timer') + loose' + One(InHand') + 1
          <= One(pending) + One(timer) + loose + One(InHand)
    BY <2>2, <2>3, <2>4, ClaimsNat, <1>a
  <2> QED BY <1>a, <2>1, <2>a, AffordedStart, Zenon
<1>8. CASE HearDuplicate \/ Restore
  <2>1. /\ UNCHANGED <<at, pending, timer, loose, resp>>
        /\ events < MaxEvents /\ events' = events + 1
    BY <1>8, Zenon DEF HearDuplicate, Restore, Input
  <2>2. One(pending') = One(pending) /\ One(timer') = One(timer)
    BY <2>1, Zenon
  <2>3. One(InHand') = One(InHand)
    BY <1>e, <2>1
  <2>a. One(pending') + One(timer') + loose' + One(InHand')
          <= One(pending) + One(timer) + loose + One(InHand) + 1
    BY <2>1, <2>2, <2>3, ClaimsNat, <1>a
  <2>b. events' = events + 1 /\ events' <= MaxEvents /\ 1 \in 0..1
    BY <1>b, <2>1, CascadeAssumption
  <2> QED BY <1>a, <2>1, <2>a, <2>b, AffordedSame, Zenon
<1>9. CASE TimerFires \/ TimerExits
  <2>1. timer /\ ~timer' /\ UNCHANGED <<at, loose, resp, events>>
    BY <1>9, Zenon DEF TimerFires, TimerExits
  <2>2. One(timer) = 1 /\ One(timer') = 0
    BY <1>d, <2>1, Zenon
  <2>3. One(InHand') = One(InHand)
    BY <1>e, <2>1
  <2>4. One(pending') <= One(pending) + 1
    BY <1>a, ClaimsNat
  <2>5. loose' = loose
    BY <2>1, Zenon
  <2>a. One(pending') + One(timer') + loose' + One(InHand')
          <= One(pending) + One(timer) + loose + One(InHand) + 0
    BY <2>2, <2>3, <2>4, <2>5, ClaimsNat, <1>a
  <2>b. events' = events + 0 /\ events' <= MaxEvents /\ 0 \in 0..1
    BY <1>b, <2>1
  <2> QED BY <1>a, <2>1, <2>a, <2>b, AffordedSame, Zenon
<1>10. CASE LooseExits
  <2>1. loose > 0 /\ loose' = loose - 1 /\ UNCHANGED <<at, timer, resp, events>>
    BY <1>10, Zenon DEF LooseExits
  <2>2. One(timer') = One(timer)
    BY <2>1, Zenon
  <2>3. One(InHand') = One(InHand)
    BY <1>e, <2>1
  <2>a. One(pending') + One(timer') + loose' + One(InHand')
          <= One(pending) + One(timer) + loose + One(InHand) + 0
    BY <2>1, <2>2, <2>3, ClaimsNat, <1>a
  <2>b. events' = events + 0 /\ events' <= MaxEvents /\ 0 \in 0..1
    BY <1>b, <2>1, CascadeAssumption
  <2> QED BY <1>a, <2>1, <2>a, <2>b, AffordedSame, Zenon
<1>11. ASSUME NEW r \in Responses, Register(r) \/ StopSpeaking(r) \/ HandOver(r) PROVE Afforded'
  <2>1. /\ resp[r] # "idle"
        /\ \E to \in {"speaking", "reply", "done"} : resp' = [resp EXCEPT ![r] = to]
    BY <1>11 DEF Register, StopSpeaking, HandOver, Becomes
  <2>2. UNCHANGED <<events, pending, timer, loose, at>>
    BY <1>11, Zenon DEF Register, StopSpeaking, HandOver, Becomes
  <2> QED BY <1>a, <2>1, <2>2, AffordedRespond, Zenon
<1>12. CASE Silence \/ ReadReply \/ EmitReply \/ Exit
  <2>1. /\ UNCHANGED <<pending, timer, loose, resp, events>>
        /\ at' \in {"select", "reply", "exited"}
    BY <1>12, Zenon DEF Silence, ReadReply, EmitReply, Exit, Goto
  <2>2. One(pending') = One(pending) /\ One(timer') = One(timer)
    BY <2>1, Zenon
  <2>3. One(InHand') = 0
    BY <1>e, <2>1
  <2>a. One(pending') + One(timer') + loose' + One(InHand')
          <= One(pending) + One(timer) + loose + One(InHand) + 0
    BY <2>1, <2>2, <2>3, ClaimsNat, <1>a
  <2>b. events' = events + 0 /\ events' <= MaxEvents /\ 0 \in 0..1
    BY <1>b, <2>1, CascadeAssumption
  <2> QED BY <1>a, <2>1, <2>a, <2>b, AffordedSame, Zenon
<1>13. ASSUME \/ \E r \in Responses : Speak(r)
              \/ Recv \/ RecvTranscript \/ Close \/ WaitDone \/ UNCHANGED vars
       PROVE  Afforded'
  <2>1. UNCHANGED <<at, pending, timer, loose, resp, events>>
    BY <1>13, Zenon DEF Speak, Recv, RecvTranscript, Close, WaitDone, vars
  <2>2. One(pending') = One(pending) /\ One(timer') = One(timer)
    BY <2>1, Zenon
  <2>3. One(InHand') = One(InHand)
    BY <1>e, <2>1
  <2>a. One(pending') + One(timer') + loose' + One(InHand')
          <= One(pending) + One(timer) + loose + One(InHand) + 0
    BY <2>1, <2>2, <2>3, ClaimsNat, <1>a
  <2>b. events' = events + 0 /\ events' <= MaxEvents /\ 0 \in 0..1
    BY <1>b, <2>1, CascadeAssumption
  <2> QED BY <1>a, <2>1, <2>a, <2>b, AffordedSame, Zenon
<1> QED
  BY <1>1, <1>2, <1>3, <1>4, <1>5, <1>6, <1>7, <1>8, <1>9, <1>10, <1>11, <1>12, <1>13, Zenon
  DEF Next, Hear, Continue, Timers, Respond

----------------------------------------------------------------------------
(* Close is never stuck                                                    *)

\* A response that was registered was started; so bargeIn only waits for one
\* that runs or is done.  Close cancels all of them.
Known ==
  /\ gen # 0 => resp[gen] \in {"speaking", "reply", "done"}
  /\ awaited # 0 => resp[awaited] \in {"speaking", "reply", "done"}
  /\ close # "no" => cancelled = Responses

\* A response that startRespond may take next.
Startable(r) == resp[r] = "idle" /\ \A q \in 1..(r - 1) : resp[q] # "idle"

\* The guards of run()'s steps once the context is done: it leaves its select, a
\* caption is emitted or not, a typed turn is answered, and the two places are
\* left where it waits for others.
RunGoesOn ==
  \/ at \in {"select", "partial", "final", "reply"}
  \/ at = "typed" /\ \E r \in Responses : Startable(r)
  \/ at = "send" /\ ~pending
  \/ at = "silence" /\ (awaited # 0 => resp[awaited] = "done")

\* The guards of a response's steps once its context is done.
ResponseGoesOn(r) ==
  \/ resp[r] \in {"spawned", "reply"}
  \/ resp[r] = "speaking" /\ r \in cancelled

\* The guard of the end of Close.
AllGone == at = "exited" /\ ~timer /\ loose = 0 /\ \A r \in Responses : ~Alive(r)

\* Some goroutine of a cascade that is being closed can take a step.
ClosingGoesOn ==
  \/ RunGoesOn
  \/ \E r \in Responses : ResponseGoesOn(r)
  \/ timer \/ loose > 0
  \/ AllGone

NeverStuck == close = "waiting" => WaitsForItself \/ ClosingGoesOn

\* Where a response and the barge-in that knows it are, after a step of it.
LEMMA KnownRespond ==
  ASSUME TypeOK, Known, NEW r \in Responses, resp[r] # "idle",
         NEW to \in {"speaking", "reply", "done"}, resp' = [resp EXCEPT ![r] = to],
         gen' = gen \/ gen' = r, UNCHANGED <<awaited, cancelled, close>>
  PROVE  Known'
<1>1. 0 \notin Responses
  BY CascadeAssumption DEF Responses
<1> QED BY <1>1 DEF TypeOK, Known

\* Every step of the cascade keeps what it knows of its responses.
LEMMA NextKnown == CascadeInv /\ Known /\ [Next]_vars => Known'
<1> SUFFICES ASSUME CascadeInv, Known, [Next]_vars PROVE Known'
  OBVIOUS
<1> USE DEF turnVars, timerVars, respondVars, channelVars, historyVars
<1>a. TypeOK
  BY Zenon DEF CascadeInv
<1>b. 0 \notin Responses
  BY CascadeAssumption DEF Responses
<1>1. ASSUME UNCHANGED <<resp, gen, cancelled, awaited, close>> PROVE Known'
  BY <1>1 DEF Known
<1>2. CASE HearSpeech
  <2>1. /\ awaited' = gen /\ UNCHANGED <<resp, gen, close>>
        /\ cancelled' = IF gen = 0 THEN cancelled ELSE cancelled \cup {gen}
    BY <1>2, Zenon DEF HearSpeech
  <2> QED BY <1>a, <2>1 DEF Known, TypeOK
<1>3. CASE Silence
  <2>1. awaited' = 0 /\ UNCHANGED <<resp, gen, cancelled, close>>
    BY <1>3, Zenon DEF Silence
  <2> QED BY <2>1 DEF Known
<1>4. CASE RespondToText \/ RespondToPending
  <2>1. StartRespond /\ UNCHANGED <<gen, cancelled, awaited, close>>
    BY <1>4, Zenon DEF RespondToText, RespondToPending
  <2>2. PICK r \in Responses : resp[r] = "idle" /\ resp' = [resp EXCEPT ![r] = "spawned"]
    BY <2>1, Zenon DEF StartRespond
  <2> QED BY <1>a, <2>1, <2>2 DEF Known, TypeOK
<1>5. ASSUME NEW r \in Responses, Register(r) \/ StopSpeaking(r) \/ HandOver(r) PROVE Known'
  <2>1. /\ resp[r] # "idle"
        /\ \E to \in {"speaking", "reply", "done"} : resp' = [resp EXCEPT ![r] = to]
    BY <1>5 DEF Register, StopSpeaking, HandOver, Becomes
  <2>2. (gen' = gen \/ gen' = r) /\ UNCHANGED <<awaited, cancelled, close>>
    BY <1>5, Zenon DEF Register, StopSpeaking, HandOver, Becomes
  <2> QED BY <1>a, <2>1, <2>2, KnownRespond
<1>6. CASE Close
  <2>1. cancelled' = Responses /\ UNCHANGED <<resp, gen, awaited>>
    BY <1>6, Zenon DEF Close
  <2> QED BY <2>1 DEF Known
<1>7. CASE WaitDone
  <2>1. close = "waiting" /\ UNCHANGED <<resp, gen, awaited, cancelled>>
    BY <1>7, Zenon DEF WaitDone
  <2> QED BY <2>1 DEF Known
<1>8. ASSUME \/ HearPartial \/ HearDuplicate \/ HearConfirmed \/ HearFinal
             \/ ReadText \/ Restore \/ DropPartial \/ SendPending \/ SchedulePending
             \/ ReadReply \/ EmitReply \/ Exit \/ Timers
             \/ (\E r \in Responses : Speak(r)) \/ Recv \/ RecvTranscript \/ UNCHANGED vars
      PROVE  Known'
  <2>1. UNCHANGED <<resp, gen, cancelled, awaited, close>>
    BY <1>8, Zenon
    DEF HearPartial, HearDuplicate, HearConfirmed, HearFinal, ReadText, Restore, DropPartial,
        SendPending, SchedulePending, ReadReply, EmitReply, Exit, Timers, TimerFires,
        LooseExits, TimerExits, Speak, Recv, RecvTranscript, vars
  <2> QED BY <1>1, <2>1
<1> QED
  BY <1>2, <1>3, <1>4, <1>5, <1>6, <1>7, <1>8, Zenon DEF Next, Hear, Continue, Respond

\* A claim finds a response that was not started.
LEMMA ClaimServed ==
  ASSUME TypeOK, Afforded, pending \/ at = "typed"
  PROVE  \E r \in Responses : Startable(r)
<1>1. PICK n \in 0..MaxEvents : FirstStarted(n) /\ n + Claims <= events
  BY DEF Afforded
<1>2. pending \in BOOLEAN
  BY Zenon DEF TypeOK
<1>3. One(pending) = 1 \/ One(InHand) = 1
  <2>1. CASE pending
    BY <1>2, <2>1, OneValue, Zenon
  <2>2. CASE at = "typed"
    BY <2>2 DEF One, InHand
  <2> QED BY <2>1, <2>2
<1>4. One(pending) \in 0..1 /\ One(timer) \in 0..1 /\ One(InHand) \in 0..1 /\ loose \in Nat
  <2>1. timer \in BOOLEAN /\ loose \in Nat
    BY Zenon DEF TypeOK
  <2>2. InHand \in BOOLEAN
    BY DEF InHand
  <2> QED BY <1>2, <2>1, <2>2, OneValue, Zenon
<1>5. Claims >= 1 /\ Claims \in Nat
  BY <1>3, <1>4 DEF Claims
<1>6. n + 1 <= MaxEvents /\ n \in Nat
  BY <1>1, <1>5, CascadeAssumption DEF Afforded, TypeOK
<1>7. n + 1 \in Responses
  BY <1>6 DEF Responses
<1>8. Startable(n + 1)
  BY <1>1, <1>6, <1>7, CascadeAssumption DEF FirstStarted, Startable, Responses
<1> QED BY <1>7, <1>8

----------------------------------------------------------------------------
(* The responses are those of ResponseLife                                 *)

\* A response, whichever.
CONSTANT AResponse

\* The places of recvCh that it has filled, and how many they are.
Queued == {i \in 1..Len(recvCh) : recvCh[i] = AResponse}
Backlog == Cardinality(Queued)

\* A queue of that many of its chunks.
Share(n) == [i \in 1..n |-> AResponse]

\* What it does.  One that run() has not started yet is about to be.
Phase == IF resp[AResponse] = "idle" THEN "spawned" ELSE resp[AResponse]

\* Its life, with the share it has of recvCh.
Life == INSTANCE ResponseLife WITH
  Chunk <- {AResponse},
  phase <- Phase,
  cancelled <- AResponse \in cancelled,
  closed <- close # "no",
  recvCh <- Share(Backlog)

\* A share grows by a chunk at its end and shrinks by one at its head.
LEMMA ShareMoves ==
  ASSUME NEW n \in Nat
  PROVE  /\ Len(Share(n)) = n
         /\ n = 0 => Share(n) = <<>>
         /\ n > 0 => Share(n) # <<>> /\ Tail(Share(n)) = Share(n - 1)
         /\ Share(n + 1) # <<>>
         /\ Front(Share(n + 1)) = Share(n)
         /\ Last(Share(n + 1)) = AResponse
<1> USE DEF Share
<1>1. Share(n) \in Seq({AResponse}) /\ Len(Share(n)) = n
  OBVIOUS
<1>2. n > 0 => Share(n) # <<>> /\ Tail(Share(n)) = Share(n - 1)
  OBVIOUS
<1>3. Share(n + 1) \in Seq({AResponse}) /\ Len(Share(n + 1)) = n + 1
  OBVIOUS
<1>4. Front(Share(n + 1)) = Share(n)
  BY <1>3 DEF Front
<1>5. Last(Share(n + 1)) = AResponse
  BY <1>3 DEF Last
<1>6. Share(n + 1) # <<>> /\ (n = 0 => Share(n) = <<>>)
  BY <1>1, <1>3
<1> QED BY <1>1, <1>2, <1>4, <1>5, <1>6, Zenon

\* The backlog is a number.
LEMMA BacklogNat ==
  ASSUME TypeOK
  PROVE  IsFiniteSet(Queued) /\ Backlog \in Nat /\ Backlog <= Len(recvCh)
<1>1. Len(recvCh) \in Nat
  BY DEF TypeOK
<1>2. IsFiniteSet(1..Len(recvCh)) /\ Cardinality(1..Len(recvCh)) = Len(recvCh)
  <2>1. /\ IsFiniteSet(1..Len(recvCh))
        /\ Cardinality(1..Len(recvCh)) = IF 1 > Len(recvCh) THEN 0 ELSE Len(recvCh) - 1 + 1
    <3>1. 1 \in Int /\ Len(recvCh) \in Int
      BY <1>1
    <3> QED BY <3>1, FS_Interval, Zenon
  <2> QED BY <1>1, <2>1
<1>3. Queued \subseteq 1..Len(recvCh)
  BY DEF Queued
<1> QED BY <1>1, <1>2, <1>3, FS_Subset, FS_CardinalityType DEF Backlog

\* A chunk of its own is one more, a chunk of another response none.
LEMMA BacklogGrows ==
  ASSUME TypeOK, NEW r \in Responses, recvCh' = Append(recvCh, r)
  PROVE  Backlog' = IF r = AResponse THEN Backlog + 1 ELSE Backlog
<1>1. recvCh \in Seq(Responses) /\ Len(recvCh) \in Nat
  BY DEF TypeOK
<1>2. /\ Len(recvCh') = Len(recvCh) + 1
      /\ recvCh'[Len(recvCh) + 1] = r
      /\ \A i \in 1..Len(recvCh) : recvCh'[i] = recvCh[i]
  BY <1>1
<1>3. Len(recvCh) + 1 \notin Queued
  BY <1>1 DEF Queued
<1>4. CASE r = AResponse
  <2>1. Queued' = Queued \cup {Len(recvCh) + 1}
    BY <1>1, <1>2, <1>4 DEF Queued
  <2> QED BY <1>3, <1>4, <2>1, BacklogNat, FS_AddElement DEF Backlog
<1>5. CASE r # AResponse
  <2>1. Queued' = Queued
    BY <1>1, <1>2, <1>5 DEF Queued
  <2> QED BY <1>5, <2>1 DEF Backlog
<1> QED BY <1>4, <1>5

\* The chunk the bridge takes is one less if it is its own.
LEMMA BacklogShrinks ==
  ASSUME TypeOK, recvCh # <<>>, recvCh' = Tail(recvCh)
  PROVE  Backlog' = IF recvCh[1] = AResponse THEN Backlog - 1 ELSE Backlog
<1>1. recvCh \in Seq(Responses) /\ Len(recvCh) \in Nat /\ Len(recvCh) > 0
  BY DEF TypeOK
<1>2. Len(recvCh') = Len(recvCh) - 1 /\ \A i \in 1..Len(recvCh') : recvCh'[i] = recvCh[i + 1]
  BY <1>1
<1> DEFINE rest == Queued \ {1}
           f == [i \in Queued' |-> i + 1]
<1>3. IsFiniteSet(rest)
  BY BacklogNat, FS_Subset
<1>4. f \in Bijection(Queued', rest)
  <2>1. f \in [Queued' -> rest]
    BY <1>1, <1>2 DEF Queued
  <2>2. \A i, j \in Queued' : f[i] = f[j] => i = j
    BY <1>1, <1>2 DEF Queued
  <2>3. ASSUME NEW j \in rest PROVE \E i \in Queued' : f[i] = j
    <3>1. j - 1 \in Queued'
      BY <1>1, <1>2 DEF Queued
    <3>2. f[j - 1] = j
      BY <1>1, <3>1 DEF Queued
    <3> QED BY <3>1, <3>2
  <2> HIDE DEF f, rest
  <2> QED BY <2>1, <2>2, <2>3, Zenon DEF Bijection, Injection, Surjection, IsInjective
<1>5. Backlog' = Cardinality(rest)
  <2>1. ExistsBijection(Queued', rest)
    BY <1>4 DEF ExistsBijection
  <2>2. ExistsBijection(rest, Queued')
    BY <2>1, Fun_ExistsBijSymmetric
  <2> HIDE DEF rest
  <2> QED BY <1>3, <2>2, FS_Bijection DEF Backlog
<1>6. 1 \in Queued <=> recvCh[1] = AResponse
  BY <1>1 DEF Queued
<1>7. Cardinality(rest) = IF 1 \in Queued THEN Backlog - 1 ELSE Backlog
  BY BacklogNat, FS_RemoveElement DEF Backlog
<1> QED BY <1>5, <1>6, <1>7

\* Nothing is queued at first.
LEMMA InitLife == AResponse \in Responses /\ Init => Life!Init
<1> SUFFICES ASSUME AResponse \in Responses, Init PROVE Life!Init
  OBVIOUS
<1>1. Queued = {}
  BY DEF Init, Queued
<1>2. Backlog = 0
  BY <1>1, FS_EmptySet DEF Backlog
<1>3. Share(Backlog) = <<>>
  BY <1>2, ShareMoves
<1>4. Phase = "spawned" /\ (AResponse \in cancelled) = FALSE /\ (close # "no") = FALSE
  BY DEF Init, Phase
<1> QED BY <1>3, <1>4, Zenon DEF Life!Init

\* recvCh unchanged is the share unchanged.
LEMMA BacklogSame == UNCHANGED recvCh => UNCHANGED Backlog
BY DEF Backlog, Queued

\* A step that changes nothing of the response is no step of its life.
LEMMA LifeStays ==
  ASSUME UNCHANGED Phase, UNCHANGED Backlog,
         (AResponse \in cancelled') = (AResponse \in cancelled),
         (close' # "no") = (close # "no")
  PROVE  [Life!Next]_Life!vars
BY Zenon DEF Life!vars

\* A step of a response, whichever, that leaves recvCh alone.
LEMMA LifeBecomes ==
  ASSUME TypeOK, AResponse \in Responses, NEW r \in Responses, NEW from, NEW to,
         from # "idle", to # "idle", Becomes(r, from, to), UNCHANGED recvCh
  PROVE  IF r = AResponse THEN Life!Becomes(from, to) ELSE [Life!Next]_Life!vars
<1>1. resp \in [Responses -> {"idle", "spawned", "speaking", "reply", "done"}]
  BY DEF TypeOK
<1>2. resp' = [resp EXCEPT ![r] = to] /\ resp[r] = from /\ UNCHANGED <<cancelled, close>>
  BY DEF Becomes
<1>3. UNCHANGED Backlog
  BY BacklogSame
<1>4. CASE r = AResponse
  <2>1. Phase = from /\ Phase' = to
    BY <1>1, <1>2, <1>4 DEF Phase
  <2> QED BY <1>2, <1>3, <1>4, <2>1, Zenon DEF Life!Becomes
<1>5. CASE r # AResponse
  <2>1. UNCHANGED Phase
    BY <1>1, <1>2, <1>5 DEF Phase
  <2> QED BY <1>2, <1>3, <1>5, <2>1, LifeStays, Zenon
<1> QED BY <1>4, <1>5

\* A step of the orchestrator is a step of the life of the response, or none.
LEMMA NextLife ==
  ASSUME AResponse \in Responses, TypeOK, [Next]_vars
  PROVE  [Life!Next]_Life!vars
<1> DEFINE Goal == [Life!Next]_Life!vars
<1>r. resp \in [Responses -> {"idle", "spawned", "speaking", "reply", "done"}]
  BY DEF TypeOK
<1>q. UNCHANGED <<resp, cancelled, close, recvCh>> => Goal
  <2> SUFFICES ASSUME UNCHANGED <<resp, cancelled, close, recvCh>> PROVE Goal
    OBVIOUS
  <2>1. UNCHANGED Phase /\ UNCHANGED Backlog
    BY BacklogSame DEF Phase
  <2> QED BY <2>1, LifeStays, Zenon
<1>s. StartRespond /\ UNCHANGED <<cancelled, close, recvCh>> => Goal
  <2> SUFFICES ASSUME StartRespond, UNCHANGED <<cancelled, close, recvCh>> PROVE Goal
    OBVIOUS
  <2>1. PICK r \in Responses : resp[r] = "idle" /\ resp' = [resp EXCEPT ![r] = "spawned"]
    BY DEF StartRespond
  <2>2. UNCHANGED Phase
    BY <1>r, <2>1 DEF Phase
  <2> QED BY <2>2, BacklogSame, LifeStays, Zenon
<1>1. CASE HearPartial
  BY <1>1, <1>q DEF HearPartial, respondVars, channelVars
<1>2. CASE HearSpeech
  <2>1. UNCHANGED Phase /\ UNCHANGED Backlog /\ UNCHANGED close
    BY <1>2, BacklogSame DEF HearSpeech, Phase, channelVars
  <2>2. cancelled' = IF gen = 0 THEN cancelled ELSE cancelled \cup {gen}
    BY <1>2 DEF HearSpeech
  <2>3. CASE gen = AResponse
    <3>1. (AResponse \in cancelled') = TRUE
      BY <2>2, <2>3, CascadeAssumption DEF Responses
    <3>2. (close' # "no") = (close # "no")
      BY <2>1
    <3>3. Life!Cancel
      BY <2>1, <3>1, <3>2, Zenon DEF Life!Cancel
    <3> QED BY <3>3, Zenon DEF Life!Next
  <2>4. CASE gen # AResponse
    <3>1. (AResponse \in cancelled') = (AResponse \in cancelled)
      BY <2>2, <2>4
    <3> QED BY <2>1, <3>1, LifeStays, Zenon
  <2> QED BY <2>3, <2>4
<1>3. CASE HearDuplicate \/ HearConfirmed \/ HearFinal
  BY <1>3, <1>q DEF HearDuplicate, HearConfirmed, HearFinal, respondVars, channelVars
<1>4. CASE ReadText \/ Restore
  BY <1>4, <1>q DEF ReadText, Restore, respondVars, channelVars
<1>5. CASE DropPartial \/ SendPending \/ SchedulePending
  BY <1>5, <1>q DEF DropPartial, SendPending, SchedulePending, respondVars, channelVars
<1>6. CASE Silence
  <2>1. recvCh' = <<>> /\ UNCHANGED <<resp, cancelled, close>>
    BY <1>6 DEF Silence, respondVars
  <2>2. Queued' = {}
    BY <2>1 DEF Queued
  <2>3. Backlog' = 0
    BY <2>2, FS_EmptySet DEF Backlog
  <2>4. Share(Backlog') = <<>>
    BY <2>3, ShareMoves
  <2>5. UNCHANGED Phase
    BY <2>1 DEF Phase
  <2>6. Life!Drain
    BY <2>1, <2>4, <2>5, Zenon DEF Life!Drain
  <2> QED BY <2>6, Zenon DEF Life!Next
<1>7. CASE RespondToText
  BY <1>7, <1>s DEF RespondToText
<1>8. CASE RespondToPending
  BY <1>8, <1>s DEF RespondToPending, channelVars
<1>9. CASE ReadReply \/ EmitReply
  BY <1>9, <1>q DEF ReadReply, EmitReply, respondVars
<1>10. CASE Exit
  BY <1>10, <1>q DEF Exit, respondVars, channelVars
<1>11. CASE Timers
  BY <1>11, <1>q DEF Timers, TimerFires, LooseExits, TimerExits, respondVars, channelVars
<1>12. ASSUME NEW r \in Responses, Respond(r) PROVE Goal
  <2>1. CASE Register(r)
    <3>1. Becomes(r, "spawned", "speaking") /\ UNCHANGED recvCh
      BY <2>1 DEF Register, channelVars
    <3>2. IF r = AResponse THEN Life!Register ELSE Goal
      BY <3>1, LifeBecomes DEF Life!Register
    <3> QED BY <3>2, Zenon DEF Life!Next
  <2>2. CASE Speak(r)
    <3>1. /\ Len(recvCh) < AudioCap
          /\ recvCh' = Append(recvCh, r)
          /\ UNCHANGED <<resp, cancelled, close>>
      BY <2>2 DEF Speak, respondVars
    <3>2. UNCHANGED Phase
      BY <3>1 DEF Phase
    <3>3. Backlog' = IF r = AResponse THEN Backlog + 1 ELSE Backlog
      BY <3>1, BacklogGrows
    <3>4. CASE r = AResponse
      <4>1. Backlog \in Nat /\ Backlog < AudioCap
        BY <3>1, BacklogNat, CascadeAssumption DEF TypeOK
      <4>2. Len(Share(Backlog)) < AudioCap
        BY <4>1, ShareMoves
      <4>3. Share(Backlog') = Share(Backlog + 1)
        BY <3>3, <3>4
      <4>4. /\ Share(Backlog') # <<>>
            /\ Front(Share(Backlog')) = Share(Backlog)
            /\ Last(Share(Backlog')) = AResponse
        BY <4>1, <4>3, ShareMoves, Zenon
      <4>5. /\ Life!Front(Share(Backlog')) = Share(Backlog)
            /\ Life!Last(Share(Backlog')) \in {AResponse}
        BY <4>4, Zenon DEF Front, Last, Life!Front, Life!Last
      <4>6. Phase = "speaking"
        BY <2>2, <3>4 DEF Speak, Phase
      <4>7. Life!Speak
        BY <3>1, <3>2, <4>2, <4>4, <4>5, <4>6, Zenon DEF Life!Speak
      <4> QED BY <4>7, Zenon DEF Life!Next
    <3>5. CASE r # AResponse
      BY <3>1, <3>2, <3>3, <3>5, LifeStays, Zenon
    <3> QED BY <3>4, <3>5
  <2>3. CASE StopSpeaking(r)
    <3>1. PICK to \in {"reply", "done"} : Becomes(r, "speaking", to)
      BY <2>3 DEF StopSpeaking
    <3>2. UNCHANGED recvCh
      BY <2>3 DEF StopSpeaking, channelVars
    <3>3. IF r = AResponse THEN Life!Becomes("speaking", to) ELSE Goal
      BY <3>1, <3>2, LifeBecomes
    <3>4. r = AResponse => Life!StopSpeaking
      BY <3>1, <3>3 DEF Life!StopSpeaking
    <3> QED BY <3>3, <3>4, Zenon DEF Life!Next
  <2>4. CASE HandOver(r)
    <3>1. Becomes(r, "reply", "done") /\ UNCHANGED recvCh
      BY <2>4 DEF HandOver
    <3>2. IF r = AResponse THEN Life!HandOver ELSE Goal
      BY <3>1, LifeBecomes DEF Life!HandOver
    <3> QED BY <3>2, Zenon DEF Life!Next
  <2> QED BY <1>12, <2>1, <2>2, <2>3, <2>4 DEF Respond
<1>13. CASE Recv
  <2>1. recvCh # <<>> /\ recvCh' = Tail(recvCh) /\ UNCHANGED <<resp, cancelled, close>>
    BY <1>13 DEF Recv, respondVars
  <2>2. UNCHANGED Phase
    BY <2>1 DEF Phase
  <2>3. Backlog' = IF recvCh[1] = AResponse THEN Backlog - 1 ELSE Backlog
    BY <2>1, BacklogShrinks
  <2>4. CASE recvCh[1] = AResponse
    <3>1. 1 \in Queued
      BY <2>1, <2>4 DEF Queued, TypeOK
    <3>2. Backlog \in Nat /\ Backlog > 0
      BY <3>1, BacklogNat, FS_EmptySet DEF Backlog
    <3>3. Share(Backlog) # <<>> /\ Tail(Share(Backlog)) = Share(Backlog - 1)
      BY <3>2, ShareMoves, Zenon
    <3>4. Share(Backlog') = Tail(Share(Backlog))
      BY <2>3, <2>4, <3>3
    <3>5. Life!Recv
      BY <2>1, <2>2, <3>3, <3>4, Zenon DEF Life!Recv
    <3> QED BY <3>5, Zenon DEF Life!Next
  <2>5. CASE recvCh[1] # AResponse
    BY <2>1, <2>2, <2>3, <2>5, LifeStays, Zenon
  <2> QED BY <2>4, <2>5
<1>14. CASE RecvTranscript
  BY <1>14, <1>q DEF RecvTranscript, respondVars
<1>15. CASE Close
  <2>1. UNCHANGED Phase /\ UNCHANGED Backlog
    BY <1>15, BacklogSame DEF Close, Phase, channelVars
  <2>2. (AResponse \in cancelled') = TRUE /\ (close' # "no") = TRUE
    BY <1>15 DEF Close
  <2>3. Life!Cancel
    BY <2>1, <2>2, Zenon DEF Life!Cancel
  <2> QED BY <2>3, Zenon DEF Life!Next
<1>16. CASE WaitDone
  <2>1. UNCHANGED Phase /\ UNCHANGED Backlog /\ UNCHANGED cancelled
    BY <1>16, BacklogSame DEF WaitDone, Phase, respondVars, channelVars
  <2>2. (close' # "no") = (close # "no")
    BY <1>16 DEF WaitDone
  <2> QED BY <2>1, <2>2, LifeStays, Zenon
<1>17. CASE UNCHANGED vars
  BY <1>17, <1>q DEF vars, respondVars, channelVars
<1> QED
  BY <1>1, <1>2, <1>3, <1>4, <1>5, <1>6, <1>7, <1>8, <1>9, <1>10, <1>11, <1>12, <1>13, <1>14,
     <1>15, <1>16, <1>17, Zenon DEF Next, Hear, Continue

----------------------------------------------------------------------------
(* Theorems                                                                *)

\* The inductive invariant of the cascade.
THEOREM CascadeInvariance == Spec => []CascadeInv
<1>1. Init => CascadeInv
  BY InitCascadeInv
<1>2. CascadeInv /\ [Next]_vars => CascadeInv'
  BY NextCascadeInv
<1> QED BY <1>1, <1>2, PTL DEF Spec

\* The variables keep their types.
THEOREM CascadeTypeCorrect == Spec => []TypeOK
<1>1. CascadeInv => TypeOK
  BY Zenon DEF CascadeInv
<1> QED BY <1>1, CascadeInvariance, PTL

\* The active speculation is the last turn and the only one nobody said: what
\* turn.go's removeSpeculative and confirmation take for granted.
THEOREM SpeculationStaysLast == Spec => []SpeculationIsLast
<1>1. CascadeInv => SpeculationIsLast
  BY Zenon DEF CascadeInv
<1> QED BY <1>1, CascadeInvariance, PTL

\* No turn that was said is dropped or rewritten, in any run of handleASR,
\* typed turns, replies and barge-ins where no speculation was overtaken.
THEOREM DialogueStaysKept == Spec => DialogueKept
<1>1. CascadeInv /\ [Next]_vars =>
        [\/ overtaken'
         \/ \A k \in 1..Len(history) :
              history[k].role # "tentative" => k <= Len(history') /\ history'[k] = history[k]]_vars
  BY NextHistory, Zenon DEF HistoryStep
<1> QED BY <1>1, CascadeInvariance, PTL DEF Spec, DialogueKept

\* After a barge-in nothing of an earlier response is heard, in any interleaving
\* of responses, inputs and the bridge, unless bargeIn did not know of a response
\* that was running (genCancel and genDone hold one).
THEOREM BargeInSilences == Spec => []SilentAfterBargeIn
<1>1. Init => Hushing
  BY DEF Init, Hushing
<1>2. Hushing => SilentAfterBargeIn
  BY DEF Hushing, SilentAfterBargeIn
<1> QED BY <1>1, <1>2, NextHushing, CascadeInvariance, PTL DEF Spec

\* Each started response, each wait and each signal has an input of its own.
THEOREM CascadeAffordsTurns == Spec => []Afforded
<1>1. Init => Afforded
  <2> SUFFICES ASSUME Init PROVE Afforded
    OBVIOUS
  <2>1. ~pending /\ ~timer
    BY Zenon DEF Init
  <2>2. One(pending) = 0 /\ One(timer) = 0 /\ One(InHand) = 0 /\ loose = 0 /\ events = 0
    BY <2>1 DEF Init, One, InHand
  <2>3. Claims = 0
    BY <2>2 DEF Claims
  <2>4. FirstStarted(0)
    BY DEF Init, FirstStarted, Responses
  <2> QED BY <2>2, <2>3, <2>4, CascadeAssumption DEF Afforded
<1> QED BY <1>1, NextAfforded, CascadeInvariance, PTL DEF Spec

\* A turn that is to be answered always finds a response to start: the bound on
\* responses is none, whatever speculations are taken back, confirmed or
\* restarted by waits that were cancelled too late.
THEOREM EveryTurnCanStart == Spec => [](pending \/ at = "typed" => \E r \in Responses : Startable(r))
<1>1. CascadeInv /\ Afforded => (pending \/ at = "typed" => \E r \in Responses : Startable(r))
  BY ClaimServed, Zenon DEF CascadeInv
<1> QED BY <1>1, CascadeAffordsTurns, CascadeInvariance, PTL

\* Wherever run(), the responses and the waits block when Close cancels the
\* context, and however full the channels are, one of them can take a step until
\* all are gone, but for a run() that waits to send on its own pendingCh.
THEOREM CascadeCloseNeverStuck == Spec => []NeverStuck
<1>1. Init => Known
  BY DEF Init, Known
<1>2. CascadeInv /\ Afforded /\ Known => NeverStuck
  <2> SUFFICES ASSUME CascadeInv, Afforded, Known, close = "waiting", ~WaitsForItself
               PROVE  ClosingGoesOn
    BY DEF NeverStuck
  <2>1. TypeOK
    BY Zenon DEF CascadeInv
  <2>2. ASSUME NEW r \in Responses, Alive(r) PROVE ClosingGoesOn
    <3>1. resp[r] \in {"spawned", "speaking", "reply"}
      BY <2>1, <2>2 DEF Alive, TypeOK
    <3>2. r \in cancelled
      BY DEF Known
    <3> QED BY <3>1, <3>2 DEF ResponseGoesOn, ClosingGoesOn
  <2>3. CASE at \in {"select", "partial", "final", "reply"}
    BY <2>3 DEF RunGoesOn, ClosingGoesOn
  <2>4. CASE at = "typed"
    BY <2>1, <2>4, ClaimServed DEF RunGoesOn, ClosingGoesOn
  <2>5. CASE at = "send"
    BY <2>5, Zenon DEF WaitsForItself, RunGoesOn, ClosingGoesOn
  <2>6. CASE at = "silence"
    <3>1. CASE awaited # 0 /\ resp[awaited] # "done"
      BY <2>1, <2>2, <3>1 DEF Known, TypeOK, Alive
    <3>2. CASE awaited # 0 => resp[awaited] = "done"
      BY <2>6, <3>2 DEF RunGoesOn, ClosingGoesOn
    <3> QED BY <3>1, <3>2
  <2>7. CASE at = "exited"
    <3>1. loose = 0 \/ loose > 0
      BY <2>1 DEF TypeOK
    <3> QED BY <2>2, <2>7, <3>1, Zenon DEF AllGone, ClosingGoesOn
  <2> QED BY <2>1, <2>3, <2>4, <2>5, <2>6, <2>7 DEF TypeOK
<1> QED BY <1>1, <1>2, NextKnown, CascadeAffordsTurns, CascadeInvariance, PTL DEF Spec

\* A response, whichever, lives in the orchestrator as ResponseLife has it: it
\* registers once, queues audio only while it speaks, in its order and in a
\* queue of its own among those of the others, ends once, and what is taken
\* from that queue is taken by the bridge at its head, or all of it by bargeIn
\* (respond.go).  The inside of it is shown to keep the same promise
\* (ResponseImplementsLife), so that Cascade may stand for it by four steps.
THEOREM CascadeRunsResponses == AResponse \in Responses => (Spec => Life!Spec)
<1> SUFFICES ASSUME AResponse \in Responses PROVE Spec => Life!Spec
  OBVIOUS
<1>1. Init => Life!Init
  BY InitLife
<1>2. TypeOK /\ [Next]_vars => [Life!Next]_Life!vars
  BY NextLife
<1> QED BY <1>1, <1>2, CascadeTypeCorrect, PTL DEF Spec, Life!Spec

=============================================================================
