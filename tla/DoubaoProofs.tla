---------------------------- MODULE DoubaoProofs ----------------------------
(***************************************************************************)
(* Proofs about DoubaoSession: its types, and that the server does not     *)
(* wait for audio longer than the keep-alive promises, for any idle time.  *)
(*                                                                         *)
(* KeptAlive is not inductive: that quiet stays low follows from its being *)
(* counted as since is, except while the microphone, which stores lastSend *)
(* before it writes, is between the two; and a tick that finds it there    *)
(* shows as stalled.  Watched says so.                                     *)
(***************************************************************************)
EXTENDS DoubaoSession, TLAPS

\* The keep-alive has something to watch over.
Live == phase = "open" /\ conn = "up" /\ ctx = "live" /\ ~stalled

\* What the keep-alive knows of the silence.
Watched ==
  /\ keeper \in {"wait", "woken", "lock", "write"}
  /\ quiet <= Idle + 1
  /\ mic \in {"idle", "gone"} => quiet <= since
  /\ keeper = "wait" => since <= Idle

\* readLoop has a transcript in hand while it sends one; and the goroutines
\* run only in an open session.
Started ==
  /\ reader = "text" => emit > 0
  /\ phase = "open" => mic # "none"

IInv == TypeOK /\ Started /\ (Live => Watched)

\* The constants are positive numbers.
LEMMA Numbers ==
  /\ Idle \in Nat /\ Idle > 0
  /\ AudioCap \in Nat /\ AudioCap > 0
  /\ TextCap \in Nat /\ TextCap > 0
  /\ MaxResults \in Nat /\ MaxResults > 0
<1>1. \A n \in {Idle, AudioCap, TextCap, MaxResults} : n \in Nat /\ n # 0
  BY DoubaoAssumption, Zenon 
<1>2. /\ Idle \in Nat /\ Idle # 0 /\ AudioCap \in Nat /\ AudioCap # 0
      /\ TextCap \in Nat /\ TextCap # 0 /\ MaxResults \in Nat /\ MaxResults # 0
  BY <1>1, Zenon
<1> QED BY <1>2

\* The invariant holds initially.
LEMMA InitIInv == Init => IInv
<1> SUFFICES ASSUME Init PROVE IInv
  OBVIOUS
<1>1. signal \in BOOLEAN /\ stalled \in BOOLEAN
  BY Zenon DEF Init
<1>2. TypeOK
  BY <1>1, Numbers DEF Init, TypeOK, Channels
<1>3. Started /\ ~Live
  BY DEF Init, Started, Live
<1> QED BY <1>2, <1>3 DEF IInv

\* Every step keeps the types, and what readLoop has in hand.
LEMMA NextTypeOK ==
  ASSUME TypeOK, Started, [Next]_vars
  PROVE  TypeOK' /\ Started'
<1> DEFINE Goal == TypeOK' /\ Started'
<1> SUFFICES Goal
  OBVIOUS
<1> USE Numbers DEF TypeOK, Started, Channels, dialVars, readVars, chanVars, sendVars, bridgeVars
<1>1. CASE Dial
  BY <1>1 DEF Dial
<1>2. CASE StartConnection
  BY <1>2 DEF StartConnection
<1>3. CASE StartFails
  BY <1>3 DEF StartFails
<1>4. CASE StartSession
  BY <1>4 DEF StartSession
<1>5. CASE Break
  BY <1>5 DEF Break
<1>6. CASE ReadTTS
  BY <1>6 DEF ReadTTS, Receives
<1>7. CASE ReadASRInfo
  BY <1>7 DEF ReadASRInfo, Receives
<1>8. CASE ReadText
  BY <1>8 DEF ReadText, Receives
<1>9. CASE ReadEnds
  BY <1>9 DEF ReadEnds
<1>10. CASE QueueAudio
  BY <1>10 DEF QueueAudio
<1>11. CASE EmitTranscript
  BY <1>11 DEF EmitTranscript
<1>12. CASE CloseNext
  BY <1>12 DEF CloseNext, Channels
<1>13. CASE KeepAliveWaits
  BY <1>13 DEF KeepAliveWaits
<1>14. CASE KeepAliveSends
  BY <1>14 DEF KeepAliveSends
<1>15. CASE KeeperLocks
  BY <1>15 DEF KeeperLocks, Unlocked
<1>16. CASE KeeperWrites
  BY <1>16 DEF KeeperWrites, Writable
<1>17. CASE KeeperEnds
  BY <1>17 DEF KeeperEnds
<1>18. CASE MicLocks
  BY <1>18 DEF MicLocks, Unlocked
<1>19. CASE MicWrites
  BY <1>19 DEF MicWrites, Writable
<1>20. CASE Second
  BY <1>20 DEF Second, Sending, Writable
<1>21. CASE OpenChannel
  BY <1>21 DEF OpenChannel
<1>22. CASE Recv
  BY <1>22 DEF Recv
<1>23. CASE RecvTranscript
  BY <1>23 DEF RecvTranscript
<1>24. CASE ForwardFails
  BY <1>24 DEF ForwardFails
<1>25. CASE SendAudio
  BY <1>25 DEF SendAudio
<1>26. CASE MicEnds
  BY <1>26 DEF MicEnds
<1>27. CASE RecvEOF
  BY <1>27 DEF RecvEOF
<1>28. CASE TranscriptEOF
  BY <1>28 DEF TranscriptEOF
<1>29. CASE RecvInterrupted
  <2>1. signal' \in BOOLEAN
    BY <1>29, Zenon DEF RecvInterrupted
  <2> QED BY <1>29, <2>1 DEF RecvInterrupted
<1>30. CASE MonitorEnds
  BY <1>30 DEF MonitorEnds
<1>31. CASE DrainAudioQueue
  BY <1>31 DEF DrainAudioQueue
<1>32. CASE Cancel
  BY <1>32 DEF Cancel
<1>33. CASE CloseConn
  BY <1>33 DEF CloseConn
<1>34. CASE WaitDone
  BY <1>34 DEF WaitDone
<1>35. CASE UNCHANGED vars
  BY <1>35 DEF vars
<1> HIDE DEF Goal
<1> QED
  BY <1>1, <1>2, <1>3, <1>4, <1>5, <1>6, <1>7, <1>8, <1>9, <1>10, <1>11, <1>12, <1>13, <1>14, <1>15, <1>16, <1>17, <1>18, <1>19, <1>20, <1>21, <1>22, <1>23, <1>24, <1>25, <1>26, <1>27, <1>28, <1>29, <1>30, <1>31, <1>32, <1>33, <1>34, <1>35
  DEF New, ReadEvent, ReadLoop, Keeper, Mic, Bridge, Closing, Monitor, Next

\* While the session is alive every step keeps the watch.
LEMMA NextWatched ==
  ASSUME TypeOK, Started, Live => Watched, [Next]_vars
  PROVE  (Live => Watched)'
<1> DEFINE Goal == (Live => Watched)'
<1> SUFFICES Goal
  OBVIOUS
<1> USE Numbers DEF TypeOK, Started, Live, Watched, dialVars, readVars, chanVars, sendVars, bridgeVars
<1>1. CASE Dial
  BY <1>1 DEF Dial
<1>2. CASE StartConnection
  BY <1>2 DEF StartConnection
<1>3. CASE StartFails
  BY <1>3 DEF StartFails
<1>4. CASE StartSession
  BY <1>4 DEF StartSession
<1>5. CASE Break
  BY <1>5 DEF Break
<1>6. CASE ReadTTS
  BY <1>6 DEF ReadTTS, Receives
<1>7. CASE ReadASRInfo
  BY <1>7 DEF ReadASRInfo, Receives
<1>8. CASE ReadText
  BY <1>8 DEF ReadText, Receives
<1>9. CASE ReadEnds
  BY <1>9 DEF ReadEnds
<1>10. CASE QueueAudio
  BY <1>10 DEF QueueAudio
<1>11. CASE EmitTranscript
  BY <1>11 DEF EmitTranscript
<1>12. CASE CloseNext
  BY <1>12 DEF CloseNext, Channels
<1>13. CASE KeepAliveWaits
  BY <1>13 DEF KeepAliveWaits
<1>14. CASE KeepAliveSends
  BY <1>14 DEF KeepAliveSends
<1>15. CASE KeeperLocks
  BY <1>15 DEF KeeperLocks, Unlocked
<1>16. CASE KeeperWrites
  BY <1>16 DEF KeeperWrites, Writable
<1>17. CASE KeeperEnds
  BY <1>17 DEF KeeperEnds
<1>18. CASE MicLocks
  BY <1>18 DEF MicLocks, Unlocked
<1>19. CASE MicWrites
  BY <1>19 DEF MicWrites, Writable
<1>20. CASE Second
  <2>1. Second /\ TypeOK /\ (Live => Watched)
    BY <1>20
  <2>2. Live' => Live /\ ~Sending /\ Writable
    BY <2>1, Zenon DEF Second, Live, Writable, dialVars
  <2>3. SUFFICES ASSUME Live' PROVE Watched'
    BY DEF Live
  <2>4. /\ phase = "open" /\ ~Sending /\ Writable /\ ~stalled'
        /\ keeper # "woken" /\ Watched
    BY <2>1, <2>2, <2>3, Zenon DEF Second, Live
  <2>5. quiet' = IF quiet < Idle + 2 THEN quiet + 1 ELSE quiet
    BY <2>1, <2>4, Zenon DEF Second
  <2>6. keeper' = "woken" /\ keeper = "wait" /\ mic' = mic /\ mic \notin {"lock", "write"}
    BY <2>1, <2>4, Zenon DEF Second, Watched, Sending
  <2>7. since' = IF since < Idle + 1 THEN since + 1 ELSE since
    BY <2>1, Zenon DEF Second
  <2> QED BY <2>4, <2>5, <2>6, <2>7, Numbers DEF TypeOK, Watched
<1>21. CASE OpenChannel
  BY <1>21 DEF OpenChannel
<1>22. CASE Recv
  BY <1>22 DEF Recv
<1>23. CASE RecvTranscript
  BY <1>23 DEF RecvTranscript
<1>24. CASE ForwardFails
  BY <1>24 DEF ForwardFails
<1>25. CASE SendAudio
  BY <1>25 DEF SendAudio
<1>26. CASE MicEnds
  BY <1>26 DEF MicEnds
<1>27. CASE RecvEOF
  BY <1>27 DEF RecvEOF
<1>28. CASE TranscriptEOF
  BY <1>28 DEF TranscriptEOF
<1>29. CASE RecvInterrupted
  BY <1>29 DEF RecvInterrupted
<1>30. CASE MonitorEnds
  BY <1>30 DEF MonitorEnds
<1>31. CASE DrainAudioQueue
  BY <1>31 DEF DrainAudioQueue
<1>32. CASE Cancel
  BY <1>32 DEF Cancel
<1>33. CASE CloseConn
  BY <1>33 DEF CloseConn
<1>34. CASE WaitDone
  BY <1>34 DEF WaitDone
<1>35. CASE UNCHANGED vars
  BY <1>35 DEF vars
<1> HIDE DEF Goal
<1> QED
  BY <1>1, <1>2, <1>3, <1>4, <1>5, <1>6, <1>7, <1>8, <1>9, <1>10, <1>11, <1>12, <1>13, <1>14, <1>15, <1>16, <1>17, <1>18, <1>19, <1>20, <1>21, <1>22, <1>23, <1>24, <1>25, <1>26, <1>27, <1>28, <1>29, <1>30, <1>31, <1>32, <1>33, <1>34, <1>35
  DEF New, ReadEvent, ReadLoop, Keeper, Mic, Bridge, Closing, Monitor, Next

\* Every step keeps the invariant.
LEMMA NextIInv == IInv /\ [Next]_vars => IInv'
BY NextTypeOK, NextWatched DEF IInv

\* The invariant of the session.
LEMMA Invariance == Spec => []IInv
<1>1. Init => IInv
  BY InitIInv
<1>2. IInv /\ [Next]_vars => IInv'
  BY NextIInv
<1> QED BY <1>1, <1>2, PTL DEF Spec

\* In every behaviour of the session the variables have their types: no
\* channel is closed twice or filled beyond its capacity.
THEOREM DoubaoTypes == Spec => []TypeOK
<1>1. IInv => TypeOK
  BY DEF IInv
<1> QED BY <1>1, Invariance, PTL

\* In every behaviour of the session keepAlive and SendAudio between them send
\* the server audio at the latest a tick after the idle time.
THEOREM DoubaoKeptAlive == Spec => []KeptAlive
<1>1. IInv => KeptAlive
  BY DEF IInv, Live, Watched, KeptAlive
<1> QED BY <1>1, Invariance, PTL
=============================================================================
