------------------------- MODULE ReplayPipelineProofs -------------------------
(***************************************************************************)
(* Proofs about ReplayPipeline: its types, and that it implements          *)
(* TranscriptLog, for any number of nodes, sessions, lines and faults and  *)
(* any capacities.                                                         *)
(*                                                                         *)
(* What the index answers is right because every copy of a line, wherever  *)
(* it is on its way (Carried), is one that was recorded, and says of its   *)
(* owner what the session it was recorded under says of itself (Owned); so *)
(* that the index, which goes by a line's own word, has the lines of a     *)
(* session under its owner, one for each seq (Entry).                      *)
(***************************************************************************)
EXTENDS ReplayPipeline, FiniteSetTheorems, SequenceTheorems, TLAPS

\* A recorder runs for a session that was started, and its lines carry the
\* owner it was started with.
Owned ==
  /\ \A n \in Nodes, s \in Sessions : seq[n][s] # None => owner[s] # None
  /\ \A e \in said : e.owner = owner[e.session]

\* What is on its way was recorded.
Carried ==
  /\ \A n \in Nodes :
       /\ waiting[n] \subseteq said /\ sending[n] \subseteq said /\ held[n] \subseteq said
       /\ \A i \in 1..Len(queue[n]) : queue[n][i] \in said
       /\ \A i \in 1..Len(buffered[n]) : buffered[n][i] \in said
  /\ \A k \in Keys : \A i \in 1..Len(broker[k]) : broker[k][i] \in said

\* What the index holds of a session.
Entry(x, s, lines, o) ==
  /\ x.events \subseteq lines
  /\ IsFiniteSet(x.events)
  /\ \A e \in x.events : e.session = s /\ e.owner = x.owner
  /\ \A e, f \in x.events : e.seq = f.seq => e = f
  /\ x.owner \in {None, o}

IndexRight == \A s \in Sessions : Entry(index[s], s, said, owner[s])

AnswerRight ==
  /\ Log!Faithful(answer, said)
  /\ answer = NoAnswer \/ (answer.session \in Sessions /\ answer.events # <<>>)

IInv == TypeOK /\ Owned /\ Carried /\ IndexRight /\ AnswerRight

----------------------------------------------------------------------------
(* Sequences and pages                                                     *)

\* What is left of a sequence without one of its places.
LEMMA RemoveAtIs ==
  ASSUME NEW S, NEW q \in Seq(S), NEW i \in 1..Len(q)
  PROVE  /\ RemoveAt(q, i) \in Seq(S)
         /\ Len(RemoveAt(q, i)) = Len(q) - 1
         /\ \A j \in 1..(Len(q) - 1) : RemoveAt(q, i)[j] = IF j < i THEN q[j] ELSE q[j + 1]
<1>1. /\ SubSeq(q, 1, i - 1) \in Seq(S) /\ Len(SubSeq(q, 1, i - 1)) = i - 1
      /\ \A j \in 1..(i - 1) : SubSeq(q, 1, i - 1)[j] = q[j]
  OBVIOUS
<1>2. /\ SubSeq(q, i + 1, Len(q)) \in Seq(S) /\ Len(SubSeq(q, i + 1, Len(q))) = Len(q) - i
      /\ \A j \in 1..(Len(q) - i) : SubSeq(q, i + 1, Len(q))[j] = q[i + j]
  OBVIOUS
<1> DEFINE a == SubSeq(q, 1, i - 1)
           b == SubSeq(q, i + 1, Len(q))
<1>3. RemoveAt(q, i) = a \o b
  BY DEF RemoveAt
<1>4. /\ a \o b \in Seq(S) /\ Len(a \o b) = Len(a) + Len(b)
      /\ \A j \in 1..(Len(a) + Len(b)) : (a \o b)[j] = IF j <= Len(a) THEN a[j] ELSE b[j - Len(a)]
  BY <1>1, <1>2, ConcatProperties
<1> HIDE DEF a, b
<1>5. Len(a) = i - 1 /\ Len(b) = Len(q) - i
  BY <1>1, <1>2 DEF a, b
<1>6. \A j \in 1..(Len(q) - 1) : (a \o b)[j] = IF j < i THEN q[j] ELSE q[j + 1]
  <2> TAKE j \in 1..(Len(q) - 1)
  <2>1. j < i => (a \o b)[j] = q[j]
    BY <1>1, <1>4, <1>5 DEF a
  <2>2. j >= i => (a \o b)[j] = b[j - (i - 1)]
    BY <1>4, <1>5
  <2>3. j >= i => b[j - (i - 1)] = q[i + (j - (i - 1))]
    BY <1>2 DEF b
  <2>4. Len(q) \in Nat /\ i + (j - (i - 1)) = j + 1
    OBVIOUS
  <2>5. j >= i => (a \o b)[j] = q[j + 1]
    BY <2>2, <2>3, <2>4
  <2>6. j < i \/ j >= i
    OBVIOUS
  <2>7. j >= i => ~(j < i)
    OBVIOUS
  <2> QED BY <2>1, <2>5, <2>6, <2>7, Zenon
<1> QED BY <1>3, <1>4, <1>5, <1>6

\* A function that is changed at one argument.
LEMMA ExceptIs ==
  ASSUME NEW S, NEW T, NEW f \in [S -> T], NEW x \in S, NEW y \in T
  PROVE  [f EXCEPT ![x] = y] \in [S -> T]
OBVIOUS

\* A record's partition.
LEMMA KeyIs ==
  ASSUME NEW e \in Event
  PROVE  Key(e) \in Keys
BY DEF Event, Key, Keys, AnyOwner

\* The events of a page, in order: each a later one of those there are, and
\* one for each seq.
LEMMA SortedIs ==
  ASSUME NEW S \in SUBSET Event, IsFiniteSet(S), NEW after \in Nat,
         \A e, f \in S : e.seq = f.seq => e = f,
         NEW q \in Sorted(Page(S, after))
  PROVE  /\ q \in Seq(S)
         /\ \A i \in 1..Len(q) : q[i].seq > after
         /\ \A i, j \in 1..Len(q) : i < j => q[i].seq < q[j].seq
<1> DEFINE P == Page(S, after)
<1>1. P \subseteq S /\ \A e \in P : e.seq > after
  BY DEF Page
<1>2. Cardinality(P) \in Nat
  BY <1>1, FS_Subset, FS_CardinalityType
<1>3. /\ q \in [1..Cardinality(P) -> P]
      /\ \A i, j \in 1..Cardinality(P) : i < j => q[i].seq <= q[j].seq /\ q[i] # q[j]
  BY DEF Sorted
<1> HIDE DEF P
<1>4. q \in Seq(P) /\ Len(q) = Cardinality(P)
  BY <1>2, <1>3
<1>5. q \in Seq(S)
  BY <1>1, <1>4
<1>6. \A i \in 1..Len(q) : q[i] \in S /\ q[i].seq \in Nat /\ q[i].seq > after
  BY <1>1, <1>4 DEF Event
<1> QED BY <1>3, <1>4, <1>5, <1>6

\* The session goes on after a number.
LEMMA StartSeqIs ==
  ASSUME answer \in [session : Sessions \cup {None}, owner : AnyOwner, after : Nat, events : Seq(Event)],
         AnswerRight
  PROVE  StartSeq(answer) \in Nat
<1> DEFINE q == answer.events
           S == {answer.after} \cup {q[i].seq : i \in 1..Len(q)}
           m == IF q = <<>> THEN answer.after ELSE q[Len(q)].seq
<1>0. q \in Seq(Event) /\ answer.after \in Nat
  OBVIOUS
<1>1. \A i \in 1..Len(q) : q[i].seq \in Nat
  <2> TAKE i \in 1..Len(q)
  <2>1. q[i] \in Event
    BY <1>0, ElementOfSeq
  <2> QED BY <2>1 DEF Event
<1>2. /\ \A i \in 1..Len(q) : q[i].seq > answer.after
      /\ \A i, j \in 1..Len(q) : i < j => q[i].seq < q[j].seq
  BY DEF AnswerRight, Log!Faithful
<1>3. S \subseteq Nat
  BY <1>0, <1>1
<1>4. m \in S /\ \A y \in S : m >= y
  BY <1>0, <1>1, <1>2
<1>5. Max(S) \in S
  BY <1>4 DEF Max
<1> QED BY <1>3, <1>5 DEF StartSeq

----------------------------------------------------------------------------
(* The index                                                               *)

\* A session that is not indexed.
LEMMA AbsentIs ==
  ASSUME NEW s, NEW lines, NEW o
  PROVE  Absent \in Indexed /\ Entry(Absent, s, lines, o)
BY FS_EmptySet DEF Absent, Indexed, Entry

\* An event of the session's owner is added.
LEMMA AddIs ==
  ASSUME NEW e \in Event, e.owner \in Owners, NEW lines \in SUBSET Event, e \in lines,
         NEW x \in Indexed, Entry(x, e.session, lines, e.owner)
  PROVE  Add(x, e) \in Indexed /\ Entry(Add(x, e), e.session, lines, e.owner)
<1> DEFINE more == IF \E f \in x.events : f.seq = e.seq THEN x.events ELSE Trim(x.events \cup {e})
<1>1. Trim(x.events \cup {e}) \subseteq x.events \cup {e}
  BY DEF Trim
<1>2. IsFiniteSet(x.events \cup {e})
  BY FS_AddElement DEF Entry
<1>3. more \subseteq x.events \cup {e} /\ IsFiniteSet(more)
  BY <1>1, <1>2, FS_Subset DEF Entry
<1>4. e \in more => more = x.events \/ ~ \E f \in x.events : f.seq = e.seq
  OBVIOUS
<1>5. \A f, g \in more : f.seq = g.seq => f = g
  BY <1>3, <1>4 DEF Entry
<1>6. \A f \in x.events : f.session = e.session /\ f.owner = e.owner
  <2> TAKE f \in x.events
  <2>1. f.session = e.session /\ f.owner = x.owner /\ f \in lines /\ x.owner \in {None, e.owner}
    BY DEF Entry
  <2>2. f.owner # None
    BY <2>1, PipelineAssumption DEF Event, AnyOwner
  <2> QED BY <2>1, <2>2
<1>7. \A f \in more : f \in lines /\ f.session = e.session /\ f.owner = e.owner
  BY <1>3, <1>6 DEF Entry
<1>8. Add(x, e) = [owner |-> e.owner, age |-> 0, events |-> more]
  BY DEF Add
<1> HIDE DEF more
<1> QED BY <1>3, <1>5, <1>7, <1>8 DEF Entry, Indexed

\* What Ingest makes of the index.
LEMMA TakeIs ==
  ASSUME TypeOK, Owned, IndexRight, NEW e \in said, Take(e)
  PROVE  index' \in [Sessions -> Indexed] /\ \A s \in Sessions : Entry(index'[s], s, said, owner[s])
<1> DEFINE fresh == Fresh(index)
           added == [fresh EXCEPT ![e.session] = Add(@, e)]
           Good(ix) == ix \in [Sessions -> Indexed] /\ \A s \in Sessions : Entry(ix[s], s, said, owner[s])
<1>1. /\ index \in [Sessions -> Indexed] /\ said \in SUBSET Event
      /\ e \in Event /\ e.session \in Sessions /\ e.owner = owner[e.session]
  BY DEF TypeOK, Owned, Event
<1>2. Good(index)
  BY <1>1 DEF IndexRight
<1>3. Good(fresh)
  <2>1. \A s \in Sessions : fresh[s] \in {Absent, index[s]}
    BY DEF Fresh
  <2>2. fresh \in [Sessions -> Indexed]
    BY <1>2, AbsentIs DEF Fresh
  <2> QED BY <2>1, <2>2, <1>2, AbsentIs
<1>4. e.owner \in Owners => Good(added)
  <2> SUFFICES ASSUME e.owner \in Owners PROVE Good(added)
    OBVIOUS
  <2> HIDE DEF fresh
  <2>1. Add(fresh[e.session], e) \in Indexed /\ Entry(Add(fresh[e.session], e), e.session, said, e.owner)
    BY <1>1, <1>3, AddIs
  <2> QED BY <1>1, <1>3, <2>1
<1>5. \A v \in Sessions : e.owner \in Owners => Good([added EXCEPT ![v] = Absent])
  <2> HIDE DEF added
  <2> QED BY <1>4, AbsentIs
<1>6. Oldest(added) \subseteq Sessions
  BY DEF Oldest, Kept
<1>7. e.owner # Anonymous => e.owner \in Owners
  BY <1>1 DEF Event, AnyOwner
<1>8. \/ index' = index
      \/ e.owner # Anonymous /\ index' = added
      \/ e.owner # Anonymous /\ \E v \in Oldest(added) : index' = [added EXCEPT ![v] = Absent]
  BY DEF Take
<1>9. Good(index')
  <2> HIDE DEF added, Good
  <2> QED BY <1>2, <1>4, <1>5, <1>6, <1>7, <1>8
<1> QED BY <1>9

----------------------------------------------------------------------------
(* Answers                                                                 *)

\* An answer without lines.
LEMMA NothingIs ==
  /\ NoAnswer \in [session : Sessions \cup {None}, owner : AnyOwner, after : Nat, events : Seq(Event)]
  /\ \A lines : Log!Faithful(NoAnswer, lines)
<1>1. /\ NoAnswer.events = <<>> /\ NoAnswer.session = None
      /\ NoAnswer.owner = Anonymous /\ NoAnswer.after = 0
  BY DEF NoAnswer
<1>2. \A i \in 1..Len(<<>>) : FALSE
  OBVIOUS
<1>3. <<>> \in Seq(Event)
  OBVIOUS
<1>4. \A lines : Log!Faithful(NoAnswer, lines)
  <2> TAKE lines
  <2> HIDE DEF NoAnswer
  <2> QED BY <1>1, <1>2 DEF Log!Faithful
<1> QED BY <1>3, <1>4 DEF NoAnswer, AnyOwner

\* What a query is answered: later lines of the asker's in order, or nothing.
LEMMA QueryIs ==
  ASSUME TypeOK, IndexRight, NEW s \in Sessions, NEW o \in AnyOwner, NEW after \in 0..MaxLines,
         Query(s, o, after)
  PROVE  /\ answer' \in [session : Sessions \cup {None}, owner : AnyOwner, after : Nat, events : Seq(Event)]
         /\ AnswerRight'
<1> DEFINE Right(a) ==
             /\ a \in [session : Sessions \cup {None}, owner : AnyOwner, after : Nat, events : Seq(Event)]
             /\ a = NoAnswer \/ (a.session \in Sessions /\ a.events # <<>>)
             /\ Log!Faithful(a, said)
<1>1. Right(NoAnswer)
  BY NothingIs
<1>2. ASSUME o # Anonymous, Readable(index[s], o),
             NEW q \in Sorted(Page(index[s].events, after)), q # <<>>
      PROVE  Right([session |-> s, owner |-> o, after |-> after, events |-> q])
  <2> DEFINE S == index[s].events
             a == [session |-> s, owner |-> o, after |-> after, events |-> q]
  <2>1. /\ S \subseteq said /\ IsFiniteSet(S)
        /\ \A e \in S : e.session = s /\ e.owner = o
        /\ \A e, f \in S : e.seq = f.seq => e = f
    BY <1>2 DEF IndexRight, Entry, Readable
  <2>2. S \in SUBSET Event /\ after \in Nat
    BY <2>1 DEF TypeOK
  <2>3. /\ q \in Seq(S)
        /\ \A i \in 1..Len(q) : q[i].seq > after
        /\ \A i, j \in 1..Len(q) : i < j => q[i].seq < q[j].seq
    BY <1>2, <2>1, <2>2, SortedIs
  <2> HIDE DEF S
  <2>4. \A i \in 1..Len(q) : q[i] \in S
    BY <2>3, ElementOfSeq
  <2>5. \A i \in 1..Len(q) : q[i] \in said /\ q[i].session = s /\ q[i].owner = o
    BY <2>1, <2>4
  <2>6. q \in Seq(Event)
    BY <2>2, <2>3
  <2>7. a.session = s /\ a.owner = o /\ a.after = after /\ a.events = q
    OBVIOUS
  <2>8. a \in [session : Sessions \cup {None}, owner : AnyOwner, after : Nat, events : Seq(Event)]
    BY <2>2, <2>6
  <2> HIDE DEF a
  <2>9. Log!Faithful(a, said)
    BY <1>2, <2>3, <2>5, <2>7 DEF Log!Faithful
  <2> QED BY <1>2, <2>7, <2>8, <2>9 DEF a
<1>3. Right(answer')
  <2> HIDE DEF Right
  <2>1. CASE o # Anonymous /\ Readable(index[s], o)
    <3>1. \/ answer' = NoAnswer
          \/ \E q \in Sorted(Page(index[s].events, after)) :
               q # <<>> /\ answer' = [session |-> s, owner |-> o, after |-> after, events |-> q]
      BY <2>1, Zenon DEF Query
    <3> QED BY <1>1, <1>2, <2>1, <3>1, Zenon
  <2>2. CASE ~(o # Anonymous /\ Readable(index[s], o))
    <3>1. answer' = NoAnswer
      BY <2>2 DEF Query
    <3> QED BY <1>1, <3>1, Zenon
  <2> QED BY <2>1, <2>2
<1>4. said' = said
  BY DEF Query
<1> QED BY <1>3, <1>4 DEF AnswerRight, Log!Faithful

----------------------------------------------------------------------------
(* The steps                                                               *)

\* Every step keeps the types.
LEMMA NextTypeOK ==
  ASSUME TypeOK, Owned, Carried, IndexRight, AnswerRight, [Next]_vars
  PROVE  TypeOK'
<1> DEFINE Goal == TypeOK'
<1> SUFFICES Goal
  OBVIOUS
<1>1. ASSUME NEW n \in Nodes, NEW s \in Sessions, NEW o \in AnyOwner, Start(n, s, o) PROVE Goal
  BY <1>1 DEF Start, TypeOK, proxyVars, topicVars, boundVars
<1>2. ASSUME NEW n \in Nodes, Resume(n) PROVE Goal
  <2>1. StartSeq(answer) \in Nat
    BY StartSeqIs DEF TypeOK
  <2>2. answer.session \in Sessions
    BY <1>2 DEF Resume, AnswerRight
  <2> QED BY <1>2, <2>1, <2>2, EmptySeq DEF Resume, TypeOK, proxyVars, topicVars, boundVars, NoAnswer, AnyOwner
<1>3. ASSUME NEW n \in Nodes, NEW s \in Sessions, Record(n, s) PROVE Goal
  <2> DEFINE e == [session |-> s, owner |-> owner[s], by |-> n, seq |-> seq[n][s] + 1]
  <2>1. seq[n][s] \in Nat /\ owner[s] \in AnyOwner
    BY <1>3 DEF Record, TypeOK, Owned
  <2>2. e \in Event
    BY <2>1 DEF Event
  <2>3. seq' = [seq EXCEPT ![n][s] = e.seq] /\ e.seq \in Nat
    BY <1>3, <2>1 DEF Record
  <2>4. waiting' = [waiting EXCEPT ![n] = @ \cup {e}] /\ said' = said \cup {e}
    BY <1>3 DEF Record
  <2> HIDE DEF e
  <2>5. seq' \in [Nodes -> [Sessions -> Nat \cup {None}]]
    BY <2>3 DEF TypeOK
  <2>6. waiting[n] \cup {e} \in SUBSET Event
    BY <2>2 DEF TypeOK
  <2>7. waiting' \in [Nodes -> SUBSET Event] /\ said' \subseteq Event
    BY <2>2, <2>4, <2>6, ExceptIs DEF TypeOK
  <2> QED BY <1>3, <2>5, <2>7 DEF Record, TypeOK, proxyVars, topicVars, boundVars
<1>4. ASSUME NEW n \in Nodes, NEW e \in said, BeginPublish(n, e) PROVE Goal
  <2>1. e \in Event
    BY DEF TypeOK
  <2>4. waiting[n] \ {e} \in SUBSET Event /\ sending[n] \cup {e} \in SUBSET Event
    BY <2>1 DEF TypeOK
  <2>5. /\ waiting' = [waiting EXCEPT ![n] = @ \ {e}]
        /\ sending' = sending \/ sending' = [sending EXCEPT ![n] = @ \cup {e}]
    BY <1>4 DEF BeginPublish
  <2>6. waiting' \in [Nodes -> SUBSET Event]
    BY <2>4, <2>5, ExceptIs DEF TypeOK
  <2>8. sending \in [Nodes -> SUBSET Event]
    BY DEF TypeOK
  <2>9. [sending EXCEPT ![n] = @ \cup {e}] \in [Nodes -> SUBSET Event]
    BY <2>8, <2>4, ExceptIs
  <2>7. sending' \in [Nodes -> SUBSET Event]
    BY <2>8, <2>9, <2>5, Zenon
  <2>3. lost' \subseteq Event
    BY <1>4, <2>1 DEF BeginPublish, TypeOK
  <2> QED BY <1>4, <2>3, <2>6, <2>7 DEF BeginPublish, TypeOK, proxyVars, topicVars, boundVars
<1>5. ASSUME NEW n \in Nodes, NEW e \in said, EndPublish(n, e) PROVE Goal
  <2>1. e \in Event
    BY DEF TypeOK
  <2>2. sending[n] \ {e} \in SUBSET Event /\ Append(queue[n], e) \in Seq(Event)
    BY <2>1 DEF TypeOK
  <2>3. sending' \in [Nodes -> SUBSET Event]
    BY <1>5, <2>2, ExceptIs DEF EndPublish, TypeOK
  <2>6. queue' = queue \/ queue' = [queue EXCEPT ![n] = Append(@, e)]
    BY <1>5 DEF EndPublish
  <2>7. queue \in [Nodes -> Seq(Event)]
    BY DEF TypeOK
  <2>8. [queue EXCEPT ![n] = Append(@, e)] \in [Nodes -> Seq(Event)]
    BY <2>7, <2>2, ExceptIs
  <2>4. queue' \in [Nodes -> Seq(Event)]
    BY <2>7, <2>8, <2>6, Zenon
  <2>5. lost' \subseteq Event
    BY <1>5, <2>1 DEF EndPublish, TypeOK
  <2> QED BY <1>5, <2>3, <2>4, <2>5 DEF EndPublish, TypeOK, proxyVars, topicVars, boundVars
<1>6. ASSUME NEW n \in Nodes, Dequeue(n) PROVE Goal
  <2>1. queue[n] \in Seq(Event) /\ queue[n] # <<>>
    BY <1>6 DEF Dequeue, TypeOK
  <2>2. Head(queue[n]) \in Event /\ Tail(queue[n]) \in Seq(Event)
    BY <2>1, HeadTailProperties
  <2>3. queue' \in [Nodes -> Seq(Event)]
    BY <1>6, <2>2 DEF Dequeue, TypeOK
  <2>4. {Head(queue[n])} \in SUBSET Event
    BY <2>2
  <2>7. held' = held \/ held' = [held EXCEPT ![n] = {Head(queue[n])}]
    BY <1>6 DEF Dequeue
  <2>8. held \in [Nodes -> SUBSET Event]
    BY DEF TypeOK
  <2>9. [held EXCEPT ![n] = {Head(queue[n])}] \in [Nodes -> SUBSET Event]
    BY <2>8, <2>4, ExceptIs
  <2>5. held' \in [Nodes -> SUBSET Event]
    BY <2>8, <2>9, <2>7, Zenon
  <2>6. lost' \subseteq Event
    BY <1>6, <2>2 DEF Dequeue, TypeOK
  <2> QED BY <1>6, <2>3, <2>5, <2>6 DEF Dequeue, TypeOK, proxyVars, topicVars, boundVars
<1>7. ASSUME NEW n \in Nodes, Produce(n) PROVE Goal
  <2>1. buffered' \in [Nodes -> Seq(Event)]
    BY <1>7 DEF Produce, TypeOK
  <2>2. held' \in [Nodes -> SUBSET Event]
    BY <1>7 DEF Produce, TypeOK
  <2> QED BY <1>7, <2>1, <2>2 DEF Produce, TypeOK, proxyVars, topicVars, boundVars
<1>8. ASSUME NEW n \in Nodes, WorkerEnds(n) PROVE Goal
  BY <1>8 DEF WorkerEnds, TypeOK, proxyVars, topicVars, boundVars
<1>9. ASSUME NEW n \in Nodes, BeginClose(n) PROVE Goal
  BY <1>9 DEF BeginClose, TypeOK, proxyVars, topicVars, boundVars
<1>10. ASSUME NEW n \in Nodes, EndClose(n) PROVE Goal
  <2>1. buffered[n] \in Seq(Event)
    BY DEF TypeOK
  <2>2. ToSet(buffered[n]) \subseteq Event
    BY <2>1 DEF ToSet
  <2>3. lost' \subseteq Event /\ buffered' \in [Nodes -> Seq(Event)]
    BY <1>10, <2>2, EmptySeq DEF EndClose, TypeOK
  <2>4. shut' \in [Nodes -> {"open", "draining", "drained", "closed"}]
    BY <1>10 DEF EndClose, TypeOK
  <2> QED BY <1>10, <2>3, <2>4 DEF EndClose, TypeOK, proxyVars, topicVars, boundVars
<1>11. ASSUME NEW n \in Nodes, Deliver(n) PROVE Goal
  <2> PICK i \in 1..Len(buffered[n]) :
         /\ broker' = [broker EXCEPT ![Key(buffered[n][i])] = Append(@, buffered[n][i])]
         /\ \/ buffered' = [buffered EXCEPT ![n] = RemoveAt(@, i)] /\ UNCHANGED faults
            \/ Fault /\ UNCHANGED buffered
    BY <1>11 DEF Deliver
  <2>1. buffered[n] \in Seq(Event) /\ buffered[n][i] \in Event
    BY DEF TypeOK
  <2>2. RemoveAt(buffered[n], i) \in Seq(Event)
    BY <2>1, RemoveAtIs
  <2>8. buffered' = buffered \/ buffered' = [buffered EXCEPT ![n] = RemoveAt(@, i)]
    OBVIOUS
  <2>9. buffered \in [Nodes -> Seq(Event)]
    BY DEF TypeOK
  <2>10. [buffered EXCEPT ![n] = RemoveAt(@, i)] \in [Nodes -> Seq(Event)]
    BY <2>9, <2>2, ExceptIs
  <2>3. buffered' \in [Nodes -> Seq(Event)]
    BY <2>9, <2>10, <2>8, Zenon
  <2>6. Key(buffered[n][i]) \in Keys
    BY <2>1, KeyIs
  <2>7. Append(broker[Key(buffered[n][i])], buffered[n][i]) \in Seq(Event)
    BY <2>1, <2>6 DEF TypeOK
  <2>4. broker' \in [Keys -> Seq(Event)]
    BY <2>6, <2>7, ExceptIs DEF TypeOK
  <2>5. faults' \in Nat
    BY DEF Fault, TypeOK
  <2>11. UNCHANGED <<owner, seq, waiting, sending, queue, held, shut, pos, committed, index,
                     said, lost, answer, ticks>>
    BY <1>11 DEF Deliver
  <2> QED BY <2>3, <2>4, <2>5, <2>11 DEF TypeOK
<1>12. ASSUME NEW n \in Nodes, Refuse(n) PROVE Goal
  <2> PICK i \in 1..Len(buffered[n]) :
         /\ buffered' = [buffered EXCEPT ![n] = RemoveAt(@, i)]
         /\ lost' = lost \cup {buffered[n][i]}
    BY <1>12 DEF Refuse
  <2>1. buffered[n] \in Seq(Event) /\ buffered[n][i] \in Event
    BY DEF TypeOK
  <2>2. RemoveAt(buffered[n], i) \in Seq(Event)
    BY <2>1, RemoveAtIs
  <2>4. buffered' \in [Nodes -> Seq(Event)]
    BY <2>2, ExceptIs DEF TypeOK
  <2>3. buffered' \in [Nodes -> Seq(Event)] /\ lost' \subseteq Event
    BY <2>1, <2>4 DEF TypeOK
  <2> QED BY <1>12, <2>3 DEF Refuse, TypeOK, proxyVars, topicVars, boundVars
<1>13. ASSUME NEW k \in Keys, Ingest(k) PROVE Goal
  <2> DEFINE e == broker[k][pos[k] + 1]
  <2>1. e \in said
    BY <1>13 DEF Ingest, TypeOK, Carried
  <2>2. index' \in [Sessions -> Indexed]
    BY <1>13, <2>1, TakeIs DEF Ingest
  <2>3. EventsOf(index) \subseteq Event /\ e \in Event
    BY <2>1 DEF EventsOf, TypeOK, Indexed
  <2>4. pos' \in [Keys -> Nat]
    BY <1>13 DEF Ingest, TypeOK
  <2>5. lost' = lost \cup ((EventsOf(index) \cup {e}) \ EventsOf(index'))
    BY <1>13 DEF Ingest
  <2> HIDE DEF e
  <2>6. lost' \subseteq Event
    BY <2>3, <2>5 DEF TypeOK
  <2> QED BY <1>13, <2>2, <2>4, <2>6 DEF Ingest, TypeOK, proxyVars, topicVars, boundVars
<1>14. ASSUME NEW k \in Keys, SkipFetch(k) PROVE Goal
  <2>1. broker[k][pos[k] + 1] \in Event
    BY <1>14 DEF SkipFetch, TypeOK
  <2>2. lost' \subseteq Event /\ pos' \in [Keys -> Nat]
    BY <1>14, <2>1 DEF SkipFetch, TypeOK
  <2>3. faults' \in Nat
    BY <1>14 DEF SkipFetch, Fault, TypeOK
  <2> QED BY <1>14, <2>2, <2>3 DEF SkipFetch, TypeOK, proxyVars, topicVars, boundVars
<1>15. CASE Restart
  <2>1. EventsOf(index) \subseteq Event
    BY DEF EventsOf, TypeOK, Indexed
  <2>2. lost' \subseteq Event
    BY <1>15, <2>1 DEF Restart, TypeOK
  <2>3. committed' \in [Keys -> Nat] /\ pos' = committed'
    BY <1>15 DEF Restart, TypeOK
  <2>4. index' \in [Sessions -> Indexed]
    BY <1>15, AbsentIs DEF Restart
  <2>5. faults' \in Nat
    BY <1>15 DEF Restart, Fault, TypeOK
  <2> QED BY <1>15, <2>2, <2>3, <2>4, <2>5 DEF Restart, TypeOK, proxyVars, topicVars, boundVars
<1>16. CASE Tick
  <2>1. \A s \in Sessions : index[s] # Absent => [index[s] EXCEPT !.age = @ + 1] \in Indexed
    <3> TAKE s \in Sessions
    <3>1. index[s] \in Indexed
      BY DEF TypeOK
    <3> QED BY <3>1 DEF Indexed
  <2>2. index' \in [Sessions -> Indexed]
    BY <1>16, <2>1, AbsentIs DEF Tick
  <2>3. ticks' \in Nat
    BY <1>16 DEF Tick, TypeOK
  <2> QED BY <1>16, <2>2, <2>3 DEF Tick, TypeOK, proxyVars, topicVars, boundVars
<1>17. ASSUME NEW s \in Sessions, NEW o \in AnyOwner, NEW after \in 0..MaxLines, Query(s, o, after) PROVE Goal
  <2>1. answer' \in [session : Sessions \cup {None}, owner : AnyOwner, after : Nat, events : Seq(Event)]
    BY <1>17, QueryIs DEF Query
  <2> QED BY <1>17, <2>1 DEF Query, TypeOK, proxyVars, topicVars, boundVars
<1>18. CASE UNCHANGED vars
  BY <1>18 DEF vars, TypeOK, proxyVars, topicVars, boundVars
<1> HIDE DEF Goal
<1> QED
  BY <1>1, <1>2, <1>3, <1>4, <1>5, <1>6, <1>7, <1>8, <1>9, <1>10, <1>11, <1>12, <1>13, <1>14, <1>15, <1>16, <1>17, <1>18, Zenon DEF Next, Drain

----------------------------------------------------------------------------
(* What a step leaves alone                                                *)

\* What is said of owners depends on sessions and lines alone.
LEMMA OwnedUnchanged ==
  ASSUME Owned, UNCHANGED <<owner, seq, said>>
  PROVE  Owned'
BY DEF Owned

\* What is on its way depends on these alone.
LEMMA CarriedUnchanged ==
  ASSUME Carried, UNCHANGED <<waiting, sending, held, queue, buffered, broker, said>>
  PROVE  Carried'
BY DEF Carried

\* So does what the index holds.
LEMMA IndexUnchanged ==
  ASSUME IndexRight, UNCHANGED <<index, owner, said>>
  PROVE  IndexRight'
BY DEF IndexRight, Entry

\* So does the last answer.
LEMMA AnswerUnchanged ==
  ASSUME AnswerRight, UNCHANGED <<answer, said>>
  PROVE  AnswerRight'
BY DEF AnswerRight, Log!Faithful

\* A record is taken out of a client's buffer, or none.
LEMMA TakenOut ==
  ASSUME buffered \in [Nodes -> Seq(Event)], NEW n \in Nodes, NEW i \in 1..Len(buffered[n]),
         buffered' = buffered \/ buffered' = [buffered EXCEPT ![n] = RemoveAt(@, i)],
         \A m \in Nodes : \A j \in 1..Len(buffered[m]) : buffered[m][j] \in said
  PROVE  \A m \in Nodes : \A j \in 1..Len(buffered'[m]) : buffered'[m][j] \in said
<1>1. buffered[n] \in Seq(Event)
  OBVIOUS
<1>2. \A j \in 1..Len(RemoveAt(buffered[n], i)) : RemoveAt(buffered[n], i)[j] \in said
  <2> DEFINE q == buffered[n]
  <2>1. /\ Len(RemoveAt(q, i)) = Len(q) - 1
        /\ \A j \in 1..(Len(q) - 1) : RemoveAt(q, i)[j] = IF j < i THEN q[j] ELSE q[j + 1]
    BY <1>1, RemoveAtIs
  <2>2. \A j \in 1..Len(q) : q[j] \in said
    OBVIOUS
  <2>3. Len(q) \in Nat
    BY <1>1
  <2> QED BY <2>1, <2>2, <2>3
<1>3. \A m \in Nodes : buffered'[m] = buffered[m] \/ (m = n /\ buffered'[m] = RemoveAt(buffered[n], i))
  OBVIOUS
<1> QED BY <1>2, <1>3

\* Every step keeps what sessions and lines say of their owners.
LEMMA NextOwned ==
  ASSUME TypeOK, Owned, Carried, IndexRight, AnswerRight, [Next]_vars
  PROVE  Owned'
<1> DEFINE Goal == Owned'
<1> SUFFICES Goal
  OBVIOUS
<1>1. ASSUME NEW n \in Nodes, NEW s \in Sessions, NEW o \in AnyOwner, Start(n, s, o) PROVE Goal
  <2>1. \A e \in said : e.session # s
    <3> SUFFICES ASSUME NEW e \in said, e.session = s PROVE FALSE
      OBVIOUS
    <3>1. e.owner = None /\ e \in Event
      BY <1>1 DEF Start, Owned, TypeOK
    <3> QED BY <3>1, PipelineAssumption DEF Event, AnyOwner
  <2>2. o # None
    BY PipelineAssumption DEF AnyOwner
  <2>3. owner' = [owner EXCEPT ![s] = o] /\ seq' = [seq EXCEPT ![n][s] = 0] /\ said' = said
    BY <1>1 DEF Start
  <2>4. \A t \in Sessions : owner'[t] = IF t = s THEN o ELSE owner[t]
    BY <2>3 DEF TypeOK
  <2>5. \A m \in Nodes, t \in Sessions : seq'[m][t] = IF m = n /\ t = s THEN 0 ELSE seq[m][t]
    BY <2>3 DEF TypeOK
  <2>6. \A e \in said : e.session \in Sessions
    BY DEF TypeOK, Event
  <2> QED BY <2>1, <2>2, <2>3, <2>4, <2>5, <2>6 DEF Owned
<1>2. ASSUME NEW n \in Nodes, Resume(n) PROVE Goal
  <2> DEFINE s == answer.session
  <2>1. s \in Sessions /\ answer.events # <<>> /\ answer.events \in Seq(Event)
    BY <1>2 DEF Resume, AnswerRight, TypeOK
  <2>2. answer.events[1] \in said /\ answer.events[1].session = s
    BY <2>1 DEF AnswerRight, Log!Faithful
  <2>3. owner[s] # None
    <3>1. answer.events[1].owner = owner[s]
      BY <2>2, Zenon DEF Owned
    <3>2. answer.events[1].owner \in AnyOwner
      BY <2>2 DEF TypeOK, Event
    <3> QED BY <3>1, <3>2, PipelineAssumption, Zenon DEF AnyOwner
  <2>4. owner' = owner /\ said' = said /\ seq' = [seq EXCEPT ![n][s] = StartSeq(answer)]
    BY <1>2 DEF Resume
  <2> HIDE DEF s
  <2>5. \A m \in Nodes, t \in Sessions : seq'[m][t] = seq[m][t] \/ t = s
    BY <2>4 DEF TypeOK
  <2> QED BY <2>3, <2>4, <2>5 DEF Owned
<1>3. ASSUME NEW n \in Nodes, NEW s \in Sessions, Record(n, s) PROVE Goal
  <2> DEFINE e == [session |-> s, owner |-> owner[s], by |-> n, seq |-> seq[n][s] + 1]
  <2>1. owner[s] # None /\ owner' = owner /\ said' = said \cup {e} /\ seq' = [seq EXCEPT ![n][s] = e.seq]
    BY <1>3 DEF Record, Owned
  <2>2. e.session = s /\ e.owner = owner[s]
    OBVIOUS
  <2> HIDE DEF e
  <2>3. \A m \in Nodes, t \in Sessions : seq'[m][t] = seq[m][t] \/ t = s
    BY <2>1 DEF TypeOK
  <2> QED BY <2>1, <2>2, <2>3 DEF Owned
<1>4. ASSUME NEW n \in Nodes, NEW e \in said, BeginPublish(n, e) PROVE Goal
  BY <1>4, OwnedUnchanged DEF BeginPublish, proxyVars, topicVars, boundVars
<1>5. ASSUME NEW n \in Nodes, NEW e \in said, EndPublish(n, e) PROVE Goal
  BY <1>5, OwnedUnchanged DEF EndPublish, proxyVars, topicVars, boundVars
<1>6. ASSUME NEW n \in Nodes, Dequeue(n) PROVE Goal
  BY <1>6, OwnedUnchanged DEF Dequeue, proxyVars, topicVars, boundVars
<1>7. ASSUME NEW n \in Nodes, Produce(n) PROVE Goal
  BY <1>7, OwnedUnchanged DEF Produce, proxyVars, topicVars, boundVars
<1>8. ASSUME NEW n \in Nodes, WorkerEnds(n) PROVE Goal
  BY <1>8, OwnedUnchanged DEF WorkerEnds, proxyVars, topicVars, boundVars
<1>9. ASSUME NEW n \in Nodes, BeginClose(n) PROVE Goal
  BY <1>9, OwnedUnchanged DEF BeginClose, proxyVars, topicVars, boundVars
<1>10. ASSUME NEW n \in Nodes, EndClose(n) PROVE Goal
  BY <1>10, OwnedUnchanged DEF EndClose, proxyVars, topicVars, boundVars
<1>11. ASSUME NEW n \in Nodes, Deliver(n) PROVE Goal
  BY <1>11, OwnedUnchanged DEF Deliver, proxyVars, topicVars, boundVars
<1>12. ASSUME NEW n \in Nodes, Refuse(n) PROVE Goal
  BY <1>12, OwnedUnchanged DEF Refuse, proxyVars, topicVars, boundVars
<1>13. ASSUME NEW k \in Keys, Ingest(k) PROVE Goal
  BY <1>13, OwnedUnchanged DEF Ingest, proxyVars, topicVars, boundVars
<1>14. ASSUME NEW k \in Keys, SkipFetch(k) PROVE Goal
  BY <1>14, OwnedUnchanged DEF SkipFetch, proxyVars, topicVars, boundVars
<1>15. CASE Restart
  BY <1>15, OwnedUnchanged DEF Restart, proxyVars, topicVars, boundVars
<1>16. CASE Tick
  BY <1>16, OwnedUnchanged DEF Tick, proxyVars, topicVars, boundVars
<1>17. ASSUME NEW s \in Sessions, NEW o \in AnyOwner, NEW after \in 0..MaxLines, Query(s, o, after) PROVE Goal
  BY <1>17, OwnedUnchanged DEF Query, proxyVars, topicVars, boundVars
<1>18. CASE UNCHANGED vars
  BY <1>18, OwnedUnchanged DEF vars
<1> HIDE DEF Goal
<1> QED
  BY <1>1, <1>2, <1>3, <1>4, <1>5, <1>6, <1>7, <1>8, <1>9, <1>10, <1>11, <1>12, <1>13, <1>14, <1>15, <1>16, <1>17, <1>18, Zenon DEF Next, Drain

\* Every step passes on what was recorded.
LEMMA NextCarried ==
  ASSUME TypeOK, Owned, Carried, IndexRight, AnswerRight, [Next]_vars
  PROVE  Carried'
<1> DEFINE Goal == Carried'
<1> SUFFICES Goal
  OBVIOUS
<1>1. ASSUME NEW n \in Nodes, NEW s \in Sessions, NEW o \in AnyOwner, Start(n, s, o) PROVE Goal
  BY <1>1, CarriedUnchanged DEF Start, proxyVars, topicVars, boundVars
<1>2. ASSUME NEW n \in Nodes, Resume(n) PROVE Goal
  BY <1>2, CarriedUnchanged DEF Resume, proxyVars, topicVars, boundVars
<1>3. ASSUME NEW n \in Nodes, NEW s \in Sessions, Record(n, s) PROVE Goal
  <2> DEFINE e == [session |-> s, owner |-> owner[s], by |-> n, seq |-> seq[n][s] + 1]
  <2>1. said' = said \cup {e} /\ waiting' = [waiting EXCEPT ![n] = @ \cup {e}]
    BY <1>3 DEF Record
  <2>2. UNCHANGED <<sending, held, queue, buffered, broker>>
    BY <1>3 DEF Record, topicVars
  <2> HIDE DEF e
  <2>3. \A m \in Nodes : waiting'[m] \subseteq waiting[m] \cup {e}
    BY <2>1 DEF TypeOK
  <2> QED BY <2>1, <2>2, <2>3 DEF Carried
<1>4. ASSUME NEW n \in Nodes, NEW e \in said, BeginPublish(n, e) PROVE Goal
  <2>1. /\ \A m \in Nodes : waiting'[m] \subseteq waiting[m]
        /\ \A m \in Nodes : sending'[m] \subseteq sending[m] \cup {e}
    BY <1>4 DEF BeginPublish, TypeOK
  <2>2. UNCHANGED <<held, queue, buffered, broker, said>>
    BY <1>4 DEF BeginPublish, topicVars
  <2> QED BY <2>1, <2>2 DEF Carried
<1>5. ASSUME NEW n \in Nodes, NEW e \in said, EndPublish(n, e) PROVE Goal
  <2>1. \A m \in Nodes : sending'[m] \subseteq sending[m]
    BY <1>5 DEF EndPublish, TypeOK
  <2>2. queue' = queue \/ queue' = [queue EXCEPT ![n] = Append(@, e)]
    BY <1>5 DEF EndPublish
  <2>3. \A m \in Nodes : queue'[m] \in {queue[m], Append(queue[m], e)}
    BY <2>2 DEF TypeOK
  <2>4. \A m \in Nodes : \A i \in 1..Len(queue'[m]) : queue'[m][i] \in said
    <3> TAKE m \in Nodes
    <3>1. queue[m] \in Seq(Event) /\ e \in Event /\ \A i \in 1..Len(queue[m]) : queue[m][i] \in said
      BY DEF TypeOK, Carried
    <3>2. \A i \in 1..Len(Append(queue[m], e)) : Append(queue[m], e)[i] \in said
      BY <3>1
    <3> QED BY <2>3, <3>1, <3>2
  <2>5. UNCHANGED <<waiting, held, buffered, broker, said>>
    BY <1>5 DEF EndPublish, topicVars
  <2> QED BY <2>1, <2>4, <2>5 DEF Carried
<1>6. ASSUME NEW n \in Nodes, Dequeue(n) PROVE Goal
  <2>1. queue[n] \in Seq(Event) /\ queue[n] # <<>> /\ \A i \in 1..Len(queue[n]) : queue[n][i] \in said
    BY <1>6 DEF Dequeue, TypeOK, Carried
  <2>2. Head(queue[n]) \in said /\ \A i \in 1..Len(Tail(queue[n])) : Tail(queue[n])[i] \in said
    BY <2>1
  <2>3. \A m \in Nodes : held'[m] \subseteq held[m] \cup {Head(queue[n])}
    BY <1>6 DEF Dequeue, TypeOK
  <2>4. queue' = [queue EXCEPT ![n] = Tail(@)]
    BY <1>6 DEF Dequeue
  <2>5. \A m \in Nodes : queue'[m] = IF m = n THEN Tail(queue[n]) ELSE queue[m]
    BY <2>4 DEF TypeOK
  <2>6. UNCHANGED <<waiting, sending, buffered, broker, said>>
    BY <1>6 DEF Dequeue, topicVars
  <2> QED BY <2>2, <2>3, <2>5, <2>6 DEF Carried
<1>7. ASSUME NEW n \in Nodes, Produce(n) PROVE Goal
  <2> PICK e \in held[n] : buffered' = [buffered EXCEPT ![n] = Append(@, e)]
    BY <1>7 DEF Produce
  <2>1. e \in said /\ e \in Event
    BY DEF Carried, TypeOK
  <2>2. \A m \in Nodes : buffered'[m] \in {buffered[m], Append(buffered[m], e)}
    BY DEF TypeOK
  <2>3. \A m \in Nodes : \A i \in 1..Len(buffered'[m]) : buffered'[m][i] \in said
    <3> TAKE m \in Nodes
    <3>1. buffered[m] \in Seq(Event) /\ \A i \in 1..Len(buffered[m]) : buffered[m][i] \in said
      BY DEF TypeOK, Carried
    <3>2. \A i \in 1..Len(Append(buffered[m], e)) : Append(buffered[m], e)[i] \in said
      BY <2>1, <3>1
    <3> QED BY <2>2, <3>1, <3>2
  <2>4. \A m \in Nodes : held'[m] \subseteq held[m]
    BY <1>7 DEF Produce, TypeOK
  <2>5. UNCHANGED <<waiting, sending, queue, broker, said>>
    BY <1>7 DEF Produce, topicVars
  <2> QED BY <2>3, <2>4, <2>5 DEF Carried
<1>8. ASSUME NEW n \in Nodes, WorkerEnds(n) PROVE Goal
  BY <1>8, CarriedUnchanged DEF WorkerEnds, proxyVars, topicVars, boundVars
<1>9. ASSUME NEW n \in Nodes, BeginClose(n) PROVE Goal
  BY <1>9, CarriedUnchanged DEF BeginClose, proxyVars, topicVars, boundVars
<1>10. ASSUME NEW n \in Nodes, EndClose(n) PROVE Goal
  <2>1. \A m \in Nodes : buffered'[m] = IF m = n THEN <<>> ELSE buffered[m]
    BY <1>10 DEF EndClose, TypeOK
  <2>2. UNCHANGED <<waiting, sending, held, queue, broker, said>>
    BY <1>10 DEF EndClose, topicVars
  <2>3. Len(<<>>) = 0
    OBVIOUS
  <2> QED BY <2>1, <2>2, <2>3 DEF Carried
<1>11. ASSUME NEW n \in Nodes, Deliver(n) PROVE Goal
  <2> PICK i \in 1..Len(buffered[n]) :
         /\ broker' = [broker EXCEPT ![Key(buffered[n][i])] = Append(@, buffered[n][i])]
         /\ buffered' = buffered \/ buffered' = [buffered EXCEPT ![n] = RemoveAt(@, i)]
    BY <1>11, Zenon DEF Deliver
  <2> DEFINE e == buffered[n][i]
  <2>1. e \in said /\ e \in Event
    BY DEF Carried, TypeOK
  <2>2. \A k \in Keys : broker'[k] \in {broker[k], Append(broker[k], e)}
    BY DEF TypeOK
  <2> HIDE DEF e
  <2>3. \A k \in Keys : \A j \in 1..Len(broker'[k]) : broker'[k][j] \in said
    <3> TAKE k \in Keys
    <3>1. broker[k] \in Seq(Event) /\ \A j \in 1..Len(broker[k]) : broker[k][j] \in said
      BY DEF TypeOK, Carried
    <3>2. \A j \in 1..Len(Append(broker[k], e)) : Append(broker[k], e)[j] \in said
      BY <2>1, <3>1
    <3> QED BY <2>2, <3>1, <3>2
  <2>4. \A m \in Nodes : \A j \in 1..Len(buffered'[m]) : buffered'[m][j] \in said
    BY TakenOut DEF Carried, TypeOK
  <2>5. UNCHANGED <<waiting, sending, held, queue, said>>
    BY <1>11 DEF Deliver
  <2> QED BY <2>3, <2>4, <2>5 DEF Carried
<1>12. ASSUME NEW n \in Nodes, Refuse(n) PROVE Goal
  <2> PICK i \in 1..Len(buffered[n]) : buffered' = [buffered EXCEPT ![n] = RemoveAt(@, i)]
    BY <1>12, Zenon DEF Refuse
  <2>1. \A m \in Nodes : \A j \in 1..Len(buffered'[m]) : buffered'[m][j] \in said
    BY TakenOut DEF Carried, TypeOK
  <2>2. UNCHANGED <<waiting, sending, held, queue, broker, said>>
    BY <1>12 DEF Refuse, topicVars
  <2> QED BY <2>1, <2>2 DEF Carried
<1>13. ASSUME NEW k \in Keys, Ingest(k) PROVE Goal
  BY <1>13, CarriedUnchanged DEF Ingest, proxyVars, topicVars, boundVars
<1>14. ASSUME NEW k \in Keys, SkipFetch(k) PROVE Goal
  BY <1>14, CarriedUnchanged DEF SkipFetch, proxyVars, topicVars, boundVars
<1>15. CASE Restart
  BY <1>15, CarriedUnchanged DEF Restart, proxyVars, topicVars, boundVars
<1>16. CASE Tick
  BY <1>16, CarriedUnchanged DEF Tick, proxyVars, topicVars, boundVars
<1>17. ASSUME NEW s \in Sessions, NEW o \in AnyOwner, NEW after \in 0..MaxLines, Query(s, o, after) PROVE Goal
  BY <1>17, CarriedUnchanged DEF Query, proxyVars, topicVars, boundVars
<1>18. CASE UNCHANGED vars
  BY <1>18, CarriedUnchanged DEF vars, proxyVars, topicVars, boundVars
<1> HIDE DEF Goal
<1> QED
  BY <1>1, <1>2, <1>3, <1>4, <1>5, <1>6, <1>7, <1>8, <1>9, <1>10, <1>11, <1>12, <1>13, <1>14, <1>15, <1>16, <1>17, <1>18, Zenon DEF Next, Drain

\* Every step keeps the index right.
LEMMA NextIndexRight ==
  ASSUME TypeOK, Owned, Carried, IndexRight, AnswerRight, [Next]_vars
  PROVE  IndexRight'
<1> DEFINE Goal == IndexRight'
<1> SUFFICES Goal
  OBVIOUS
<1>1. ASSUME NEW n \in Nodes, NEW s \in Sessions, NEW o \in AnyOwner, Start(n, s, o) PROVE Goal
  <2>1. owner[s] = None /\ owner' = [owner EXCEPT ![s] = o] /\ index' = index /\ said' = said
    BY <1>1 DEF Start
  <2>2. \A t \in Sessions : owner'[t] = owner[t] \/ owner[t] = None
    BY <2>1 DEF TypeOK
  <2> QED BY <2>1, <2>2 DEF IndexRight, Entry
<1>2. ASSUME NEW n \in Nodes, Resume(n) PROVE Goal
  BY <1>2, IndexUnchanged DEF Resume, proxyVars, topicVars, boundVars
<1>3. ASSUME NEW n \in Nodes, NEW s \in Sessions, Record(n, s) PROVE Goal
  <2>1. owner' = owner /\ index' = index /\ said \subseteq said'
    BY <1>3 DEF Record
  <2> QED BY <2>1 DEF IndexRight, Entry
<1>4. ASSUME NEW n \in Nodes, NEW e \in said, BeginPublish(n, e) PROVE Goal
  BY <1>4, IndexUnchanged DEF BeginPublish, proxyVars, topicVars, boundVars
<1>5. ASSUME NEW n \in Nodes, NEW e \in said, EndPublish(n, e) PROVE Goal
  BY <1>5, IndexUnchanged DEF EndPublish, proxyVars, topicVars, boundVars
<1>6. ASSUME NEW n \in Nodes, Dequeue(n) PROVE Goal
  BY <1>6, IndexUnchanged DEF Dequeue, proxyVars, topicVars, boundVars
<1>7. ASSUME NEW n \in Nodes, Produce(n) PROVE Goal
  BY <1>7, IndexUnchanged DEF Produce, proxyVars, topicVars, boundVars
<1>8. ASSUME NEW n \in Nodes, WorkerEnds(n) PROVE Goal
  BY <1>8, IndexUnchanged DEF WorkerEnds, proxyVars, topicVars, boundVars
<1>9. ASSUME NEW n \in Nodes, BeginClose(n) PROVE Goal
  BY <1>9, IndexUnchanged DEF BeginClose, proxyVars, topicVars, boundVars
<1>10. ASSUME NEW n \in Nodes, EndClose(n) PROVE Goal
  BY <1>10, IndexUnchanged DEF EndClose, proxyVars, topicVars, boundVars
<1>11. ASSUME NEW n \in Nodes, Deliver(n) PROVE Goal
  BY <1>11, IndexUnchanged DEF Deliver, proxyVars, topicVars, boundVars
<1>12. ASSUME NEW n \in Nodes, Refuse(n) PROVE Goal
  BY <1>12, IndexUnchanged DEF Refuse, proxyVars, topicVars, boundVars
<1>13. ASSUME NEW k \in Keys, Ingest(k) PROVE Goal
  <2>1. broker[k][pos[k] + 1] \in said
    BY <1>13 DEF Ingest, TypeOK, Carried
  <2>2. \A s \in Sessions : Entry(index'[s], s, said, owner[s])
    BY <1>13, <2>1, TakeIs DEF Ingest
  <2>3. owner' = owner /\ said' = said
    BY <1>13 DEF Ingest
  <2> QED BY <2>2, <2>3 DEF IndexRight
<1>14. ASSUME NEW k \in Keys, SkipFetch(k) PROVE Goal
  BY <1>14, IndexUnchanged DEF SkipFetch, proxyVars, topicVars, boundVars
<1>15. CASE Restart
  <2>1. \A s \in Sessions : index'[s] = Absent
    BY <1>15 DEF Restart
  <2> QED BY <2>1, AbsentIs DEF IndexRight
<1>16. CASE Tick
  <2>1. \A s \in Sessions : index'[s].events = index[s].events /\ index'[s].owner = index[s].owner
    BY <1>16 DEF Tick, TypeOK, Indexed
  <2>2. owner' = owner /\ said' = said
    BY <1>16 DEF Tick
  <2> QED BY <2>1, <2>2 DEF IndexRight, Entry
<1>17. ASSUME NEW s \in Sessions, NEW o \in AnyOwner, NEW after \in 0..MaxLines, Query(s, o, after) PROVE Goal
  BY <1>17, IndexUnchanged DEF Query, proxyVars, topicVars, boundVars
<1>18. CASE UNCHANGED vars
  BY <1>18, IndexUnchanged DEF vars
<1> HIDE DEF Goal
<1> QED
  BY <1>1, <1>2, <1>3, <1>4, <1>5, <1>6, <1>7, <1>8, <1>9, <1>10, <1>11, <1>12, <1>13, <1>14, <1>15, <1>16, <1>17, <1>18, Zenon DEF Next, Drain

\* Every step keeps the last answer right.
LEMMA NextAnswerRight ==
  ASSUME TypeOK, Owned, Carried, IndexRight, AnswerRight, [Next]_vars
  PROVE  AnswerRight'
<1> DEFINE Goal == AnswerRight'
<1> SUFFICES Goal
  OBVIOUS
<1>1. ASSUME NEW n \in Nodes, NEW s \in Sessions, NEW o \in AnyOwner, Start(n, s, o) PROVE Goal
  BY <1>1, AnswerUnchanged DEF Start, proxyVars, topicVars, boundVars
<1>2. ASSUME NEW n \in Nodes, Resume(n) PROVE Goal
  <2>1. answer' = NoAnswer /\ said' = said
    BY <1>2 DEF Resume
  <2> QED BY <2>1, NothingIs DEF AnswerRight
<1>3. ASSUME NEW n \in Nodes, NEW s \in Sessions, Record(n, s) PROVE Goal
  <2>1. answer' = answer /\ said \subseteq said'
    BY <1>3 DEF Record
  <2> QED BY <2>1 DEF AnswerRight, Log!Faithful
<1>4. ASSUME NEW n \in Nodes, NEW e \in said, BeginPublish(n, e) PROVE Goal
  BY <1>4, AnswerUnchanged DEF BeginPublish, proxyVars, topicVars, boundVars
<1>5. ASSUME NEW n \in Nodes, NEW e \in said, EndPublish(n, e) PROVE Goal
  BY <1>5, AnswerUnchanged DEF EndPublish, proxyVars, topicVars, boundVars
<1>6. ASSUME NEW n \in Nodes, Dequeue(n) PROVE Goal
  BY <1>6, AnswerUnchanged DEF Dequeue, proxyVars, topicVars, boundVars
<1>7. ASSUME NEW n \in Nodes, Produce(n) PROVE Goal
  BY <1>7, AnswerUnchanged DEF Produce, proxyVars, topicVars, boundVars
<1>8. ASSUME NEW n \in Nodes, WorkerEnds(n) PROVE Goal
  BY <1>8, AnswerUnchanged DEF WorkerEnds, proxyVars, topicVars, boundVars
<1>9. ASSUME NEW n \in Nodes, BeginClose(n) PROVE Goal
  BY <1>9, AnswerUnchanged DEF BeginClose, proxyVars, topicVars, boundVars
<1>10. ASSUME NEW n \in Nodes, EndClose(n) PROVE Goal
  BY <1>10, AnswerUnchanged DEF EndClose, proxyVars, topicVars, boundVars
<1>11. ASSUME NEW n \in Nodes, Deliver(n) PROVE Goal
  BY <1>11, AnswerUnchanged DEF Deliver, proxyVars, topicVars, boundVars
<1>12. ASSUME NEW n \in Nodes, Refuse(n) PROVE Goal
  BY <1>12, AnswerUnchanged DEF Refuse, proxyVars, topicVars, boundVars
<1>13. ASSUME NEW k \in Keys, Ingest(k) PROVE Goal
  BY <1>13, AnswerUnchanged DEF Ingest, proxyVars, topicVars, boundVars
<1>14. ASSUME NEW k \in Keys, SkipFetch(k) PROVE Goal
  BY <1>14, AnswerUnchanged DEF SkipFetch, proxyVars, topicVars, boundVars
<1>15. CASE Restart
  BY <1>15, AnswerUnchanged DEF Restart, proxyVars, topicVars, boundVars
<1>16. CASE Tick
  BY <1>16, AnswerUnchanged DEF Tick, proxyVars, topicVars, boundVars
<1>17. ASSUME NEW s \in Sessions, NEW o \in AnyOwner, NEW after \in 0..MaxLines, Query(s, o, after) PROVE Goal
  BY <1>17, QueryIs
<1>18. CASE UNCHANGED vars
  BY <1>18, AnswerUnchanged DEF vars
<1> HIDE DEF Goal
<1> QED
  BY <1>1, <1>2, <1>3, <1>4, <1>5, <1>6, <1>7, <1>8, <1>9, <1>10, <1>11, <1>12, <1>13, <1>14, <1>15, <1>16, <1>17, <1>18, Zenon DEF Next, Drain

----------------------------------------------------------------------------
(* The theorems                                                            *)

\* The invariant holds initially.
LEMMA InitIInv == Init => IInv
<1> SUFFICES ASSUME Init PROVE IInv
  OBVIOUS
<1>1. TypeOK
  <2>1. <<>> \in Seq(Event) /\ {0} \subseteq Nat
    OBVIOUS
  <2>2. index \in [Sessions -> Indexed]
    BY AbsentIs DEF Init
  <2>3. answer \in [session : Sessions \cup {None}, owner : AnyOwner, after : Nat, events : Seq(Event)]
    BY NothingIs DEF Init
  <2>4. /\ queue \in [Nodes -> Seq(Event)] /\ buffered \in [Nodes -> Seq(Event)]
        /\ broker \in [Keys -> Seq(Event)]
    BY <2>1 DEF Init
  <2>5. /\ owner \in [Sessions -> AnyOwner \cup {None}]
        /\ seq \in [Nodes -> [Sessions -> Nat \cup {None}]]
    BY DEF Init
  <2>6. /\ waiting \in [Nodes -> SUBSET Event]
        /\ sending \in [Nodes -> SUBSET Event]
        /\ held \in [Nodes -> SUBSET Event]
    BY DEF Init
  <2>7. /\ shut \in [Nodes -> {"open", "draining", "drained", "closed"}]
        /\ pos \in [Keys -> Nat] /\ committed \in [Keys -> Nat]
        /\ said \subseteq Event /\ lost \subseteq Event /\ {ticks, faults} \subseteq Nat
    BY DEF Init
  <2> QED BY <2>2, <2>3, <2>4, <2>5, <2>6, <2>7 DEF TypeOK
<1>2. Owned
  BY PipelineAssumption DEF Init, Owned
<1>3. Carried
  BY DEF Init, Carried
<1>4. IndexRight
  BY AbsentIs DEF Init, IndexRight
<1>5. AnswerRight
  BY NothingIs DEF Init, AnswerRight
<1> QED BY <1>1, <1>2, <1>3, <1>4, <1>5 DEF IInv

\* Every step keeps the invariant.
LEMMA NextIInv == IInv /\ [Next]_vars => IInv'
BY NextTypeOK, NextOwned, NextCarried, NextIndexRight, NextAnswerRight, Zenon DEF IInv

\* In every behaviour of the pipeline the variables have their types.
THEOREM PipelineTypes == Spec => []TypeOK
<1>1. IInv => TypeOK
  BY DEF IInv
<1> QED BY InitIInv, NextIInv, <1>1, PTL DEF Spec

\* Every step is one of TranscriptLog, or leaves what it tells of alone.
LEMMA NextLog ==
  ASSUME TypeOK', AnswerRight', [Next]_vars
  PROVE  [Log!Next]_<<said, answer>>
<1> DEFINE Goal == [Log!Next]_<<said, answer>>
<1> SUFFICES Goal
  OBVIOUS
<1>1. ASSUME NEW n \in Nodes, NEW s \in Sessions, NEW o \in AnyOwner, Start(n, s, o) PROVE Goal
  BY <1>1 DEF Start
<1>2. ASSUME NEW n \in Nodes, Resume(n) PROVE Goal
  <2>1. said' = said
    BY <1>2 DEF Resume
  <2> QED BY <2>1 DEF AnswerRight, Log!Next, Log!Answer
<1>3. ASSUME NEW n \in Nodes, NEW s \in Sessions, Record(n, s) PROVE Goal
  <2>1. answer' = answer /\ \E e \in said' : said' = said \cup {e}
    BY <1>3 DEF Record
  <2> QED BY <2>1 DEF TypeOK, Log!Next, Log!Say
<1>4. ASSUME NEW n \in Nodes, NEW e \in said, BeginPublish(n, e) PROVE Goal
  BY <1>4 DEF BeginPublish
<1>5. ASSUME NEW n \in Nodes, NEW e \in said, EndPublish(n, e) PROVE Goal
  BY <1>5 DEF EndPublish
<1>6. ASSUME NEW n \in Nodes, Dequeue(n) PROVE Goal
  BY <1>6 DEF Dequeue
<1>7. ASSUME NEW n \in Nodes, Produce(n) PROVE Goal
  BY <1>7 DEF Produce
<1>8. ASSUME NEW n \in Nodes, WorkerEnds(n) PROVE Goal
  BY <1>8 DEF WorkerEnds
<1>9. ASSUME NEW n \in Nodes, BeginClose(n) PROVE Goal
  BY <1>9 DEF BeginClose
<1>10. ASSUME NEW n \in Nodes, EndClose(n) PROVE Goal
  BY <1>10 DEF EndClose
<1>11. ASSUME NEW n \in Nodes, Deliver(n) PROVE Goal
  BY <1>11 DEF Deliver
<1>12. ASSUME NEW n \in Nodes, Refuse(n) PROVE Goal
  BY <1>12 DEF Refuse
<1>13. ASSUME NEW k \in Keys, Ingest(k) PROVE Goal
  BY <1>13 DEF Ingest
<1>14. ASSUME NEW k \in Keys, SkipFetch(k) PROVE Goal
  BY <1>14 DEF SkipFetch
<1>15. CASE Restart
  BY <1>15 DEF Restart
<1>16. CASE Tick
  BY <1>16 DEF Tick
<1>17. ASSUME NEW s \in Sessions, NEW o \in AnyOwner, NEW after \in 0..MaxLines, Query(s, o, after) PROVE Goal
  <2>1. said' = said
    BY <1>17 DEF Query
  <2> QED BY <2>1 DEF AnswerRight, Log!Next, Log!Answer
<1>18. CASE UNCHANGED vars
  BY <1>18 DEF vars
<1> HIDE DEF Goal
<1> QED
  BY <1>1, <1>2, <1>3, <1>4, <1>5, <1>6, <1>7, <1>8, <1>9, <1>10, <1>11, <1>12, <1>13, <1>14, <1>15, <1>16, <1>17, <1>18, Zenon DEF Next, Drain

\* The pipeline implements TranscriptLog: whatever the sizes of its queues, the
\* losses, redeliveries and restarts, an answer holds lines that were recorded
\* under the id, the asker's own, later than what it has, in order.
THEOREM PipelineReplaysTranscript == Spec => ReplaysTranscript
<1>1. Init => Log!Init
  BY DEF Init, NoAnswer, Log!Init
<1>2. IInv /\ IInv' /\ [Next]_vars => [Log!Next]_<<said, answer>>
  BY NextLog, Zenon DEF IInv
<1>3. Spec => Log!Spec
  BY <1>1, <1>2, InitIInv, NextIInv, PTL DEF Spec, Log!Spec
<1> QED BY <1>3 DEF ReplaysTranscript

\* No step leaves a goroutine sending on a channel that is closed.
LEMMA NextNoSendOnClosed ==
  ASSUME TypeOK, NoSendOnClosed, [Next]_vars
  PROVE  NoSendOnClosed'
<1> DEFINE Goal == NoSendOnClosed'
<1> SUFFICES Goal
  OBVIOUS
<1>1. ASSUME NEW n \in Nodes, NEW s \in Sessions, NEW o \in AnyOwner, Start(n, s, o) PROVE Goal
  BY <1>1 DEF Start, NoSendOnClosed, proxyVars, topicVars, boundVars
<1>2. ASSUME NEW n \in Nodes, Resume(n) PROVE Goal
  BY <1>2 DEF Resume, NoSendOnClosed, proxyVars, topicVars, boundVars
<1>3. ASSUME NEW n \in Nodes, NEW s \in Sessions, Record(n, s) PROVE Goal
  BY <1>3 DEF Record, NoSendOnClosed, proxyVars, topicVars, boundVars
<1>4. ASSUME NEW n \in Nodes, NEW e \in said, BeginPublish(n, e) PROVE Goal
  <2>1. \A m \in Nodes : shut'[m] = shut[m] /\ (sending'[m] = sending[m] \/ shut[m] = "open")
    BY <1>4 DEF BeginPublish, TypeOK
  <2> QED BY <2>1 DEF NoSendOnClosed
<1>5. ASSUME NEW n \in Nodes, NEW e \in said, EndPublish(n, e) PROVE Goal
  <2>1. \A m \in Nodes : shut'[m] = shut[m] /\ sending'[m] \subseteq sending[m]
    BY <1>5 DEF EndPublish, TypeOK
  <2> QED BY <2>1 DEF NoSendOnClosed
<1>6. ASSUME NEW n \in Nodes, Dequeue(n) PROVE Goal
  BY <1>6 DEF Dequeue, NoSendOnClosed, proxyVars, topicVars, boundVars
<1>7. ASSUME NEW n \in Nodes, Produce(n) PROVE Goal
  BY <1>7 DEF Produce, NoSendOnClosed, proxyVars, topicVars, boundVars
<1>8. ASSUME NEW n \in Nodes, WorkerEnds(n) PROVE Goal
  <2>1. \A m \in Nodes : shut'[m] = shut[m] \/ shut[m] # "open"
    BY <1>8 DEF WorkerEnds, TypeOK
  <2>2. sending' = sending
    BY <1>8 DEF WorkerEnds
  <2> QED BY <2>1, <2>2 DEF NoSendOnClosed
<1>9. ASSUME NEW n \in Nodes, BeginClose(n) PROVE Goal
  <2>1. \A m \in Nodes : shut'[m] = shut[m] \/ shut[m] # "open" \/ sending[m] = {}
    BY <1>9 DEF BeginClose, TypeOK
  <2>2. sending' = sending
    BY <1>9 DEF BeginClose
  <2> QED BY <2>1, <2>2 DEF NoSendOnClosed
<1>10. ASSUME NEW n \in Nodes, EndClose(n) PROVE Goal
  <2>1. \A m \in Nodes : shut'[m] = shut[m] \/ shut[m] # "open"
    BY <1>10 DEF EndClose, TypeOK
  <2>2. sending' = sending
    BY <1>10 DEF EndClose
  <2> QED BY <2>1, <2>2 DEF NoSendOnClosed
<1>11. ASSUME NEW n \in Nodes, Deliver(n) PROVE Goal
  BY <1>11 DEF Deliver, NoSendOnClosed, proxyVars, topicVars, boundVars
<1>12. ASSUME NEW n \in Nodes, Refuse(n) PROVE Goal
  BY <1>12 DEF Refuse, NoSendOnClosed, proxyVars, topicVars, boundVars
<1>13. ASSUME NEW k \in Keys, Ingest(k) PROVE Goal
  BY <1>13 DEF Ingest, NoSendOnClosed, proxyVars, topicVars, boundVars
<1>14. ASSUME NEW k \in Keys, SkipFetch(k) PROVE Goal
  BY <1>14 DEF SkipFetch, NoSendOnClosed, proxyVars, topicVars, boundVars
<1>15. CASE Restart
  BY <1>15 DEF Restart, NoSendOnClosed, proxyVars, topicVars, boundVars
<1>16. CASE Tick
  BY <1>16 DEF Tick, NoSendOnClosed, proxyVars, topicVars, boundVars
<1>17. ASSUME NEW s \in Sessions, NEW o \in AnyOwner, NEW after \in 0..MaxLines, Query(s, o, after) PROVE Goal
  BY <1>17 DEF Query, NoSendOnClosed, proxyVars, topicVars, boundVars
<1>18. CASE UNCHANGED vars
  BY <1>18 DEF vars, NoSendOnClosed, proxyVars, topicVars, boundVars
<1> HIDE DEF Goal
<1> QED
  BY <1>1, <1>2, <1>3, <1>4, <1>5, <1>6, <1>7, <1>8, <1>9, <1>10, <1>11, <1>12, <1>13, <1>14, <1>15, <1>16, <1>17, <1>18, Zenon DEF Next, Drain

\* The lock of Publish and Close: nobody is mid-send on a channel that has been
\* closed, which would end the process (sidechannel/kafka.go).
THEOREM PipelineNoSendOnClosed == Spec => []NoSendOnClosed
<1>1. Init => NoSendOnClosed
  BY DEF Init, NoSendOnClosed
<1>2. TypeOK /\ NoSendOnClosed /\ [Next]_vars => NoSendOnClosed'
  BY NextNoSendOnClosed, Zenon
<1> QED BY <1>1, <1>2, PipelineTypes, PTL DEF Spec

----------------------------------------------------------------------------
(* No silent loss                                                          *)

\* Where a line is, place by place.
Waits(e) == \E n \in Nodes : e \in waiting[n]
Sends(e) == \E n \in Nodes : e \in sending[n]
Queues(e) == \E n \in Nodes : \E i \in 1..Len(queue[n]) : queue[n][i] = e
InHand(e) == \E n \in Nodes : e \in held[n]
Buffers(e) == \E n \in Nodes : \E i \in 1..Len(buffered[n]) : buffered[n][i] = e
Unread(e) == \E k \in Keys : \E i \in (pos[k] + 1)..Len(broker[k]) : broker[k][i] = e
Settled(e) == e \in EventsOf(index) \cup lost

Somewhere(e) ==
  Waits(e) \/ Sends(e) \/ Queues(e) \/ InHand(e) \/ Buffers(e) \/ Unread(e) \/ Settled(e)

\* NoSilentLoss says that every line is somewhere.
LEMMA SomewhereIs ==
  ASSUME TypeOK
  PROVE  NoSilentLoss <=> \A e \in said : Somewhere(e)
<1>1. \A n \in Nodes : DOMAIN queue[n] = 1..Len(queue[n]) /\ DOMAIN buffered[n] = 1..Len(buffered[n])
  BY DEF TypeOK
<1>2. \A e : OnItsWay(e) <=> Waits(e) \/ Sends(e) \/ Queues(e) \/ InHand(e) \/ Buffers(e) \/ Unread(e)
  <2> TAKE e
  <2>1. Queues(e) <=> \E n \in Nodes : e \in ToSet(queue[n])
    BY <1>1 DEF Queues, ToSet
  <2>2. Buffers(e) <=> \E n \in Nodes : e \in ToSet(buffered[n])
    BY <1>1 DEF Buffers, ToSet
  <2> QED BY <2>1, <2>2 DEF OnItsWay, Waits, Sends, InHand, Unread
<1> QED BY <1>2 DEF NoSilentLoss, Somewhere, Settled

\* A place that a step leaves alone holds what it held.
LEMMA PlacesUnchanged ==
  /\ UNCHANGED waiting => \A d : Waits(d) => Waits(d)'
  /\ UNCHANGED sending => \A d : Sends(d) => Sends(d)'
  /\ UNCHANGED queue => \A d : Queues(d) => Queues(d)'
  /\ UNCHANGED held => \A d : InHand(d) => InHand(d)'
  /\ UNCHANGED buffered => \A d : Buffers(d) => Buffers(d)'
  /\ UNCHANGED <<broker, pos>> => \A d : Unread(d) => Unread(d)'
  /\ UNCHANGED <<index, lost>> => \A d : Settled(d) => Settled(d)'
<1>1. UNCHANGED waiting => \A d : Waits(d) => Waits(d)'
  BY DEF Waits
<1>2. UNCHANGED sending => \A d : Sends(d) => Sends(d)'
  BY DEF Sends
<1>3. UNCHANGED queue => \A d : Queues(d) => Queues(d)'
  BY DEF Queues
<1>4. UNCHANGED held => \A d : InHand(d) => InHand(d)'
  BY DEF InHand
<1>5. UNCHANGED buffered => \A d : Buffers(d) => Buffers(d)'
  BY DEF Buffers
<1>6. UNCHANGED <<broker, pos>> => \A d : Unread(d) => Unread(d)'
  BY DEF Unread
<1>7. UNCHANGED <<index, lost>> => \A d : Settled(d) => Settled(d)'
  BY DEF Settled, EventsOf
<1> QED BY <1>1, <1>2, <1>3, <1>4, <1>5, <1>6, <1>7

\* What a grown set of losses holds.
LEMMA LostGrows ==
  ASSUME index' = index, NEW S, lost' = lost \cup S
  PROVE  \A d : Settled(d) \/ d \in S => Settled(d)'
BY DEF Settled, EventsOf

\* A queue of a node gets a line at its end.
LEMMA QueueGrows ==
  ASSUME TypeOK, NEW n \in Nodes, NEW e, queue' = [queue EXCEPT ![n] = Append(@, e)]
  PROVE  Queues(e)' /\ \A d : Queues(d) => Queues(d)'
<1>1. /\ queue'[n] = Append(queue[n], e) /\ \A m \in Nodes : m # n => queue'[m] = queue[m]
      /\ \A m \in Nodes : queue[m] \in Seq(Event)
  BY DEF TypeOK
<1>2. /\ Len(queue[n]) \in Nat /\ Len(queue'[n]) = Len(queue[n]) + 1 /\ queue'[n][Len(queue[n]) + 1] = e
      /\ \A i \in 1..Len(queue[n]) : queue'[n][i] = queue[n][i]
  BY <1>1
<1>3. Queues(e)'
  BY <1>2 DEF Queues
<1>4. ASSUME NEW d, Queues(d) PROVE Queues(d)'
  <2> PICK m \in Nodes : \E i \in 1..Len(queue[m]) : queue[m][i] = d
    BY <1>4 DEF Queues
  <2> PICK i \in 1..Len(queue[m]) : queue[m][i] = d
    OBVIOUS
  <2>1. CASE m = n
    <3>1. i \in 1..Len(queue'[n]) /\ queue'[n][i] = d
      BY <1>2, <2>1
    <3> QED BY <3>1 DEF Queues
  <2>2. CASE m # n
    BY <1>1, <2>2 DEF Queues
  <2> QED BY <2>1, <2>2
<1> QED BY <1>3, <1>4

\* A queue of a node loses its head.
LEMMA QueueShrinks ==
  ASSUME TypeOK, NEW n \in Nodes, queue[n] # <<>>, queue' = [queue EXCEPT ![n] = Tail(@)]
  PROVE  \A d : Queues(d) => Queues(d)' \/ d = Head(queue[n])
<1>1. /\ queue'[n] = Tail(queue[n]) /\ \A m \in Nodes : m # n => queue'[m] = queue[m]
      /\ queue[n] \in Seq(Event)
  BY DEF TypeOK
<1>2. /\ Len(queue[n]) \in Nat /\ Len(queue'[n]) = Len(queue[n]) - 1 /\ Head(queue[n]) = queue[n][1]
      /\ \A i \in 1..Len(queue'[n]) : queue'[n][i] = queue[n][i + 1]
  <2>1. /\ Head(queue[n]) = queue[n][1] /\ Len(queue[n]) \in Nat
        /\ Len(Tail(queue[n])) = Len(queue[n]) - 1
    BY <1>1
  <2>2. \A i \in 1..Len(Tail(queue[n])) : Tail(queue[n])[i] = queue[n][i + 1]
    BY <1>1, HeadTailProperties
  <2> QED BY <1>1, <2>1, <2>2
<1> SUFFICES ASSUME NEW d, Queues(d), d # Head(queue[n]) PROVE Queues(d)'
  OBVIOUS
<1> PICK m \in Nodes : \E i \in 1..Len(queue[m]) : queue[m][i] = d
  BY DEF Queues
<1> PICK i \in 1..Len(queue[m]) : queue[m][i] = d
  OBVIOUS
<1>3. CASE m = n
  <2>1. i # 1 /\ i \in 1..Len(queue[n])
    BY <1>2, <1>3
  <2>2. i - 1 \in 1..Len(queue'[n]) /\ (i - 1) + 1 = i
    BY <1>2, <2>1
  <2>3. queue'[n][i - 1] = d
    BY <1>2, <1>3, <2>2
  <2> QED BY <2>2, <2>3 DEF Queues
<1>4. CASE m # n
  BY <1>1, <1>4 DEF Queues
<1> QED BY <1>3, <1>4

\* A client's buffer gets a record at its end.
LEMMA BufferGrows ==
  ASSUME TypeOK, NEW n \in Nodes, NEW e, buffered' = [buffered EXCEPT ![n] = Append(@, e)]
  PROVE  Buffers(e)' /\ \A d : Buffers(d) => Buffers(d)'
<1>1. /\ buffered'[n] = Append(buffered[n], e) /\ \A m \in Nodes : m # n => buffered'[m] = buffered[m]
      /\ \A m \in Nodes : buffered[m] \in Seq(Event)
  BY DEF TypeOK
<1>2. /\ Len(buffered[n]) \in Nat /\ Len(buffered'[n]) = Len(buffered[n]) + 1
      /\ buffered'[n][Len(buffered[n]) + 1] = e
      /\ \A i \in 1..Len(buffered[n]) : buffered'[n][i] = buffered[n][i]
  BY <1>1
<1>3. Buffers(e)'
  BY <1>2 DEF Buffers
<1>4. ASSUME NEW d, Buffers(d) PROVE Buffers(d)'
  <2> PICK m \in Nodes : \E i \in 1..Len(buffered[m]) : buffered[m][i] = d
    BY <1>4 DEF Buffers
  <2> PICK i \in 1..Len(buffered[m]) : buffered[m][i] = d
    OBVIOUS
  <2>1. CASE m = n
    <3>1. i \in 1..Len(buffered'[n]) /\ buffered'[n][i] = d
      BY <1>2, <2>1
    <3> QED BY <3>1 DEF Buffers
  <2>2. CASE m # n
    BY <1>1, <2>2 DEF Buffers
  <2> QED BY <2>1, <2>2
<1> QED BY <1>3, <1>4

\* A client's buffer loses a record.
LEMMA BufferShrinks ==
  ASSUME TypeOK, NEW n \in Nodes, NEW i \in 1..Len(buffered[n]),
         buffered' = [buffered EXCEPT ![n] = RemoveAt(@, i)]
  PROVE  \A d : Buffers(d) => Buffers(d)' \/ d = buffered[n][i]
<1>1. /\ buffered'[n] = RemoveAt(buffered[n], i) /\ \A m \in Nodes : m # n => buffered'[m] = buffered[m]
      /\ buffered[n] \in Seq(Event)
  BY DEF TypeOK
<1>2. /\ Len(buffered[n]) \in Nat /\ Len(buffered'[n]) = Len(buffered[n]) - 1
      /\ \A j \in 1..(Len(buffered[n]) - 1) :
           buffered'[n][j] = IF j < i THEN buffered[n][j] ELSE buffered[n][j + 1]
  <2>1. Len(buffered[n]) \in Nat
    BY <1>1
  <2>2. /\ Len(RemoveAt(buffered[n], i)) = Len(buffered[n]) - 1
        /\ \A j \in 1..(Len(buffered[n]) - 1) :
             RemoveAt(buffered[n], i)[j] = IF j < i THEN buffered[n][j] ELSE buffered[n][j + 1]
    BY <1>1, RemoveAtIs, Zenon
  <2> QED BY <1>1, <2>1, <2>2, Zenon
<1> SUFFICES ASSUME NEW d, Buffers(d), d # buffered[n][i] PROVE Buffers(d)'
  OBVIOUS
<1> PICK m \in Nodes : \E j \in 1..Len(buffered[m]) : buffered[m][j] = d
  BY DEF Buffers
<1> PICK j \in 1..Len(buffered[m]) : buffered[m][j] = d
  OBVIOUS
<1>3. CASE m = n /\ j < i
  <2>1. j \in 1..(Len(buffered[n]) - 1) /\ j \in 1..Len(buffered'[n])
    BY <1>2, <1>3
  <2>2. buffered'[n][j] = d
    BY <1>2, <1>3, <2>1
  <2> QED BY <2>1, <2>2 DEF Buffers
<1>4. CASE m = n /\ ~(j < i)
  <2>1. j # i /\ j \in 1..Len(buffered[n])
    BY <1>4
  <2>2. /\ j - 1 \in 1..(Len(buffered[n]) - 1) /\ j - 1 \in 1..Len(buffered'[n])
        /\ ~(j - 1 < i) /\ (j - 1) + 1 = j
    BY <1>2, <1>4, <2>1
  <2>3. buffered'[n][j - 1] = d
    BY <1>2, <1>4, <2>2
  <2> QED BY <2>2, <2>3 DEF Buffers
<1>5. CASE m # n
  BY <1>1, <1>5 DEF Buffers
<1> QED BY <1>3, <1>4, <1>5

\* A partition gets a record at its end.
LEMMA TopicGrows ==
  ASSUME TypeOK, NEW k \in Keys, NEW e, broker' = [broker EXCEPT ![k] = Append(@, e)],
         pos' = pos, pos[k] <= Len(broker[k])
  PROVE  Unread(e)' /\ \A d : Unread(d) => Unread(d)'
<1>1. /\ broker'[k] = Append(broker[k], e) /\ \A l \in Keys : l # k => broker'[l] = broker[l]
      /\ broker[k] \in Seq(Event) /\ pos[k] \in Nat
  BY DEF TypeOK
<1>2. /\ Len(broker[k]) \in Nat /\ Len(broker'[k]) = Len(broker[k]) + 1
      /\ broker'[k][Len(broker[k]) + 1] = e
      /\ \A i \in 1..Len(broker[k]) : broker'[k][i] = broker[k][i]
  BY <1>1
<1>3. Len(broker[k]) + 1 \in (pos'[k] + 1)..Len(broker'[k])
  BY <1>1, <1>2
<1>4. Unread(e)'
  BY <1>2, <1>3 DEF Unread
<1>5. ASSUME NEW d, Unread(d) PROVE Unread(d)'
  <2> PICK l \in Keys : \E i \in (pos[l] + 1)..Len(broker[l]) : broker[l][i] = d
    BY <1>5 DEF Unread
  <2> PICK i \in (pos[l] + 1)..Len(broker[l]) : broker[l][i] = d
    OBVIOUS
  <2>1. CASE l = k
    <3>1. i \in (pos'[k] + 1)..Len(broker'[k]) /\ i \in 1..Len(broker[k])
      BY <1>1, <1>2, <2>1
    <3>2. broker'[k][i] = d
      BY <1>2, <2>1, <3>1
    <3> QED BY <3>1, <3>2 DEF Unread
  <2>2. CASE l # k
    BY <1>1, <2>2 DEF Unread
  <2> QED BY <2>1, <2>2
<1> QED BY <1>4, <1>5

\* A record is read.
LEMMA TopicRead ==
  ASSUME TypeOK, NEW k \in Keys, pos' = [pos EXCEPT ![k] = @ + 1], broker' = broker
  PROVE  \A d : Unread(d) => Unread(d)' \/ d = broker[k][pos[k] + 1]
<1> SUFFICES ASSUME NEW d, Unread(d), d # broker[k][pos[k] + 1] PROVE Unread(d)'
  OBVIOUS
<1>1. /\ pos[k] \in Nat /\ pos'[k] = pos[k] + 1 /\ \A l \in Keys : l # k => pos'[l] = pos[l]
      /\ Len(broker[k]) \in Nat
  BY DEF TypeOK
<1> PICK l \in Keys : \E i \in (pos[l] + 1)..Len(broker[l]) : broker[l][i] = d
  BY DEF Unread
<1> PICK i \in (pos[l] + 1)..Len(broker[l]) : broker[l][i] = d
  OBVIOUS
<1>2. CASE l = k
  <2>1. i # pos[k] + 1 /\ i \in (pos[k] + 1)..Len(broker[k])
    BY <1>2
  <2>2. i \in (pos'[k] + 1)..Len(broker'[k])
    BY <1>1, <2>1
  <2> QED BY <1>2, <2>2 DEF Unread
<1>3. CASE l # k
  BY <1>1, <1>3 DEF Unread
<1> QED BY <1>2, <1>3

\* The consumer reads what is there, and commits what it has read.
ReadBefore == \A k \in Keys : committed[k] <= pos[k] /\ pos[k] <= Len(broker[k])

\* run() hands a line on before it takes the next.
OneInHand == \A n \in Nodes : \A d, e \in held[n] : d = e

\* Every step keeps the consumer's and run()'s places.
LEMMA NextReadBefore ==
  ASSUME TypeOK, ReadBefore, OneInHand, [Next]_vars
  PROVE  ReadBefore' /\ OneInHand'
<1> DEFINE Goal == ReadBefore' /\ OneInHand'
<1> SUFFICES Goal
  OBVIOUS
<1>1. ASSUME NEW n \in Nodes, NEW s \in Sessions, NEW o \in AnyOwner, Start(n, s, o) PROVE Goal
  <2>9. UNCHANGED <<pos, committed, broker, held>>
    BY <1>1 DEF Start, proxyVars, topicVars, boundVars
  <2> QED BY <2>9 DEF ReadBefore, OneInHand
<1>2. ASSUME NEW n \in Nodes, Resume(n) PROVE Goal
  <2>9. UNCHANGED <<pos, committed, broker, held>>
    BY <1>2 DEF Resume, proxyVars, topicVars, boundVars
  <2> QED BY <2>9 DEF ReadBefore, OneInHand
<1>3. ASSUME NEW n \in Nodes, NEW s \in Sessions, Record(n, s) PROVE Goal
  <2>9. UNCHANGED <<pos, committed, broker, held>>
    BY <1>3 DEF Record, proxyVars, topicVars, boundVars
  <2> QED BY <2>9 DEF ReadBefore, OneInHand
<1>4. ASSUME NEW n \in Nodes, NEW e \in said, BeginPublish(n, e) PROVE Goal
  <2>9. UNCHANGED <<pos, committed, broker, held>>
    BY <1>4 DEF BeginPublish, proxyVars, topicVars, boundVars
  <2> QED BY <2>9 DEF ReadBefore, OneInHand
<1>5. ASSUME NEW n \in Nodes, NEW e \in said, EndPublish(n, e) PROVE Goal
  <2>9. UNCHANGED <<pos, committed, broker, held>>
    BY <1>5 DEF EndPublish, proxyVars, topicVars, boundVars
  <2> QED BY <2>9 DEF ReadBefore, OneInHand
<1>6. ASSUME NEW n \in Nodes, Dequeue(n) PROVE Goal
  <2>1. \A m \in Nodes : held'[m] = held[m] \/ held'[m] = {Head(queue[n])}
    BY <1>6 DEF Dequeue, TypeOK
  <2>2. UNCHANGED <<pos, committed, broker>>
    BY <1>6 DEF Dequeue, proxyVars, topicVars, boundVars
  <2> QED BY <2>1, <2>2 DEF ReadBefore, OneInHand
<1>7. ASSUME NEW n \in Nodes, Produce(n) PROVE Goal
  <2>1. \A m \in Nodes : held'[m] \subseteq held[m]
    BY <1>7 DEF Produce, TypeOK
  <2>2. UNCHANGED <<pos, committed, broker>>
    BY <1>7 DEF Produce, proxyVars, topicVars, boundVars
  <2> QED BY <2>1, <2>2 DEF ReadBefore, OneInHand
<1>8. ASSUME NEW n \in Nodes, WorkerEnds(n) PROVE Goal
  <2>9. UNCHANGED <<pos, committed, broker, held>>
    BY <1>8 DEF WorkerEnds, proxyVars, topicVars, boundVars
  <2> QED BY <2>9 DEF ReadBefore, OneInHand
<1>9. ASSUME NEW n \in Nodes, BeginClose(n) PROVE Goal
  <2>9. UNCHANGED <<pos, committed, broker, held>>
    BY <1>9 DEF BeginClose, proxyVars, topicVars, boundVars
  <2> QED BY <2>9 DEF ReadBefore, OneInHand
<1>10. ASSUME NEW n \in Nodes, EndClose(n) PROVE Goal
  <2>9. UNCHANGED <<pos, committed, broker, held>>
    BY <1>10 DEF EndClose, proxyVars, topicVars, boundVars
  <2> QED BY <2>9 DEF ReadBefore, OneInHand
<1>11. ASSUME NEW n \in Nodes, Deliver(n) PROVE Goal
  <2> PICK i \in 1..Len(buffered[n]) :
         broker' = [broker EXCEPT ![Key(buffered[n][i])] = Append(@, buffered[n][i])]
    BY <1>11, Zenon DEF Deliver
  <2>1. buffered[n][i] \in Event
    BY DEF TypeOK
  <2>2. \A k \in Keys : broker[k] \in Seq(Event) /\ broker'[k] \in {broker[k], Append(broker[k], buffered[n][i])}
    BY DEF TypeOK
  <2>3. \A k \in Keys : Len(broker'[k]) >= Len(broker[k]) /\ Len(broker[k]) \in Nat /\ Len(broker'[k]) \in Nat
    BY <2>1, <2>2
  <2>4. pos' = pos /\ committed' = committed /\ held' = held
    BY <1>11 DEF Deliver
  <2> QED BY <2>3, <2>4 DEF TypeOK, ReadBefore, OneInHand
<1>12. ASSUME NEW n \in Nodes, Refuse(n) PROVE Goal
  <2>9. UNCHANGED <<pos, committed, broker, held>>
    BY <1>12 DEF Refuse, proxyVars, topicVars, boundVars
  <2> QED BY <2>9 DEF ReadBefore, OneInHand
<1>13. ASSUME NEW k \in Keys, Ingest(k) PROVE Goal
  <2>1. pos[k] < Len(broker[k]) /\ pos' = [pos EXCEPT ![k] = @ + 1]
    BY <1>13 DEF Ingest
  <2>2. UNCHANGED <<broker, committed, held>>
    BY <1>13 DEF Ingest, proxyVars, topicVars, boundVars
  <2>3. \A l \in Keys : /\ committed[l] \in Nat /\ pos[l] \in Nat /\ Len(broker[l]) \in Nat
                       /\ pos'[l] = IF l = k THEN pos[l] + 1 ELSE pos[l]
    BY <2>1 DEF TypeOK
  <2> QED BY <2>1, <2>2, <2>3 DEF ReadBefore, OneInHand
<1>14. ASSUME NEW k \in Keys, SkipFetch(k) PROVE Goal
  <2>1. pos[k] < Len(broker[k]) /\ pos' = [pos EXCEPT ![k] = @ + 1]
    BY <1>14 DEF SkipFetch
  <2>2. UNCHANGED <<broker, committed, held>>
    BY <1>14 DEF SkipFetch, proxyVars, topicVars, boundVars
  <2>3. \A l \in Keys : /\ committed[l] \in Nat /\ pos[l] \in Nat /\ Len(broker[l]) \in Nat
                       /\ pos'[l] = IF l = k THEN pos[l] + 1 ELSE pos[l]
    BY <2>1 DEF TypeOK
  <2> QED BY <2>1, <2>2, <2>3 DEF ReadBefore, OneInHand
<1>15. CASE Restart
  <2>1. /\ \A k \in Keys : committed'[k] \in committed[k]..pos[k]
        /\ pos' = committed' /\ UNCHANGED <<broker, held>>
    BY <1>15 DEF Restart, proxyVars, topicVars, boundVars
  <2>2. \A k \in Keys : committed[k] \in Nat /\ pos[k] \in Nat /\ Len(broker[k]) \in Nat
    BY DEF TypeOK
  <2> QED BY <2>1, <2>2 DEF ReadBefore, OneInHand
<1>16. CASE Tick
  <2>9. UNCHANGED <<pos, committed, broker, held>>
    BY <1>16 DEF Tick, proxyVars, topicVars, boundVars
  <2> QED BY <2>9 DEF ReadBefore, OneInHand
<1>17. ASSUME NEW s \in Sessions, NEW o \in AnyOwner, NEW after \in 0..MaxLines, Query(s, o, after) PROVE Goal
  <2>9. UNCHANGED <<pos, committed, broker, held>>
    BY <1>17 DEF Query, proxyVars, topicVars, boundVars
  <2> QED BY <2>9 DEF ReadBefore, OneInHand
<1>18. CASE UNCHANGED vars
  <2>9. UNCHANGED <<pos, committed, broker, held>>
    BY <1>18 DEF vars, proxyVars, topicVars, boundVars, proxyVars, topicVars, boundVars
  <2> QED BY <2>9 DEF ReadBefore, OneInHand
<1> HIDE DEF Goal
<1> QED
  BY <1>1, <1>2, <1>3, <1>4, <1>5, <1>6, <1>7, <1>8, <1>9, <1>10, <1>11, <1>12, <1>13, <1>14, <1>15, <1>16, <1>17, <1>18, Zenon DEF Next, Drain

\* No step loses track of a line.
LEMMA NextSomewhere ==
  ASSUME TypeOK, ReadBefore, OneInHand, \A d \in said : Somewhere(d), [Next]_vars
  PROVE  \A d \in said' : Somewhere(d)'
<1> DEFINE Goal == \A d \in said' : Somewhere(d)'
<1> SUFFICES Goal
  OBVIOUS
<1>1. ASSUME NEW n \in Nodes, NEW s \in Sessions, NEW o \in AnyOwner, Start(n, s, o) PROVE Goal
  <2>9. UNCHANGED <<said, waiting, sending, queue, held, buffered, broker, pos, index, lost>>
    BY <1>1 DEF Start, proxyVars, topicVars, boundVars
  <2> QED BY <2>9, PlacesUnchanged DEF Somewhere
<1>2. ASSUME NEW n \in Nodes, Resume(n) PROVE Goal
  <2>9. UNCHANGED <<said, waiting, sending, queue, held, buffered, broker, pos, index, lost>>
    BY <1>2 DEF Resume, proxyVars, topicVars, boundVars
  <2> QED BY <2>9, PlacesUnchanged DEF Somewhere
<1>3. ASSUME NEW n \in Nodes, NEW s \in Sessions, Record(n, s) PROVE Goal
  <2> PICK e : e = [session |-> s, owner |-> owner[s], by |-> n, seq |-> seq[n][s] + 1]
    OBVIOUS
  <2>1. said' = said \cup {e} /\ waiting' = [waiting EXCEPT ![n] = @ \cup {e}]
    BY <1>3 DEF Record
  <2>9. UNCHANGED <<sending, queue, held, buffered, broker, pos, index, lost>>
    BY <1>3 DEF Record, proxyVars, topicVars, boundVars
  <2>2. Waits(e)' /\ \A d : Waits(d) => Waits(d)'
    BY <2>1 DEF TypeOK, Waits
  <2> QED BY <2>1, <2>2, <2>9, PlacesUnchanged DEF Somewhere
<1>4. ASSUME NEW n \in Nodes, NEW e \in said, BeginPublish(n, e) PROVE Goal
  <2>9. UNCHANGED <<said, queue, held, buffered, broker, pos, index>>
    BY <1>4 DEF BeginPublish, proxyVars, topicVars, boundVars
  <2>1. \A d : Waits(d) => Waits(d)' \/ d = e
    BY <1>4 DEF BeginPublish, TypeOK, Waits
  <2>2. CASE sending' = [sending EXCEPT ![n] = @ \cup {e}] /\ lost' = lost
    <3>1. Sends(e)' /\ \A d : Sends(d) => Sends(d)'
      BY <2>2 DEF TypeOK, Sends
    <3> QED BY <2>1, <2>2, <2>9, <3>1, PlacesUnchanged DEF Somewhere
  <2>3. CASE sending' = sending /\ lost' = lost \cup {e}
    <3>1. \A d : Settled(d) \/ d = e => Settled(d)'
      BY <2>3, <2>9, LostGrows
    <3> QED BY <2>1, <2>3, <2>9, <3>1, PlacesUnchanged DEF Somewhere
  <2> QED BY <1>4, <2>2, <2>3 DEF BeginPublish
<1>5. ASSUME NEW n \in Nodes, NEW e \in said, EndPublish(n, e) PROVE Goal
  <2>9. UNCHANGED <<said, waiting, held, buffered, broker, pos, index>>
    BY <1>5 DEF EndPublish, proxyVars, topicVars, boundVars
  <2>1. \A d : Sends(d) => Sends(d)' \/ d = e
    BY <1>5 DEF EndPublish, TypeOK, Sends
  <2>2. CASE queue' = [queue EXCEPT ![n] = Append(@, e)] /\ lost' = lost
    <3>1. Queues(e)' /\ \A d : Queues(d) => Queues(d)'
      BY <2>2, QueueGrows
    <3> QED BY <2>1, <2>2, <2>9, <3>1, PlacesUnchanged DEF Somewhere
  <2>3. CASE queue' = queue /\ lost' = lost \cup {e}
    <3>1. \A d : Settled(d) \/ d = e => Settled(d)'
      BY <2>3, <2>9, LostGrows
    <3> QED BY <2>1, <2>3, <2>9, <3>1, PlacesUnchanged DEF Somewhere
  <2> QED BY <1>5, <2>2, <2>3 DEF EndPublish
<1>6. ASSUME NEW n \in Nodes, Dequeue(n) PROVE Goal
  <2>9. UNCHANGED <<said, waiting, sending, buffered, broker, pos, index>>
    BY <1>6 DEF Dequeue, proxyVars, topicVars, boundVars
  <2> PICK e : e = Head(queue[n])
    OBVIOUS
  <2>1. \A d : Queues(d) => Queues(d)' \/ d = e
    BY <1>6, QueueShrinks DEF Dequeue
  <2>2. CASE held' = [held EXCEPT ![n] = {e}] /\ lost' = lost
    <3>1. InHand(e)' /\ \A d : InHand(d) => InHand(d)'
      BY <1>6, <2>2 DEF Dequeue, TypeOK, InHand
    <3> QED BY <2>1, <2>2, <2>9, <3>1, PlacesUnchanged DEF Somewhere
  <2>3. CASE held' = held /\ lost' = lost \cup {e}
    <3>1. \A d : Settled(d) \/ d = e => Settled(d)'
      BY <2>3, <2>9, LostGrows
    <3> QED BY <2>1, <2>3, <2>9, <3>1, PlacesUnchanged DEF Somewhere
  <2> QED BY <1>6, <2>2, <2>3 DEF Dequeue
<1>7. ASSUME NEW n \in Nodes, Produce(n) PROVE Goal
  <2>9. UNCHANGED <<said, waiting, sending, queue, broker, pos, index, lost>>
    BY <1>7 DEF Produce, proxyVars, topicVars, boundVars
  <2> PICK e \in held[n] : buffered' = [buffered EXCEPT ![n] = Append(@, e)]
    BY <1>7 DEF Produce
  <2>1. Buffers(e)' /\ \A d : Buffers(d) => Buffers(d)'
    BY BufferGrows
  <2>2. \A d \in held[n] : d = e
    BY DEF OneInHand
  <2>3. \A d : InHand(d) => InHand(d)' \/ d = e
    BY <1>7, <2>2 DEF Produce, TypeOK, InHand
  <2> QED BY <2>1, <2>3, <2>9, PlacesUnchanged DEF Somewhere
<1>8. ASSUME NEW n \in Nodes, WorkerEnds(n) PROVE Goal
  <2>9. UNCHANGED <<said, waiting, sending, queue, held, buffered, broker, pos, index, lost>>
    BY <1>8 DEF WorkerEnds, proxyVars, topicVars, boundVars
  <2> QED BY <2>9, PlacesUnchanged DEF Somewhere
<1>9. ASSUME NEW n \in Nodes, BeginClose(n) PROVE Goal
  <2>9. UNCHANGED <<said, waiting, sending, queue, held, buffered, broker, pos, index, lost>>
    BY <1>9 DEF BeginClose, proxyVars, topicVars, boundVars
  <2> QED BY <2>9, PlacesUnchanged DEF Somewhere
<1>10. ASSUME NEW n \in Nodes, EndClose(n) PROVE Goal
  <2>9. UNCHANGED <<said, waiting, sending, queue, held, broker, pos, index>>
    BY <1>10 DEF EndClose, proxyVars, topicVars, boundVars
  <2>1. lost' = lost \cup ToSet(buffered[n]) /\ buffered' = [buffered EXCEPT ![n] = <<>>]
    BY <1>10 DEF EndClose
  <2>2. \A d : Settled(d) \/ d \in ToSet(buffered[n]) => Settled(d)'
    BY <2>1, <2>9, LostGrows
  <2>3. \A i \in 1..Len(buffered[n]) : buffered[n][i] \in ToSet(buffered[n])
    BY DEF TypeOK, ToSet
  <2>4. \A m \in Nodes : m # n => buffered'[m] = buffered[m]
    BY <2>1 DEF TypeOK
  <2>5. \A d : Buffers(d) => Buffers(d)' \/ d \in ToSet(buffered[n])
    BY <2>3, <2>4 DEF Buffers
  <2> QED BY <2>2, <2>5, <2>9, PlacesUnchanged DEF Somewhere
<1>11. ASSUME NEW n \in Nodes, Deliver(n) PROVE Goal
  <2>9. UNCHANGED <<said, waiting, sending, queue, held, pos, index, lost>>
    BY <1>11 DEF Deliver, proxyVars, topicVars, boundVars
  <2> PICK i \in 1..Len(buffered[n]) :
         /\ broker' = [broker EXCEPT ![Key(buffered[n][i])] = Append(@, buffered[n][i])]
         /\ buffered' = buffered \/ buffered' = [buffered EXCEPT ![n] = RemoveAt(@, i)]
    BY <1>11, Zenon DEF Deliver
  <2> PICK e : e = buffered[n][i]
    OBVIOUS
  <2>1. Key(e) \in Keys
    BY KeyIs DEF TypeOK
  <2>2. pos[Key(e)] <= Len(broker[Key(e)])
    BY <2>1 DEF ReadBefore
  <2>3. Unread(e)' /\ \A d : Unread(d) => Unread(d)'
    BY <2>1, <2>2, <2>9, TopicGrows
  <2>4. \A d : Buffers(d) => Buffers(d)' \/ d = e
    BY BufferShrinks, PlacesUnchanged
  <2> QED BY <2>3, <2>4, <2>9, PlacesUnchanged DEF Somewhere
<1>12. ASSUME NEW n \in Nodes, Refuse(n) PROVE Goal
  <2>9. UNCHANGED <<said, waiting, sending, queue, held, broker, pos, index>>
    BY <1>12 DEF Refuse, proxyVars, topicVars, boundVars
  <2> PICK i \in 1..Len(buffered[n]) :
         /\ buffered' = [buffered EXCEPT ![n] = RemoveAt(@, i)]
         /\ lost' = lost \cup {buffered[n][i]}
    BY <1>12, Zenon DEF Refuse
  <2> PICK e : e = buffered[n][i]
    OBVIOUS
  <2>1. \A d : Settled(d) \/ d = e => Settled(d)'
    BY <2>9, LostGrows
  <2>2. \A d : Buffers(d) => Buffers(d)' \/ d = e
    BY BufferShrinks
  <2> QED BY <2>1, <2>2, <2>9, PlacesUnchanged DEF Somewhere
<1>13. ASSUME NEW k \in Keys, Ingest(k) PROVE Goal
  <2>9. UNCHANGED <<said, waiting, sending, queue, held, buffered, broker>>
    BY <1>13 DEF Ingest, proxyVars, topicVars, boundVars
  <2> PICK e : e = broker[k][pos[k] + 1]
    OBVIOUS
  <2>1. pos' = [pos EXCEPT ![k] = @ + 1] /\ lost' = lost \cup ((EventsOf(index) \cup {e}) \ EventsOf(index'))
    BY <1>13 DEF Ingest
  <2>2. \A d : Unread(d) => Unread(d)' \/ d = e
    BY <2>1, <2>9, TopicRead
  <2>3. EventsOf(index)' = EventsOf(index')
    BY DEF EventsOf
  <2>4. \A d : Settled(d) \/ d = e => Settled(d)'
    BY <2>1, <2>3, Zenon DEF Settled
  <2> QED BY <2>2, <2>4, <2>9, PlacesUnchanged DEF Somewhere
<1>14. ASSUME NEW k \in Keys, SkipFetch(k) PROVE Goal
  <2>9. UNCHANGED <<said, waiting, sending, queue, held, buffered, broker, index>>
    BY <1>14 DEF SkipFetch, proxyVars, topicVars, boundVars
  <2> PICK e : e = broker[k][pos[k] + 1]
    OBVIOUS
  <2>1. pos' = [pos EXCEPT ![k] = @ + 1] /\ lost' = lost \cup {e}
    BY <1>14 DEF SkipFetch
  <2>2. \A d : Unread(d) => Unread(d)' \/ d = e
    BY <2>1, <2>9, TopicRead
  <2>3. \A d : Settled(d) \/ d = e => Settled(d)'
    BY <2>1, <2>9, LostGrows
  <2> QED BY <2>2, <2>3, <2>9, PlacesUnchanged DEF Somewhere
<1>15. CASE Restart
  <2>9. UNCHANGED <<said, waiting, sending, queue, held, buffered, broker>>
    BY <1>15 DEF Restart, proxyVars, topicVars, boundVars
  <2>1. \A k \in Keys : pos'[k] \in committed[k]..pos[k]
    BY <1>15 DEF Restart
  <2>2. \A k \in Keys : \A i \in (pos[k] + 1)..Len(broker[k]) : i \in (pos'[k] + 1)..Len(broker'[k])
    BY <2>1, <2>9 DEF TypeOK
  <2>3. \A d : Unread(d) => Unread(d)'
    BY <2>2, <2>9 DEF Unread
  <2>4. \A d : Settled(d) => Settled(d)'
    BY <1>15 DEF Restart, Settled
  <2> QED BY <2>3, <2>4, <2>9, PlacesUnchanged DEF Somewhere
<1>16. CASE Tick
  <2>9. UNCHANGED <<said, waiting, sending, queue, held, buffered, broker, pos, lost>>
    BY <1>16 DEF Tick, proxyVars, topicVars, boundVars
  <2>1. \A s \in Sessions : index'[s].events = index[s].events
    BY <1>16 DEF Tick, TypeOK, Indexed
  <2>2. \A d : Settled(d) => Settled(d)'
    BY <2>1, <2>9 DEF Settled, EventsOf
  <2> QED BY <2>2, <2>9, PlacesUnchanged DEF Somewhere
<1>17. ASSUME NEW s \in Sessions, NEW o \in AnyOwner, NEW after \in 0..MaxLines, Query(s, o, after) PROVE Goal
  <2>9. UNCHANGED <<said, waiting, sending, queue, held, buffered, broker, pos, index, lost>>
    BY <1>17 DEF Query, proxyVars, topicVars, boundVars
  <2> QED BY <2>9, PlacesUnchanged DEF Somewhere
<1>18. CASE UNCHANGED vars
  <2>9. UNCHANGED <<said, waiting, sending, queue, held, buffered, broker, pos, index, lost>>
    BY <1>18 DEF vars, proxyVars, topicVars, boundVars
  <2> QED BY <2>9, PlacesUnchanged DEF Somewhere
<1> HIDE DEF Goal
<1> QED
  BY <1>1, <1>2, <1>3, <1>4, <1>5, <1>6, <1>7, <1>8, <1>9, <1>10, <1>11, <1>12, <1>13, <1>14, <1>15, <1>16, <1>17, <1>18, Zenon DEF Next, Drain

\* From its recorder on every line is on its way, indexed, or was dropped,
\* refused, skipped or forgotten: run() drains what was accepted before Close
\* lets go of it, and the index is told of all that is read.
THEOREM PipelineNoSilentLoss == Spec => []NoSilentLoss
<1> DEFINE NInv == ReadBefore /\ OneInHand /\ \A d \in said : Somewhere(d)
<1>1. Init => NInv
  BY EmptySeq DEF Init, ReadBefore, OneInHand
<1>2. TypeOK /\ NInv /\ [Next]_vars => NInv'
  BY NextReadBefore, NextSomewhere, Zenon
<1>3. TypeOK /\ NInv => NoSilentLoss
  BY SomewhereIs
<1> HIDE DEF NInv
<1> QED BY <1>1, <1>2, <1>3, PipelineTypes, PTL DEF Spec

----------------------------------------------------------------------------
(* Gaps                                                                    *)

\* A page is in the answer with all its events.
LEMMA SortedHasAll ==
  ASSUME NEW P, IsFiniteSet(P), NEW q \in Sorted(P)
  PROVE  ToSet(q) = P
<1>1. Cardinality(P) \in Nat
  BY FS_CardinalityType
<1>2. q \in [1..Cardinality(P) -> P] /\ \A i, j \in 1..Cardinality(P) : i < j => q[i] # q[j]
  BY DEF Sorted
<1>3. \A i, j \in 1..Cardinality(P) : i # j => i < j \/ j < i
  BY <1>1
<1>4. q \in Injection(1..Cardinality(P), P)
  BY <1>2, <1>3 DEF Injection, IsInjective
<1>5. Cardinality(1..Cardinality(P)) = Cardinality(P)
  BY <1>1, FS_Interval
<1>6. q \in Surjection(1..Cardinality(P), P)
  BY <1>4, <1>5, FS_Injection
<1> QED BY <1>2, <1>6 DEF Surjection, ToSet

\* Whatever of a session comes before an event of a page is in it.
LEMMA PageHasEarlier ==
  ASSUME NEW S \in SUBSET Event, IsFiniteSet(S), NEW after \in Nat,
         NEW f \in Page(S, after), NEW e \in S, e.seq > after, e.seq < f.seq
  PROVE  e \in Page(S, after)
<1> DEFINE later == {g \in S : g.seq > after}
           Before(h) == {g \in later : g.seq < h.seq}
<1>1. f \in later /\ Cardinality(Before(f)) < Limit /\ e \in later
  BY DEF Page
<1>2. IsFiniteSet(Before(f))
  BY FS_Subset
<1>3. Before(e) \subseteq Before(f)
  BY <1>1 DEF Event
<1>4. /\ Cardinality(Before(e)) \in Nat /\ Cardinality(Before(f)) \in Nat
      /\ Cardinality(Before(e)) <= Cardinality(Before(f))
  BY <1>2, <1>3, FS_Subset, FS_CardinalityType
<1>5. Limit \in Nat
  BY PipelineAssumption
<1>6. Cardinality(Before(e)) < Limit
  BY <1>1, <1>4, <1>5
<1> QED BY <1>1, <1>6 DEF Page

\* What a step may not do to a client's answer.
Explained(e) ==
  /\ e.session = answer'.session
  /\ e.seq > answer'.after
  /\ \E f \in ToSet(answer'.events) : e.seq < f.seq
  => e \in ToSet(answer'.events) \cup lost \/ OnItsWay(e)

\* A query leaves out nothing that is indexed.
LEMMA QueryExplained ==
  ASSUME TypeOK, IndexRight, NoSilentLoss,
         NEW s \in Sessions, NEW o \in AnyOwner, NEW after \in 0..MaxLines, Query(s, o, after)
  PROVE  \A e \in said : Explained(e)
<1> TAKE e \in said
<1> SUFFICES ASSUME e.session = answer'.session, e.seq > answer'.after,
                    NEW f \in ToSet(answer'.events), e.seq < f.seq,
                    e \notin lost, ~OnItsWay(e)
             PROVE  e \in ToSet(answer'.events)
  BY DEF Explained
<1>1. answer' # NoAnswer
  BY DEF NoAnswer, ToSet
<1>2. PICK q \in Sorted(Page(index[s].events, after)) :
        answer' = [session |-> s, owner |-> o, after |-> after, events |-> q]
  <2>1. o # Anonymous /\ Readable(index[s], o)
    BY <1>1 DEF Query
  <2> QED BY <1>1, <2>1, Zenon DEF Query
<1> DEFINE S == index[s].events
<1>3. S \in SUBSET Event /\ IsFiniteSet(S) /\ after \in Nat
  BY DEF TypeOK, IndexRight, Entry
<1>4. e \in S
  <2>1. PICK t \in Sessions : e \in index[t].events
    BY DEF NoSilentLoss, EventsOf
  <2>2. e.session = t /\ e.session = s
    BY <1>2, <2>1 DEF IndexRight, Entry
  <2> QED BY <2>1, <2>2
<1> HIDE DEF S
<1>5. IsFiniteSet(Page(S, after))
  BY <1>3, FS_Subset DEF Page
<1>6. ToSet(q) = Page(S, after)
  BY <1>2, <1>5, SortedHasAll DEF S
<1>7. e \in Page(S, after)
  BY <1>2, <1>3, <1>4, <1>6, PageHasEarlier
<1> QED BY <1>2, <1>6, <1>7

\* A line that an answer leaves out before its last one was lost, or is on its
\* way still: Page answers with the earliest lines, all of them.
THEOREM PipelineGapsExplained == Spec => GapsExplained
<1>1. TypeOK /\ IndexRight /\ NoSilentLoss /\ [Next]_vars
      => [answer' # answer => \A e \in said : Explained(e)]_vars
  <2> SUFFICES ASSUME TypeOK, IndexRight, NoSilentLoss, Next, answer' # answer
               PROVE  \A e \in said : Explained(e)
    BY Zenon
  <2>1. ASSUME NEW s \in Sessions, NEW o \in AnyOwner, NEW after \in 0..MaxLines, Query(s, o, after)
        PROVE  \A e \in said : Explained(e)
    BY <2>1, QueryExplained
  <2>2. ASSUME NEW n \in Nodes, Resume(n)
        PROVE  \A e \in said : Explained(e)
    <3>1. answer' = NoAnswer
      BY <2>2 DEF Resume
    <3>2. ToSet(answer'.events) = {}
      BY <3>1 DEF NoAnswer, ToSet
    <3> QED BY <3>2 DEF Explained
  <2>3. \/ \E s \in Sessions, o \in AnyOwner, after \in 0..MaxLines : Query(s, o, after)
        \/ \E n \in Nodes : Resume(n)
    BY Zenon DEF Next, Drain, Start, Record, BeginPublish, EndPublish, Dequeue, Produce, WorkerEnds,
             BeginClose, EndClose, Deliver, Refuse, Ingest, SkipFetch, Restart, Tick
  <2> QED BY <2>1, <2>2, <2>3, Zenon
<1>2. IInv => TypeOK /\ IndexRight
  BY DEF IInv
<1>3. Spec => [][answer' # answer => \A e \in said : Explained(e)]_vars
  BY <1>1, <1>2, InitIInv, NextIInv, PipelineNoSilentLoss, PTL DEF Spec
<1> QED BY <1>3 DEF GapsExplained, Explained

=============================================================================
