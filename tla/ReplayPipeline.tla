--------------------------- MODULE ReplayPipeline ---------------------------
(***************************************************************************)
(* The side channel from a session's recorder to the replay index: Record, *)
(* the tap, sidechannel.Kafka with its drain goroutine and its Close, the  *)
(* client library's buffer and the broker, the consumer of cmd/replay, the *)
(* index it keeps, and the query a reconnect on another node makes.        *)
(*                                                                         *)
(* A line stands for who recorded it and its seq.  An owner is a user with *)
(* a provider: the index compares both and nothing tells them apart.  A    *)
(* partition holds the lines of one key.  The age of an indexed session    *)
(* counts clock ticks since its last event.                                *)
(***************************************************************************)
EXTENDS Naturals, Sequences, FiniteSets, SequencesExt, TLC

CONSTANTS
  Nodes,         \* proxy processes, each with a publisher
  Sessions,
  Owners,        \* authenticated users (with a provider)
  Anonymous,     \* the owner of sessions without an identity
  None,
  QueueCap,      \* kafkaBuffer
  BufferCap,     \* records the client library buffers
  MaxSessions,   \* Config.MaxSessions
  MaxPerSession, \* Config.MaxLinesPerSess
  TTL,           \* Config.SessionTTL
  Limit,         \* lines in an answer
  MaxLines,      \* bound: lines recorded in all
  MaxTicks,      \* bound: clock ticks
  MaxFaults      \* bound: redeliveries, skipped fetches and restarts

ASSUME PipelineAssumption ==
  /\ Anonymous \notin Owners
  /\ None \notin Nat
  /\ None \notin Owners \cup {Anonymous}
  /\ {QueueCap, BufferCap, MaxSessions, MaxPerSession, Limit} \subseteq Nat \ {0}
  /\ {TTL, MaxLines, MaxTicks, MaxFaults} \subseteq Nat

VARIABLES
  owner,     \* whose session an id is
  seq,       \* the recorder of a session on a node, if it runs there
  waiting,   \* lines a goroutine has recorded and is about to publish
  sending,   \* lines whose Publish holds the read lock
  queue,     \* Kafka.ch
  held,      \* the line run() has taken and not handed on, if any
  buffered,  \* records of the client that the broker has not acknowledged
  shut,      \* progress of Kafka.Close: open, draining, drained, closed
  broker,    \* the topic, by key
  pos,       \* records of each key the consumer has read
  committed, \* offsets the group has committed
  index,     \* Store.sessions
  said,      \* history: every line recorded
  lost,      \* history: lines dropped, refused, not flushed, skipped or forgotten
  answer,    \* the last answer that held lines, and its query
  ticks, faults

proxyVars == <<waiting, sending, queue, held, buffered, shut>>
topicVars == <<broker, pos, committed>>
boundVars == <<ticks, faults>>
vars == <<owner, seq, proxyVars, topicVars, index, said, lost, answer, boundVars>>

AnyOwner == Owners \cup {Anonymous}
Event == [session : Sessions, owner : AnyOwner, by : Nodes, seq : Nat]
Keys == Sessions \cup Owners

\* partitionKey: a user's lines, or an anonymous session's, stay in order.
Key(e) == IF e.owner = Anonymous THEN e.session ELSE e.owner

\* A session the index does not have.
Absent == [owner |-> None, age |-> 0, events |-> {}]

NoAnswer == [session |-> None, owner |-> Anonymous, after |-> 0, events |-> <<>>]

Init ==
  /\ owner = [s \in Sessions |-> None]
  /\ seq = [n \in Nodes |-> [s \in Sessions |-> None]]
  /\ waiting = [n \in Nodes |-> {}]
  /\ sending = [n \in Nodes |-> {}]
  /\ queue = [n \in Nodes |-> <<>>]
  /\ held = [n \in Nodes |-> {}]
  /\ buffered = [n \in Nodes |-> <<>>]
  /\ shut = [n \in Nodes |-> "open"]
  /\ broker = [k \in Keys |-> <<>>]
  /\ pos = [k \in Keys |-> 0]
  /\ committed = [k \in Keys |-> 0]
  /\ index = [s \in Sessions |-> Absent]
  /\ said = {}
  /\ lost = {}
  /\ answer = NoAnswer
  /\ ticks = 0
  /\ faults = 0

----------------------------------------------------------------------------
(* A session on a node                                                     *)

\* A fresh session, its id minted for its owner.
Start(n, s, o) ==
  /\ owner[s] = None
  /\ owner' = [owner EXCEPT ![s] = o]
  /\ seq' = [seq EXCEPT ![n][s] = 0]
  /\ UNCHANGED <<proxyVars, topicVars, index, said, lost, answer, boundVars>>

\* Where ResolveReplay lets the resumed session count on.
StartSeq(a) == Max({a.after} \cup {a.events[i].seq : i \in 1..Len(a.events)})

\* index_hit: the session goes on at node n.  The node it was on may not have
\* noticed that the client is gone, and records on.
Resume(n) ==
  LET s == answer.session IN
  /\ answer # NoAnswer
  /\ seq[n][s] = None
  /\ seq' = [seq EXCEPT ![n][s] = StartSeq(answer)]
  /\ answer' = NoAnswer
  /\ UNCHANGED <<owner, proxyVars, topicVars, index, said, lost, boundVars>>

\* Record up to its unlock; the listener is called after it, so the lines of
\* two goroutines may be published in either order.
Record(n, s) ==
  LET e == [session |-> s, owner |-> owner[s], by |-> n, seq |-> seq[n][s] + 1] IN
  /\ seq[n][s] # None
  /\ Cardinality(said) < MaxLines
  /\ seq' = [seq EXCEPT ![n][s] = e.seq]
  /\ waiting' = [waiting EXCEPT ![n] = @ \cup {e}]
  /\ said' = said \cup {e}
  /\ UNCHANGED <<owner, sending, queue, held, buffered, shut, topicVars, index, lost,
                 answer, boundVars>>

----------------------------------------------------------------------------
(* The publisher                                                           *)

\* Publish: the read lock, and closed.
BeginPublish(n, e) ==
  /\ e \in waiting[n]
  /\ waiting' = [waiting EXCEPT ![n] = @ \ {e}]
  /\ IF shut[n] = "open"
     THEN sending' = [sending EXCEPT ![n] = @ \cup {e}] /\ UNCHANGED lost
     ELSE lost' = lost \cup {e} /\ UNCHANGED sending
  /\ UNCHANGED <<owner, seq, queue, held, buffered, shut, topicVars, index, said,
                 answer, boundVars>>

\* Publish: the send, or the drop when the queue is full.
EndPublish(n, e) ==
  /\ e \in sending[n]
  /\ sending' = [sending EXCEPT ![n] = @ \ {e}]
  /\ IF Len(queue[n]) < QueueCap
     THEN queue' = [queue EXCEPT ![n] = Append(@, e)] /\ UNCHANGED lost
     ELSE lost' = lost \cup {e} /\ UNCHANGED queue
  /\ UNCHANGED <<owner, seq, waiting, held, buffered, shut, topicVars, index, said,
                 answer, boundVars>>

\* run: the next event.  One that cannot be marshalled is skipped.
Dequeue(n) ==
  /\ held[n] = {}
  /\ queue[n] # <<>>
  /\ queue' = [queue EXCEPT ![n] = Tail(@)]
  /\ \/ held' = [held EXCEPT ![n] = {Head(queue[n])}] /\ UNCHANGED lost
     \/ lost' = lost \cup {Head(queue[n])} /\ UNCHANGED held
  /\ UNCHANGED <<owner, seq, waiting, sending, buffered, shut, topicVars, index, said,
                 answer, boundVars>>

\* Produce waits while the client's buffer is full.
Produce(n) ==
  /\ Len(buffered[n]) < BufferCap
  /\ \E e \in held[n] : buffered' = [buffered EXCEPT ![n] = Append(@, e)]
  /\ held' = [held EXCEPT ![n] = {}]
  /\ UNCHANGED <<owner, seq, waiting, sending, queue, shut, topicVars, index, said, lost,
                 answer, boundVars>>

\* Mutant: run watches for the close and leaves what is queued.
WorkerQuits(n) ==
  /\ held[n] = {}
  /\ shut[n] = "draining"
  /\ shut' = [shut EXCEPT ![n] = "drained"]
  /\ queue' = [queue EXCEPT ![n] = <<>>]
  /\ UNCHANGED <<owner, seq, waiting, sending, held, buffered, topicVars, index, said, lost,
                 answer, boundVars>>

\* Mutant: run also waits for the goroutines that are about to publish.
WorkerAwaitsPublishers(n) ==
  /\ held[n] = {}
  /\ shut[n] = "draining"
  /\ queue[n] = <<>>
  /\ waiting[n] = {}
  /\ shut' = [shut EXCEPT ![n] = "drained"]
  /\ UNCHANGED <<owner, seq, waiting, sending, queue, held, buffered, topicVars, index, said,
                 lost, answer, boundVars>>

\* run: the channel is closed and drained; close(done).
WorkerEnds(n) ==
  /\ held[n] = {}
  /\ shut[n] = "draining"
  /\ queue[n] = <<>>
  /\ shut' = [shut EXCEPT ![n] = "drained"]
  /\ UNCHANGED <<owner, seq, waiting, sending, queue, held, buffered, topicVars, index, said,
                 lost, answer, boundVars>>

\* Close: the lock, closed and close(k.ch).  The lock waits for the senders.
BeginClose(n) ==
  /\ shut[n] = "open"
  /\ sending[n] = {}
  /\ shut' = [shut EXCEPT ![n] = "draining"]
  /\ UNCHANGED <<owner, seq, waiting, sending, queue, held, buffered, topicVars, index, said,
                 lost, answer, boundVars>>

\* Close: run is done; cl.Close fails the records that are still buffered.
EndClose(n) ==
  /\ shut[n] = "drained"
  /\ shut' = [shut EXCEPT ![n] = "closed"]
  /\ buffered' = [buffered EXCEPT ![n] = <<>>]
  /\ lost' = lost \cup ToSet(buffered[n])
  /\ UNCHANGED <<owner, seq, waiting, sending, queue, held, topicVars, index, said,
                 answer, boundVars>>

----------------------------------------------------------------------------
(* The broker                                                              *)

Fault == faults < MaxFaults /\ faults' = faults + 1

\* The first buffered record of its key.
FirstOfKey(n, i) ==
  \A j \in 1..(i - 1) : Key(buffered[n][j]) # Key(buffered[n][i])

\* The leader writes a record and acknowledges it, or its acknowledgement is
\* lost and the client, which is not idempotent, sends it again.
Deliver(n) ==
  \E i \in 1..Len(buffered[n]) :
    LET e == buffered[n][i] IN
    /\ FirstOfKey(n, i)
    /\ broker' = [broker EXCEPT ![Key(e)] = Append(@, e)]
    /\ \/ buffered' = [buffered EXCEPT ![n] = RemoveAt(@, i)] /\ UNCHANGED faults
       \/ Fault /\ UNCHANGED buffered
    /\ UNCHANGED <<owner, seq, waiting, sending, queue, held, shut, pos, committed, index,
                   said, lost, answer, ticks>>

\* The broker refuses a record: nobody looks at the result of Produce.
Refuse(n) ==
  \E i \in 1..Len(buffered[n]) :
    /\ FirstOfKey(n, i)
    /\ buffered' = [buffered EXCEPT ![n] = RemoveAt(@, i)]
    /\ lost' = lost \cup {buffered[n][i]}
    /\ UNCHANGED <<owner, seq, waiting, sending, queue, held, shut, topicVars, index, said,
                   answer, boundVars>>

----------------------------------------------------------------------------
(* The index                                                               *)

Expired(x) == x.age > TTL

\* evictExpired
Fresh(ix) == [s \in Sessions |-> IF Expired(ix[s]) THEN Absent ELSE ix[s]]

Kept(ix) == {s \in Sessions : ix[s] # Absent}

\* The events that stay of more than MaxPerSession: the newest.
Trim(events) ==
  {e \in events : Cardinality({f \in events : f.seq > e.seq}) < MaxPerSession}

\* An event for an indexed session: it renews it, and is kept unless one with
\* its seq is.
Add(x, e) ==
  [owner |-> e.owner, age |-> 0,
   events |-> IF \E f \in x.events : f.seq = e.seq THEN x.events ELSE Trim(x.events \cup {e})]

\* evictOldest: any of the least recent sessions, which the new one may be.
Oldest(ix) == {s \in Kept(ix) : \A t \in Kept(ix) : ix[t].age <= ix[s].age}

\* Store.Ingest: what an event makes of the index.
Take(e) ==
  LET fresh == Fresh(index)
      added == [fresh EXCEPT ![e.session] = Add(@, e)]
      full == e.session \notin Kept(fresh) /\ Cardinality(Kept(fresh)) >= MaxSessions IN
  \/ e.owner = Anonymous /\ UNCHANGED index
  \/ e.owner # Anonymous /\ ~full /\ index' = added
  \/ e.owner # Anonymous /\ full /\ \E v \in Oldest(added) : index' = [added EXCEPT ![v] = Absent]

EventsOf(ix) == UNION {ix[s].events : s \in Sessions}

\* The consumer reads a record and ingests it.
Ingest(k) ==
  /\ pos[k] < Len(broker[k])
  /\ pos' = [pos EXCEPT ![k] = @ + 1]
  /\ Take(broker[k][pos[k] + 1])
  /\ lost' = lost \cup ((EventsOf(index) \cup {broker[k][pos[k] + 1]}) \ EventsOf(index'))
  /\ UNCHANGED <<owner, seq, proxyVars, broker, committed, said, answer, boundVars>>

\* A fetch returns records of some partitions and an error of another: the
\* records are not looked at and not fetched again.
SkipFetch(k) ==
  /\ pos[k] < Len(broker[k])
  /\ Fault
  /\ pos' = [pos EXCEPT ![k] = @ + 1]
  /\ lost' = lost \cup {broker[k][pos[k] + 1]}
  /\ UNCHANGED <<owner, seq, proxyVars, broker, committed, index, said, answer, ticks>>

\* The replay service is started anew: its index is gone, and the group goes on
\* where it committed, which it does from time to time.
Restart ==
  /\ Fault
  /\ committed' \in [Keys -> 0..Max({pos[k] : k \in Keys})]
  /\ \A k \in Keys : committed'[k] \in committed[k]..pos[k]
  /\ pos' = committed'
  /\ index' = [s \in Sessions |-> Absent]
  /\ lost' = lost \cup EventsOf(index)
  /\ UNCHANGED <<owner, seq, proxyVars, broker, said, answer, ticks>>

\* Mutant: only the session id is looked up.
ReadableByAny(x, o) == ~Expired(x)

\* Who may read a session of the index.
Readable(x, o) == x.owner = o /\ ~Expired(x)

\* The sequences that hold exactly the given events in the order of their seqs.
Sorted(events) ==
  {q \in [1..Cardinality(events) -> events] :
     \A i, j \in 1..Cardinality(events) : i < j => q[i].seq <= q[j].seq /\ q[i] # q[j]}

\* Mutant: the newest lines come first.
PageNewest(events, after) ==
  LET later == {e \in events : e.seq > after} IN
  {e \in later : Cardinality({f \in later : f.seq > e.seq}) < Limit}

\* The first Limit events after a seq.
Page(events, after) ==
  LET later == {e \in events : e.seq > after} IN
  {e \in later : Cardinality({f \in later : f.seq < e.seq}) < Limit}

\* ReplayClient.Replay and Store.Query: a client asks with a seq it was sent.
Query(s, o, after) ==
  /\ after = 0 \/ \E e \in said : e.session = s /\ e.seq = after
  /\ \E events \in IF o # Anonymous /\ Readable(index[s], o)
                   THEN Sorted(Page(index[s].events, after)) ELSE {<<>>} :
       answer' = IF events = <<>> THEN NoAnswer
                 ELSE [session |-> s, owner |-> o, after |-> after, events |-> events]
  /\ UNCHANGED <<owner, seq, proxyVars, topicVars, index, said, lost, boundVars>>

\* Time passes.
Tick ==
  /\ ticks < MaxTicks
  /\ ticks' = ticks + 1
  /\ index' = [s \in Sessions |->
                 IF index[s] = Absent THEN Absent ELSE [index[s] EXCEPT !.age = @ + 1]]
  /\ UNCHANGED <<owner, seq, proxyVars, topicVars, said, lost, answer, faults>>

----------------------------------------------------------------------------
Drain(n) == Dequeue(n) \/ Produce(n) \/ WorkerEnds(n)

Next ==
  \/ \E n \in Nodes, s \in Sessions, o \in AnyOwner : Start(n, s, o)
  \/ \E n \in Nodes : Resume(n)
  \/ \E n \in Nodes, s \in Sessions : Record(n, s)
  \/ \E n \in Nodes, e \in said : BeginPublish(n, e) \/ EndPublish(n, e)
  \/ \E n \in Nodes : Drain(n) \/ BeginClose(n) \/ EndClose(n) \/ Deliver(n) \/ Refuse(n)
  \/ \E k \in Keys : Ingest(k) \/ SkipFetch(k)
  \/ Restart \/ Tick
  \/ \E s \in Sessions, o \in AnyOwner, after \in 0..MaxLines : Query(s, o, after)

Spec == Init /\ [][Next]_vars

\* Publishing goroutines and run() are not held up, Close goes on, and the
\* broker takes or refuses what is sent to it.
Fairness ==
  \A n \in Nodes :
    /\ WF_vars(\E e \in said : EndPublish(n, e))
    /\ WF_vars(Drain(n))
    /\ WF_vars(Deliver(n) \/ Refuse(n))
    /\ WF_vars(EndClose(n))

FairSpec == Spec /\ Fairness

\* Nodes, sessions and owners are interchangeable.
Interchangeable ==
  Permutations(Nodes) \cup Permutations(Sessions) \cup Permutations(Owners)

----------------------------------------------------------------------------
(* Properties                                                              *)

Indexed == [owner : Owners \cup {None}, age : Nat, events : SUBSET Event]

\* The types of the variables.
TypeOK ==
  /\ owner \in [Sessions -> AnyOwner \cup {None}]
  /\ seq \in [Nodes -> [Sessions -> Nat \cup {None}]]
  /\ waiting \in [Nodes -> SUBSET Event]
  /\ sending \in [Nodes -> SUBSET Event]
  /\ queue \in [Nodes -> Seq(Event)]
  /\ held \in [Nodes -> SUBSET Event]
  /\ buffered \in [Nodes -> Seq(Event)]
  /\ shut \in [Nodes -> {"open", "draining", "drained", "closed"}]
  /\ broker \in [Keys -> Seq(Event)]
  /\ pos \in [Keys -> Nat]
  /\ committed \in [Keys -> Nat]
  /\ index \in [Sessions -> Indexed]
  /\ said \subseteq Event
  /\ lost \subseteq Event
  /\ answer \in [session : Sessions \cup {None}, owner : AnyOwner, after : Nat, events : Seq(Event)]
  /\ {ticks, faults} \subseteq Nat

\* Kafka.Close: "no Publish is mid-send on k.ch when it is closed".
NoSendOnClosed == \A n \in Nodes : shut[n] # "open" => sending[n] = {}

\* Where a line can be between its recorder and the index.
OnItsWay(e) ==
  \/ \E n \in Nodes : \/ e \in waiting[n] \cup sending[n] \cup held[n]
                      \/ e \in ToSet(queue[n]) \cup ToSet(buffered[n])
  \/ \E k \in Keys : \E i \in (pos[k] + 1)..Len(broker[k]) : broker[k][i] = e

\* No line gets lost without a cause: it is on its way, indexed, or it was
\* dropped, refused, skipped, or forgotten by the index.
NoSilentLoss ==
  \A e \in said : OnItsWay(e) \/ e \in EventsOf(index) \cup lost

\* A client that resumes counts on from the last line it was given, so a line
\* left out before that is never replayed: there is a cause for each.
GapsExplained ==
  [][answer' # answer =>
       \A e \in said :
         /\ e.session = answer'.session
         /\ e.seq > answer'.after
         /\ \E f \in ToSet(answer'.events) : e.seq < f.seq
         => e \in ToSet(answer'.events) \cup lost \/ OnItsWay(e)]_vars

Log == INSTANCE TranscriptLog WITH NoOwner <- Anonymous

\* The pipeline implements TranscriptLog: every answer holds lines that were
\* recorded under the id, the asker's own, later than what it has, in order.
ReplaysTranscript == Log!Spec

\* A publisher that is being closed is closed in the end, if the broker takes
\* or refuses what the client sends.
CloseReturns == \A n \in Nodes : shut[n] = "draining" ~> shut[n] = "closed"
=============================================================================
