----------------------------- MODULE SessionHub -----------------------------
(***************************************************************************)
(* Offers, the session hub and reconnects: offer.ServeOffer from the       *)
(* replay headers on, offer.ResolveReplay, rtc.Hub with its archive store, *)
(* rtc.sessionScope, the transcript recorder of each session, and the      *)
(* shutdown of the process (cmd/proxy).                                    *)
(*                                                                         *)
(* Offers are numbered in the order they arrive.  An offer, the session it *)
(* starts and the fresh session id minted for it share that number; a      *)
(* session that resumes another one takes over its id.  Whatever happens   *)
(* under one lock is one step: the hub's mutex, the archive's and the      *)
(* recorder's are three locks, so a reconnect reads the three at different *)
(* times.                                                                  *)
(***************************************************************************)
EXTENDS Naturals, Sequences, FiniteSets, SequencesExt

CONSTANTS
  MaxOffers,     \* bound: offers served
  MaxFresh,      \* bound: offers without a session to resume
  Users,         \* resolved identities
  Anonymous,     \* the identity of callers without one
  Providers,
  None,
  HistLimit,     \* lines a recorder retains
  MaxLines,      \* bound: lines recorded in all
  Signalled,     \* bound: the process may be told to stop
  IndexEnabled,  \* a replay index is configured (-replay-url)
  GivesUp,       \* srv.Shutdown may time out with handlers in flight
  Stuck          \* sessions whose model may never come to rest, see Hangs

ASSUME HubAssumption ==
  /\ MaxOffers \in Nat
  /\ MaxFresh \in Nat
  /\ HistLimit \in Nat \ {0}
  /\ MaxLines \in Nat
  /\ Signalled \in BOOLEAN
  /\ IndexEnabled \in BOOLEAN
  /\ GivesUp \in BOOLEAN
  /\ Stuck \in SUBSET Nat

Offers == 1..MaxOffers

VARIABLES
  pc,        \* where ServeOffer is
  req,       \* the offer: user, provider, session id to resume, last seq seen
  sid,       \* the session id chosen for it
  active,    \* the live session Resume found, and whether it had a cleanup
  full,      \* history it resumes with
  start,     \* seq it resumes at
  status,    \* X-Replay-Status: miss (and disabled, error), memory_hit, index_hit
  hist, seq, \* the recorder of the session
  closing,   \* progress of sessionScope.Close
  snap,      \* what Hub.remove read of the recorder
  wired,     \* sess.cleanup is assigned
  running,   \* the session's goroutines run
  conns,     \* Hub.conns
  archives,  \* sessionArchiveStore.archives
  shut,      \* progress of gracefulShutdown
  targets,   \* the sessions CloseAll found
  process,   \* up, exited or crashed
  log,       \* history: every line recorded under an id, in order
  contested, \* history: ids resumed by two offers at once
  tainted,   \* history: ids some resume or archive missed lines of
  lapsed     \* history: ids whose archive expired

offerVars == <<req, sid, active, full, start, status>>
recorderVars == <<hist, seq>>
sessionVars == <<recorderVars, closing, snap, wired, running>>
hubVars == <<conns, archives>>
shutVars == <<shut, targets, process>>
historyVars == <<log, contested, tainted, lapsed>>
vars == <<pc, offerVars, sessionVars, hubVars, shutVars, historyVars>>

Line == [seq : Nat, by : Offers]
NoSession == [session |-> None, cleanup |-> FALSE]
NoSnap == [hist |-> <<>>, maxSeq |-> 0]
NoRequest == [user |-> Anonymous, provider |-> None, target |-> None, last |-> 0]
Archive == [provider : Providers, user : Users, hist : Seq(Line), maxSeq : Nat]
Request == [user : Users, provider : Providers, target : Offers \cup {None}, last : Nat]

\* A registry entry and an archive are told from an empty place.
ASSUME NoneAssumption == None \notin Offers /\ None \notin Archive

Init ==
  /\ pc = [o \in Offers |-> "idle"]
  /\ req = [o \in Offers |-> NoRequest]
  /\ sid = [o \in Offers |-> o]
  /\ active = [o \in Offers |-> NoSession]
  /\ full = [o \in Offers |-> <<>>]
  /\ start = [o \in Offers |-> 0]
  /\ status = [o \in Offers |-> "miss"]
  /\ hist = [o \in Offers |-> <<>>]
  /\ seq = [o \in Offers |-> 0]
  /\ closing = [o \in Offers |-> "no"]
  /\ snap = [o \in Offers |-> NoSnap]
  /\ wired = [o \in Offers |-> FALSE]
  /\ running = [o \in Offers |-> FALSE]
  /\ conns = [s \in Offers |-> None]
  /\ archives = [s \in Offers |-> None]
  /\ shut = "no"
  /\ targets = {}
  /\ process = "up"
  /\ log = [s \in Offers |-> <<>>]
  /\ contested = {}
  /\ tainted = {}
  /\ lapsed = {}

Step(o, from, to) ==
  /\ pc[o] = from
  /\ pc' = [pc EXCEPT ![o] = to]

----------------------------------------------------------------------------
(* ServeOffer and ResolveReplay                                            *)

Finished == {"idle", "refused", "failed", "answered"}

\* The ids clients were given.
KnownIds == {sid[o] : o \in {p \in Offers : pc[p] = "answered"}}

\* An offer arrives.  A client reconnects with an id it was given and the
\* highest seq it received; anonymous callers are never resumed.
Arrive(o) ==
  /\ shut = "no"
  /\ \A p \in 1..(o - 1) : pc[p] # "idle"
  /\ \E u \in Users, p \in Providers,
        t \in KnownIds \cup (IF o <= MaxFresh THEN {None} ELSE {}) :
       \E n \in IF t = None THEN {0} ELSE 0..Len(log[t]) :
         /\ req' = [req EXCEPT ![o] = [user |-> u, provider |-> p, target |-> t, last |-> n]]
         /\ Step(o, "idle", IF t = None \/ u = Anonymous THEN "dial" ELSE "state")
  /\ UNCHANGED <<sid, active, full, start, status, sessionVars, hubVars, shutVars, historyVars>>

\* ResolveReplay after SessionState said: this id is known, to this provider,
\* up to maxSeq.
Checked(o, provider, maxSeq) ==
  Step(o, pc[o], CASE req[o].last > maxSeq -> "refused"
                   [] req[o].last <= maxSeq /\ provider # req[o].provider -> "dial"
                   [] OTHER -> "resume")

\* SessionState: the hub's map.
StateInConns(o) ==
  LET c == conns[req[o].target] IN
  /\ pc[o] = "state"
  /\ CASE c = None -> Step(o, "state", "state_archive")
       [] c # None /\ req[c].user # req[o].user -> Step(o, "state", "resume")
       [] OTHER -> Checked(o, req[c].provider, seq[c])
  /\ UNCHANGED <<offerVars, sessionVars, hubVars, shutVars, historyVars>>

\* SessionState: the archive.
StateInArchive(o) ==
  LET a == archives[req[o].target] IN
  /\ pc[o] = "state_archive"
  /\ IF a = None THEN Step(o, "state_archive", "resume")
     ELSE IF a.user # req[o].user THEN Step(o, "state_archive", "resume")
     ELSE Checked(o, a.provider, a.maxSeq)
  /\ UNCHANGED <<offerVars, sessionVars, hubVars, shutVars, historyVars>>

\* Resume: the hub's map.  The session found and its cleanup are remembered.
ResumeFind(o) ==
  LET c == conns[req[o].target] IN
  /\ pc[o] = "resume"
  /\ IF c = None THEN Step(o, "resume", "archive") /\ UNCHANGED active
     ELSE IF req[c].user = req[o].user /\ req[c].provider = req[o].provider
     THEN /\ Step(o, "resume", "history")
          /\ active' = [active EXCEPT ![o] = [session |-> c, cleanup |-> wired[c]]]
     ELSE Step(o, "resume", "index") /\ UNCHANGED active
  /\ UNCHANGED <<req, sid, full, start, status, sessionVars, hubVars, shutVars, historyVars>>

\* Resume: active.rec.FullHistory()
ReadHistory(o) ==
  /\ Step(o, "history", "seq")
  /\ full' = [full EXCEPT ![o] = hist[active[o].session]]
  /\ UNCHANGED <<req, sid, active, start, status, sessionVars, hubVars, shutVars, historyVars>>

\* Resume: active.rec.MaxSeq()
ReadSeq(o) ==
  /\ Step(o, "seq", IF active[o].cleanup THEN "takeover" ELSE "owned")
  /\ start' = [start EXCEPT ![o] = seq[active[o].session]]
  /\ UNCHANGED <<req, sid, active, full, status, sessionVars, hubVars, shutVars, historyVars>>

\* sess.cleanup(): the first caller of Close runs it, the others wait for it.
\* Close begins with cancel, model.Close and pc.Close.
Cleanup(s) == closing' = [closing EXCEPT ![s] = IF @ = "no" THEN "hist" ELSE @]

\* Resume: takeover()
TakeOver(o) ==
  /\ Step(o, "takeover", "owned")
  /\ Cleanup(active[o].session)
  /\ UNCHANGED <<offerVars, recorderVars, snap, wired, running, hubVars, shutVars, historyVars>>

\* Who else resumes id s: sessions of that id that are not closed, offers about
\* to start one, and offers that have found a live session to take over.  The
\* session o took over does not count.
Rivals(o, s) ==
  {p \in Offers \ {o} :
     \/ /\ sid[p] = s
        /\ pc[p] \notin {"idle", "refused", "failed"}
        /\ closing[p] # "closed"
        /\ active[o] # [session |-> p, cleanup |-> TRUE]
     \/ /\ req[p].target = s
        /\ pc[p] \in {"history", "seq", "takeover", "owned"}}

\* The outcome of ResolveReplay: resume id s.
Resumes(o, s, how) ==
  /\ sid' = [sid EXCEPT ![o] = s]
  /\ status' = [status EXCEPT ![o] = how]
  /\ contested' = IF Rivals(o, s) = {} THEN contested ELSE contested \cup {s}
  /\ tainted' = IF how = "index_hit" /\ full'[o] # log[s] THEN tainted \cup {s} ELSE tainted
  /\ UNCHANGED <<log, lapsed>>

\* Mutant: takeover is not waited for.
MemoryHitAtOnce(o) ==
  /\ Step(o, "owned", "dial")
  /\ Resumes(o, req[o].target, "memory_hit")
  /\ UNCHANGED <<req, active, full, start, sessionVars, hubVars, shutVars>>

\* memory_hit on a live session, once the Close that takeover ran or waits for
\* is over.
MemoryHit(o) ==
  /\ Step(o, "owned", "dial")
  /\ active[o].cleanup => closing[active[o].session] = "closed"
  /\ Resumes(o, req[o].target, "memory_hit")
  /\ UNCHANGED <<req, active, full, start, sessionVars, hubVars, shutVars>>

\* Mutant: the archive is not asked who owns it.
AnyArchive(o, a) == a # None

\* archives.resume: who may resume from an archive.
ArchiveMatches(o, a) ==
  /\ a # None
  /\ a.user = req[o].user
  /\ a.provider = req[o].provider

\* Mutant: a resume uses the archive up.
ResumeArchiveOnce(o) ==
  LET t == req[o].target
      a == archives[t] IN
  /\ pc[o] = "archive"
  /\ IF ArchiveMatches(o, a)
     THEN /\ Step(o, "archive", "dial")
          /\ full' = [full EXCEPT ![o] = a.hist]
          /\ start' = [start EXCEPT ![o] = a.maxSeq]
          /\ archives' = [archives EXCEPT ![t] = None]
          /\ Resumes(o, t, "memory_hit")
     ELSE /\ Step(o, "archive", "index")
          /\ UNCHANGED <<full, start, sid, status, archives, historyVars>>
  /\ UNCHANGED <<req, active, sessionVars, conns, shutVars>>

\* memory_hit on an archive, or no hit in memory.
ResumeArchive(o) ==
  LET t == req[o].target
      a == archives[t] IN
  /\ pc[o] = "archive"
  /\ IF ArchiveMatches(o, a)
     THEN /\ Step(o, "archive", "dial")
          /\ full' = [full EXCEPT ![o] = a.hist]
          /\ start' = [start EXCEPT ![o] = a.maxSeq]
          /\ Resumes(o, t, "memory_hit")
     ELSE /\ Step(o, "archive", "index")
          /\ UNCHANGED <<full, start, sid, status, historyVars>>
  /\ UNCHANGED <<req, active, sessionVars, hubVars, shutVars>>

\* The sequences that hold exactly the given lines in the order of their seqs.
Sorted(lines) ==
  {q \in [1..Cardinality(lines) -> lines] :
     \A i, j \in 1..Cardinality(lines) : i < j => q[i].seq < q[j].seq}

\* index_hit.  The index (another process, fed by a lossy side channel, bounded
\* and queried with a limit) answers with some of the owner's lines after the
\* last one seen, one for each seq, in order.
IndexHit(o) ==
  LET t == req[o].target
      found == {l \in Range(log[t]) : /\ req[l.by].user = req[o].user
                                      /\ req[l.by].provider = req[o].provider
                                      /\ l.seq > req[o].last} IN
  /\ IndexEnabled
  /\ Step(o, "index", "dial")
  /\ \E kept \in (SUBSET found) \ {{}} : \E lines \in Sorted(kept) :
       /\ full' = [full EXCEPT ![o] = lines]
       /\ start' = [start EXCEPT ![o] = Last(lines).seq]
       /\ Resumes(o, t, "index_hit")
  /\ UNCHANGED <<req, active, sessionVars, hubVars, shutVars>>

\* miss, disabled, index_timeout and index_error: a fresh session.
IndexMiss(o) ==
  /\ Step(o, "index", "dial")
  /\ UNCHANGED <<offerVars, sessionVars, hubVars, shutVars, historyVars>>

\* Models.New fails (502).
DialFails(o) ==
  /\ Step(o, "dial", "failed")
  /\ UNCHANGED <<offerVars, sessionVars, hubVars, shutVars, historyVars>>

\* Mutant: the recorder of a resumed session starts counting again.
FreshSeq(o) == 0

\* Mutant: off by one.
SeqBefore(o) == start[o] - 1

\* NewRecorder(info.StartSeq, info.InitialHistory, ...)
FirstSeq(o) == start[o]

\* Models.New succeeds; Serve builds the session, starts its goroutines,
\* negotiates, and commits: hub.add registers it ...
Serve(o) ==
  /\ Step(o, "dial", "added")
  /\ hist' = [hist EXCEPT ![o] = full[o]]
  /\ seq' = [seq EXCEPT ![o] = FirstSeq(o)]
  /\ running' = [running EXCEPT ![o] = TRUE]
  /\ conns' = [conns EXCEPT ![sid[o]] = o]
  /\ UNCHANGED <<offerVars, closing, snap, wired, archives, shutVars, historyVars>>

\* SetRemoteDescription, CreateAnswer or SetLocalDescription fails:
\* abortIfUncommitted closes what was built (500).
Abort(o) ==
  /\ Step(o, "dial", "failed")
  /\ running' = [running EXCEPT ![o] = TRUE]
  /\ closing' = [closing EXCEPT ![o] = "closed"]
  /\ UNCHANGED <<offerVars, recorderVars, snap, wired, hubVars, shutVars, historyVars>>

\* The peer connection reports that it was closed.  An aborted session has no
\* cleanup yet and the state handler calls a nil function.
AbortReported(o) ==
  /\ pc[o] = "failed"
  /\ closing[o] = "closed"
  /\ ~wired[o]
  /\ process' = "crashed"
  /\ UNCHANGED <<pc, offerVars, sessionVars, hubVars, shut, targets, historyVars>>

\* ... then sess.cleanup = s.Close, and the answer (200).
Wire(o) ==
  /\ Step(o, "added", "answered")
  /\ wired' = [wired EXCEPT ![o] = TRUE]
  /\ UNCHANGED <<offerVars, recorderVars, closing, snap, running, hubVars, shutVars, historyVars>>

----------------------------------------------------------------------------
(* The session                                                             *)

\* The lines a recorder retains.
Newest(h) == IF Len(h) <= HistLimit THEN h ELSE SubSeq(h, Len(h) - HistLimit + 1, Len(h))

\* Someone has read the recorder, to hand the session over or to archive it.
HandedOver(o) ==
  \/ closing[o] \in {"seq", "delete", "put", "closed"}
  \/ \E p \in Offers : active[p].session = o /\ pc[p] # "history"

\* Record: a transcript or a typed line.  No media or data flows before the
\* client has the answer.  The forwarder may outlive Close a little; a typed line
\* is recorded by the data channel's callback, which is not in the wait group
\* and which neither Close nor CloseAll waits for.
Record(o) ==
  LET line == [seq |-> seq[o] + 1, by |-> o] IN
  /\ pc[o] = "answered"
  /\ SumFunction([s \in Offers |-> Len(log[s])]) < MaxLines
  /\ seq' = [seq EXCEPT ![o] = @ + 1]
  /\ hist' = [hist EXCEPT ![o] = Newest(Append(@, line))]
  /\ log' = [log EXCEPT ![sid[o]] = Append(@, line)]
  /\ tainted' = IF HandedOver(o) THEN tainted \cup {sid[o]} ELSE tainted
  /\ UNCHANGED <<pc, offerVars, closing, snap, wired, running, hubVars, shutVars,
                 contested, lapsed>>

\* The connection failed, closed or was lost: the state handler cleans up.
Disconnect(o) ==
  /\ pc[o] = "answered"
  /\ closing[o] = "no"
  /\ Cleanup(o)
  /\ UNCHANGED <<pc, offerVars, recorderVars, snap, wired, running, hubVars, shutVars,
                 historyVars>>

\* Mutant: an aborted session leaves its goroutines behind.
CommittedExit(o) ==
  /\ shut # "no"
  /\ running[o]
  /\ closing[o] # "no"
  /\ wired[o]
  /\ running' = [running EXCEPT ![o] = FALSE]
  /\ UNCHANGED <<pc, offerVars, recorderVars, closing, snap, wired, hubVars, shutVars,
                 historyVars>>

\* The goroutines of the wait group see the closed model and connection; the one
\* that reads RTCP does not end before.  Only the shutdown waits for them.
GoroutinesExit(o) ==
  /\ shut # "no"
  /\ running[o]
  /\ closing[o] # "no"
  /\ running' = [running EXCEPT ![o] = FALSE]
  /\ UNCHANGED <<pc, offerVars, recorderVars, closing, snap, wired, hubVars, shutVars,
                 historyVars>>

Closes(o, from, to) ==
  /\ closing[o] = from
  /\ closing' = [closing EXCEPT ![o] = to]
  /\ UNCHANGED <<pc, offerVars, recorderVars, wired, running, shutVars>>

\* model.Close has returned, and pc.Close; remove: s.rec.FullHistory()
SnapshotHistory(o) ==
  /\ Closes(o, "hist", "seq")
  /\ snap' = [snap EXCEPT ![o].hist = hist[o]]
  /\ UNCHANGED <<hubVars, historyVars>>

\* remove: s.rec.MaxSeq()
SnapshotSeq(o) ==
  /\ Closes(o, "seq", "delete")
  /\ snap' = [snap EXCEPT ![o].maxSeq = seq[o]]
  /\ UNCHANGED <<hubVars, historyVars>>

\* remove: delete(h.conns, s.id), whoever is registered under the id.
Delete(o) ==
  /\ Closes(o, "delete", "put")
  /\ conns' = [conns EXCEPT ![sid[o]] = None]
  /\ UNCHANGED <<snap, archives, historyVars>>

\* Mutant: a resumed session is not archived again.
PutOnce(o) ==
  /\ Closes(o, "put", "closed")
  /\ archives' = IF snap[o].hist = <<>> \/ archives[sid[o]] # None THEN archives
                 ELSE [archives EXCEPT ![sid[o]] =
                         [provider |-> req[o].provider, user |-> req[o].user,
                          hist |-> snap[o].hist, maxSeq |-> snap[o].maxSeq]]
  /\ UNCHANGED <<snap, conns, historyVars>>

\* remove: archives.put, unless nothing was said.
Put(o) ==
  /\ Closes(o, "put", "closed")
  /\ IF snap[o].hist = <<>> THEN UNCHANGED <<archives, lapsed>>
     ELSE /\ archives' = [archives EXCEPT ![sid[o]] =
                [provider |-> req[o].provider, user |-> req[o].user,
                 hist |-> snap[o].hist, maxSeq |-> snap[o].maxSeq]]
          /\ lapsed' = lapsed \ {sid[o]}
  /\ UNCHANGED <<snap, conns, log, contested, tainted>>

\* archiveTTL passes: the archive is pruned by the next put, and until then
\* resume and state treat it as missing.
Expire(s) ==
  /\ archives[s] # None
  /\ archives' = [archives EXCEPT ![s] = None]
  /\ lapsed' = lapsed \cup {s}
  /\ UNCHANGED <<pc, offerVars, sessionVars, conns, shutVars, log, contested, tainted>>

----------------------------------------------------------------------------
(* gracefulShutdown and the end of the process                             *)

\* SIGTERM: srv.Shutdown stops the listener.
Signal ==
  /\ Signalled
  /\ shut = "no"
  /\ shut' = "draining"
  /\ UNCHANGED <<pc, offerVars, sessionVars, hubVars, targets, process, historyVars>>

\* Mutant: CloseAll does not wait for the handlers in flight.
DrainedAtOnce ==
  /\ shut = "draining"
  /\ shut' = "closing"
  /\ targets' = {conns[s] : s \in Offers} \ {None}
  /\ UNCHANGED <<pc, offerVars, sessionVars, hubVars, process, historyVars>>

\* srv.Shutdown returns, when no handler is in flight or after its five
\* seconds; CloseAll takes its snapshot of the registry.
Drained ==
  /\ shut = "draining"
  /\ GivesUp \/ \A o \in Offers : pc[o] \in Finished
  /\ shut' = "closing"
  /\ targets' = {conns[s] : s \in Offers} \ {None}
  /\ UNCHANGED <<pc, offerVars, sessionVars, hubVars, process, historyVars>>

\* CloseAll: the cleanup of the sessions, one after the other.  A session that
\* is registered and not yet wired has no cleanup to call.
CloseNext(o) ==
  /\ shut = "closing"
  /\ o \in targets
  /\ closing[o] = "no"
  /\ \A t \in targets : closing[t] \in {"no", "closed"}
  /\ IF wired[o] THEN Cleanup(o) /\ UNCHANGED process
     ELSE process' = "crashed" /\ UNCHANGED closing
  /\ UNCHANGED <<pc, offerVars, recorderVars, snap, wired, running, hubVars, shut, targets,
                 historyVars>>

\* CloseAll: h.wg.Wait() returns; then the publisher is closed.  A callback of a
\* data channel may still record.
WaitDone ==
  /\ shut = "closing"
  /\ \A t \in targets : closing[t] = "closed"
  /\ \A o \in Offers : ~running[o]
  /\ shut' = "done"
  /\ UNCHANGED <<pc, offerVars, sessionVars, hubVars, targets, process, historyVars>>

\* runProxy: ListenAndServe returns as soon as srv.Shutdown is called, main
\* returns after it, and the process ends wherever its goroutines are.
MainReturns ==
  /\ shut # "no"
  /\ process' = "exited"
  /\ UNCHANGED <<pc, offerVars, sessionVars, hubVars, shut, targets, historyVars>>

----------------------------------------------------------------------------
Resolve(o) ==
  \/ StateInConns(o) \/ StateInArchive(o)
  \/ ResumeFind(o) \/ ReadHistory(o) \/ ReadSeq(o)
  \/ TakeOver(o) \/ MemoryHit(o)
  \/ ResumeArchive(o) \/ IndexHit(o) \/ IndexMiss(o)

Start(o) == DialFails(o) \/ Serve(o) \/ Abort(o) \/ Wire(o)

Teardown(o) ==
  \/ SnapshotHistory(o) \/ SnapshotSeq(o) \/ Delete(o) \/ Put(o)

CloseAll == Drained \/ WaitDone \/ \E o \in Offers : CloseNext(o)

Next ==
  /\ process = "up"
  /\ \/ \E o \in Offers :
          \/ Arrive(o) \/ Resolve(o) \/ Start(o) \/ AbortReported(o)
          \/ Record(o) \/ Disconnect(o) \/ Teardown(o) \/ GoroutinesExit(o)
          \/ Expire(o)
     \/ Signal \/ CloseAll \/ MainReturns

Spec == Init /\ [][Next]_vars

\* Handlers and goroutines that can take a step take one.  Clients need not
\* come, speak or leave, and no signal need arrive.  Nor need the model of a
\* stuck session come to rest: its Close may wait for good (Cascade's
\* WaitsForItself), or the monitor may spin (MediaSession's Spinning).
Fairness ==
  /\ \A o \in Offers : /\ WF_vars(process = "up" /\ Resolve(o))
                       /\ WF_vars(process = "up" /\ Start(o))
                       /\ WF_vars(process = "up" /\ (SnapshotSeq(o) \/ Delete(o) \/ Put(o)))
  /\ \A o \in Offers \ Stuck : /\ WF_vars(process = "up" /\ SnapshotHistory(o))
                               /\ WF_vars(process = "up" /\ GoroutinesExit(o))
  /\ WF_vars(process = "up" /\ CloseAll)

FairSpec == Spec /\ Fairness

----------------------------------------------------------------------------
(* Properties                                                              *)

\* The types of the variables.
TypeOK ==
  /\ pc \in [Offers -> Finished \cup
       {"state", "state_archive", "resume", "history", "seq", "takeover",
        "owned", "archive", "index", "dial", "added"}]
  /\ req \in [Offers -> Request \cup {NoRequest}]
  /\ {full, hist, log} \subseteq [Offers -> Seq(Line)]
  /\ snap \in [Offers -> [hist : Seq(Line), maxSeq : Nat]]
  /\ archives \in [Offers -> Archive \cup {None}]
  /\ sid \in [Offers -> Offers]
  /\ active \in [Offers -> [session : Offers \cup {None}, cleanup : BOOLEAN]]
  /\ start \in [Offers -> Nat]
  /\ status \in [Offers -> {"miss", "memory_hit", "index_hit"}]
  /\ seq \in [Offers -> Nat]
  /\ closing \in [Offers -> {"no", "hist", "seq", "delete", "put", "closed"}]
  /\ wired \in [Offers -> BOOLEAN]
  /\ running \in [Offers -> BOOLEAN]
  /\ conns \in [Offers -> Offers \cup {None}]
  /\ shut \in {"no", "draining", "closing", "done"}
  /\ targets \in SUBSET Offers
  /\ process \in {"up", "exited", "crashed"}
  /\ contested \in SUBSET Offers
  /\ tainted \in SUBSET Offers
  /\ lapsed \in SUBSET Offers

\* A session that was answered and is not being removed is the one registered
\* under its id, so that CloseAll and the next reconnect find it, unless two
\* offers resumed the id at once (Hub.add and Hub.remove go by id only).
RegisteredUnlessContested ==
  \A o \in Offers :
    /\ pc[o] = "answered"
    /\ closing[o] \in {"no", "hist", "seq", "delete"}
    /\ sid[o] \notin contested
    => conns[sid[o]] = o

\* Across all sessions that ever had the id, no seq is given out twice and none
\* is skipped, as long as the id was not contested and no line came after its
\* recorder was read for a hand-over.  OneConversation implies it.
SeqsOnce ==
  \A s \in Offers \ (contested \cup tainted) :
    \A k \in 1..Len(log[s]) : log[s][k].seq = k

\* A session resumed from memory starts with all the lines a recorder retains
\* and at the right seq, whichever session or archive it was resumed from,
\* under the same two conditions.
HandoverComplete ==
  \A o \in Offers :
    /\ pc[o] \in {"dial", "added"}
    /\ status[o] = "memory_hit"
    /\ sid[o] \notin contested \cup tainted
    => Newest(full[o]) = Newest(log[sid[o]]) /\ start[o] = Len(log[sid[o]])

\* Nobody resumes with lines of another user, of another provider, or of an
\* anonymous caller, whatever happens to the id between the checks.
HistoryOwned ==
  \A o \in Offers : \A k \in 1..Len(full[o]) :
    LET owner == req[full[o][k].by] IN
    /\ owner.user = req[o].user
    /\ owner.provider = req[o].provider
    /\ owner.user # Anonymous

\* What was said under an id can be found under it until its archive expires,
\* at every moment but the one between delete and put: no failed dial, aborted
\* session or second reconnect loses it, under the same two conditions.
FoundUntilExpiry ==
  \A s \in Offers \ (contested \cup tainted) :
    \/ log[s] = <<>>
    \/ conns[s] # None
    \/ archives[s] # None
    \/ s \in lapsed
    \/ \E o \in Offers : sid[o] = s /\ closing[o] = "put"

\* CloseAll misses nobody: from its snapshot of the registry on, a session that
\* was answered and that nobody closes is one it has found, also if its handler
\* was in flight when the signal came or it took over another one, and no handler
\* starts one any more, unless srv.Shutdown gave up or the id was contested.
CloseAllFindsAll ==
  shut \in {"closing", "done"} /\ ~GivesUp =>
    \A o \in Offers :
      /\ pc[o] \in Finished
      /\ pc[o] = "answered" /\ closing[o] = "no" /\ sid[o] \notin contested => o \in targets

\* An offer has its id from the moment it is about to start a session until the
\* session is closed.
Live(o) == pc[o] \in {"dial", "added", "answered"} /\ closing[o] # "closed"

\* An id with its resumes in order, and of which no line was missed.
Clean(s) == s \notin contested /\ s \notin tainted

Holder(s) ==
  LET live == {o \in Offers : sid[o] = s /\ Live(o)} IN
  IF Clean(s) /\ live # {} THEN CHOOSE o \in live : TRUE ELSE None

\* What the session keeps: its recorder, or the history it is to start with.
Kept(s) ==
  LET o == Holder(s) IN
  IF o = None THEN <<>> ELSE Newest(IF pc[o] = "dial" THEN full[o] ELSE hist[o])

Said(s) == IF Clean(s) THEN log[s] ELSE <<>>

Conv == INSTANCE Conversation WITH
  Ids <- Offers, Sessions <- Offers, Nobody <- None,
  lost <- contested \cup tainted,
  holder <- [s \in Offers |-> Holder(s)],
  kept <- [s \in Offers |-> Kept(s)],
  said <- [s \in Offers |-> Said(s)]

\* Through take-overs, tear-downs, archives and the index, an id is one
\* conversation as its client counts on it: one session after the other, each
\* with all that was said before it, and no seq twice or left out.
OneConversation == Conv!Spec

\* The model of a session may never come to rest, and has not: Close waits for
\* it, or a goroutine of the wait group goes on after Close.
Hangs(o) == o \in Stuck /\ (running[o] \/ closing[o] = "hist")

\* CloseAll comes to an end, unless the process ends first, a contested id left
\* a live session that CloseAll cannot see, or a session hangs for good.  The
\* others do not keep it, whatever state they are in.
CloseAllEnds ==
  shut = "closing" ~> \/ shut = "done" \/ process # "up" \/ contested # {}
                      \/ [](\E o \in Offers : Hangs(o))
=============================================================================
