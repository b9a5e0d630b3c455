--------------------------- MODULE SessionHubProofs ---------------------------
(***************************************************************************)
(* Proofs about SessionHub, for any number of offers, users and providers, *)
(* any history limit and however reconnects, tear-downs, expiries and the  *)
(* shutdown interleave: its types, who owns the lines an offer resumes     *)
(* with, how the sessions of an id follow one another, and what runs when  *)
(* CloseAll is over.                                                       *)
(*                                                                         *)
(* HistoryOwned speaks of the history an offer resumes with only.  Lines   *)
(* come to it from a live recorder, an archive or the index, and to an     *)
(* archive from what a tear-down read of a recorder: the invariant follows *)
(* them through all of these, and says of an offer that is between two     *)
(* look-ups that what it has found is its own user's.                      *)
(*                                                                         *)
(* The sessions of an id follow one another because at most one of them    *)
(* holds it at a time: one that is about to start, or is started and not   *)
(* closed.  An offer that has found a live session holds that one's place. *)
(* Then whatever the next session may start from, at each moment, has all  *)
(* that was said: the recorder until it is closed, what was read of it,    *)
(* and the archive when no session of the id is left.  That is what it     *)
(* takes to show that the hub implements Conversation.                     *)
(*                                                                         *)
(* Last, what the hub supposes of the replay index is what TranscriptLog   *)
(* says of it, no more and no less.                                        *)
(***************************************************************************)
EXTENDS SessionHub, FiniteSetTheorems, SequenceTheorems, TLAPS

\* Where ServeOffer can be.
Places ==
  Finished \cup {"state", "state_archive", "resume", "history", "seq", "takeover",
                 "owned", "archive", "index", "dial", "added"}

\* Where ResolveReplay looks for a session, and where it holds one it has found.
Lookups == {"state", "state_archive", "resume", "history", "seq", "takeover", "owned",
            "archive", "index"}
Holding == {"history", "seq", "takeover", "owned"}

\* Both offers have arrived, from one user for one provider.
Kin(p, o) ==
  /\ pc[p] # "idle"
  /\ pc[o] # "idle"
  /\ req[p].user = req[o].user
  /\ req[p].provider = req[o].provider

\* All the lines were said by sessions of o's user with o's provider.
OwnLines(lines, o) == \A k \in 1..Len(lines) : Kin(lines[k].by, o)

\* An offer that has arrived asks for something.
Asked(o) == pc[o] # "idle" => req[o] \in Request

\* An offer that looks a session up is not anonymous.
Resolving(o) ==
  pc[o] \in Lookups => req[o].user # Anonymous /\ req[o].target \in Offers

\* The live session an offer has found is its own user's.
Found(o) ==
  pc[o] \in Holding => active[o].session \in Offers /\ Kin(active[o].session, o)

\* What is resumed, recorded and about to be archived for a session.
Owned(o) ==
  /\ OwnLines(full[o], o)
  /\ OwnLines(hist[o], o)
  /\ OwnLines(snap[o].hist, o)
  /\ full[o] # <<>> => req[o].user # Anonymous

\* A registered session has arrived.
Registered(s) == conns[s] # None => conns[s] \in Offers /\ pc[conns[s]] # "idle"

\* An archive holds lines of the user and the provider it is kept for.
Archived(s) ==
  archives[s] # None =>
    /\ archives[s] \in Archive
    /\ \A k \in 1..Len(archives[s].hist) :
         LET by == archives[s].hist[k].by IN
         /\ pc[by] # "idle"
         /\ req[by].user = archives[s].user
         /\ req[by].provider = archives[s].provider

\* Lines were said by sessions that have arrived.
Logged(s) == \A k \in 1..Len(log[s]) : pc[log[s][k].by] # "idle"

OffersOwn == \A o \in Offers : Asked(o) /\ Resolving(o) /\ Found(o)
LinesOwn == \A o \in Offers : Owned(o)
HubOwn == \A s \in Offers : Registered(s) /\ Archived(s) /\ Logged(s)

Ownership == OffersOwn /\ LinesOwn /\ HubOwn

IInv == TypeOK /\ Ownership

----------------------------------------------------------------------------
(* Sequences of lines                                                      *)

\* One element more.
LEMMA AppendIs ==
  ASSUME NEW S, NEW q \in Seq(S), NEW x \in S
  PROVE  /\ Append(q, x) \in Seq(S) /\ Append(q, x) # <<>>
         /\ Len(q) \in Nat /\ Len(Append(q, x)) = Len(q) + 1
         /\ Append(q, x)[Len(q) + 1] = x
         /\ \A k \in 1..Len(q) : Append(q, x)[k] = q[k]
<1>1. Append(q, x) \in Seq(S) /\ Len(q) \in Nat /\ Len(Append(q, x)) = Len(q) + 1
  OBVIOUS
<1>2. Append(q, x) # <<>>
  BY <1>1
<1>3. Append(q, x)[Len(q) + 1] = x /\ \A k \in 1..Len(q) : Append(q, x)[k] = q[k]
  OBVIOUS
<1> QED BY <1>1, <1>2, <1>3, Zenon

\* The newest lines are some of the lines.
LEMMA NewestIs ==
  ASSUME NEW S, NEW h \in Seq(S)
  PROVE  /\ Newest(h) \in Seq(S)
         /\ \A k \in 1..Len(Newest(h)) : \E j \in 1..Len(h) : Newest(h)[k] = h[j]
<1>1. CASE Len(h) <= HistLimit
  BY <1>1 DEF Newest
<1>2. CASE ~(Len(h) <= HistLimit)
  <2> DEFINE from == Len(h) - HistLimit + 1
  <2>1. HistLimit \in Nat \ {0} /\ Len(h) \in Nat
    BY HubAssumption
  <2>2. from \in 1..Len(h) /\ Len(h) - from + 1 = HistLimit
    BY <1>2, <2>1
  <2>3. Newest(h) = SubSeq(h, from, Len(h))
    BY <1>2 DEF Newest
  <2>4. /\ SubSeq(h, from, Len(h)) \in Seq(S)
        /\ Len(SubSeq(h, from, Len(h))) = HistLimit
        /\ \A k \in 1..HistLimit : SubSeq(h, from, Len(h))[k] = h[from + k - 1]
    <3> HIDE DEF from
    <3> QED BY <2>1, <2>2
  <2>5. \A k \in 1..HistLimit : from + k - 1 \in 1..Len(h)
    BY <2>1, <2>2
  <2> QED BY <2>3, <2>4, <2>5
<1> QED BY <1>1, <1>2

\* What the index answers is a sequence of the lines it has found.
LEMMA SortedIs ==
  ASSUME NEW t \in Seq(Line), NEW found, found \subseteq Range(t),
         NEW kept \in (SUBSET found) \ {{}}, NEW q \in Sorted(kept)
  PROVE  /\ q \in Seq(Line)
         /\ Len(q) \in Nat \ {0}
         /\ \A k \in 1..Len(q) : q[k] \in found
         /\ Last(q).seq \in Nat
<1>1. Range(t) \subseteq Line /\ IsFiniteSet(Range(t))
  <2>1. DOMAIN t = 1..Len(t) /\ Len(t) \in Nat
    OBVIOUS
  <2>2. IsFiniteSet(1..Len(t))
    BY <2>1, FS_Interval
  <2>3. Range(t) = {t[i] : i \in 1..Len(t)}
    BY <2>1 DEF Range
  <2>4. t \in Surjection(1..Len(t), {t[i] : i \in 1..Len(t)})
    BY <2>1 DEF Surjection
  <2>5. IsFiniteSet({t[i] : i \in 1..Len(t)})
    BY <2>2, <2>4, FS_Surjection
  <2>6. \A i \in 1..Len(t) : t[i] \in Line
    OBVIOUS
  <2> QED BY <2>3, <2>5, <2>6
<1>2. IsFiniteSet(kept) /\ kept \subseteq Line /\ kept # {}
  <2>1. kept \subseteq Range(t)
    OBVIOUS
  <2>2. IsFiniteSet(kept)
    BY <1>1, <2>1, FS_Subset
  <2>3. kept # {}
    OBVIOUS
  <2> QED BY <1>1, <2>1, <2>2, <2>3
<1>3. Cardinality(kept) \in Nat \ {0}
  BY <1>2, FS_CardinalityType, FS_EmptySet
<1>4. q \in [1..Cardinality(kept) -> kept]
  BY DEF Sorted
<1>5. q \in Seq(kept) /\ Len(q) = Cardinality(kept)
  BY <1>3, <1>4
<1>6. \A k \in 1..Len(q) : q[k] \in kept
  BY <1>5
<1>7. Len(q) \in 1..Len(q)
  BY <1>3, <1>5
<1>8. q \in Seq(Line)
  BY <1>2, <1>5
<1>9. q[Len(q)] \in Line
  BY <1>2, <1>6, <1>7
<1>10. Last(q).seq \in Nat
  BY <1>9 DEF Last, Line
<1>11. \A k \in 1..Len(q) : q[k] \in found
  BY <1>6
<1> QED BY <1>3, <1>5, <1>8, <1>10, <1>11

----------------------------------------------------------------------------
(* Types                                                                   *)

\* Initially nothing has happened.
LEMMA InitTypeOK == Init => TypeOK
BY HubAssumption
   DEF Init, TypeOK, NoSession, NoSnap, NoRequest, Line, Finished, Offers

\* A step of an offer leaves the control states typed.
LEMMA StepIs ==
  ASSUME TypeOK, NEW o \in Offers, NEW from, NEW to \in Places, Step(o, from, to)
  PROVE  /\ pc' \in [Offers -> Places]
         /\ pc[o] = from /\ pc'[o] = to
         /\ \A p \in Offers \ {o} : pc'[p] = pc[p]
BY DEF TypeOK, Step, Places

\* What a resume changes besides the offer is typed, and the log is left alone.
ResumeTypes ==
  /\ sid' \in [Offers -> Offers]
  /\ status' \in [Offers -> {"miss", "memory_hit", "index_hit"}]
  /\ contested' \in SUBSET Offers
  /\ tainted' \in SUBSET Offers
  /\ log' = log
  /\ lapsed' = lapsed

\* The outcome of a resume leaves its variables typed.
LEMMA ResumesIs ==
  ASSUME TypeOK, NEW o \in Offers, NEW s \in Offers,
         NEW how \in {"miss", "memory_hit", "index_hit"}, Resumes(o, s, how)
  PROVE  ResumeTypes
BY DEF TypeOK, Resumes, ResumeTypes

\* What an offer asks for is typed.
LEMMA ArriveTypes ==
  ASSUME TypeOK, NEW o \in Offers, Arrive(o)
  PROVE  TypeOK'
<1>1. PICK u \in Users, p \in Providers, t \in KnownIds \cup (IF o <= MaxFresh THEN {None} ELSE {}),
           n \in Nat :
        /\ req' = [req EXCEPT ![o] = [user |-> u, provider |-> p, target |-> t, last |-> n]]
        /\ Step(o, "idle", IF t = None \/ u = Anonymous THEN "dial" ELSE "state")
  <2>1. \A t \in KnownIds : Len(log[t]) \in Nat
    BY DEF KnownIds, TypeOK
  <2>2. \A t \in KnownIds \cup (IF o <= MaxFresh THEN {None} ELSE {}) :
          (IF t = None THEN {0} ELSE 0..Len(log[t])) \subseteq Nat
    BY <2>1
  <2> QED BY <2>2 DEF Arrive
<1>2. t \in Offers \cup {None}
  BY DEF KnownIds, TypeOK
<1>3. req' \in [Offers -> Request \cup {NoRequest}]
  BY <1>1, <1>2 DEF TypeOK, Request
<1>4. PICK to \in {"dial", "state"} : Step(o, "idle", to)
  BY <1>1
<1>5. pc' \in [Offers -> Places]
  BY <1>4, StepIs DEF Places
<1> QED
  BY <1>3, <1>5
     DEF Arrive, Places, TypeOK, sessionVars, recorderVars, hubVars, shutVars, historyVars

\* Looking the session up keeps the types.
LEMMA ResolveTypes ==
  ASSUME TypeOK, Ownership, NEW o \in Offers, Resolve(o)
  PROVE  TypeOK'
<1> USE DEF offerVars, recorderVars, sessionVars, hubVars, shutVars, historyVars
<1>0. Resolving(o) /\ Found(o)
  BY DEF Ownership, OffersOwn, LinesOwn, HubOwn
<1>1. CASE StateInConns(o)
  <2>1. PICK to \in {"state_archive", "resume", "refused", "dial"} : Step(o, "state", to)
    BY <1>1 DEF StateInConns, Checked
  <2>2. pc' \in [Offers -> Places]
    BY <2>1, StepIs DEF Places, Finished
  <2> QED BY <1>1, <2>2 DEF StateInConns, TypeOK, Places
<1>2. CASE StateInArchive(o)
  <2>1. PICK to \in {"resume", "refused", "dial"} : Step(o, "state_archive", to)
    BY <1>2 DEF StateInArchive, Checked
  <2>2. pc' \in [Offers -> Places]
    BY <2>1, StepIs DEF Places, Finished
  <2> QED BY <1>2, <2>2 DEF StateInArchive, TypeOK, Places
<1>3. CASE ResumeFind(o)
  <2>1. PICK to \in {"archive", "history", "index"} : Step(o, "resume", to)
    BY <1>3 DEF ResumeFind
  <2>2. active' \in [Offers -> [session : Offers \cup {None}, cleanup : BOOLEAN]]
    <3>1. req[o].target \in Offers
      BY <1>0, <1>3 DEF ResumeFind, Resolving, Lookups
    <3>2. conns[req[o].target] \in Offers \cup {None}
      BY <3>1 DEF TypeOK
    <3>3. CASE UNCHANGED active
      BY <3>3 DEF TypeOK
    <3>4. ASSUME NEW c \in Offers,
                 active' = [active EXCEPT ![o] = [session |-> c, cleanup |-> wired[c]]]
          PROVE  active' \in [Offers -> [session : Offers \cup {None}, cleanup : BOOLEAN]]
      BY <3>4 DEF TypeOK
    <3> QED BY <1>3, <3>2, <3>3, <3>4 DEF ResumeFind
  <2>3. pc' \in [Offers -> Places]
    BY <2>1, StepIs DEF Places
  <2> QED BY <1>3, <2>2, <2>3 DEF ResumeFind, TypeOK, Places
<1>4. CASE ReadHistory(o)
  <2>1. active[o].session \in Offers
    BY <1>0, <1>4 DEF ReadHistory, Step, Found, Holding
  <2>2. full' \in [Offers -> Seq(Line)]
    BY <1>4, <2>1 DEF ReadHistory, TypeOK
  <2>3. pc' \in [Offers -> Places]
    BY <1>4, StepIs DEF ReadHistory, Places
  <2> QED BY <1>4, <2>2, <2>3 DEF ReadHistory, TypeOK, Places
<1>5. CASE ReadSeq(o)
  <2>1. active[o].session \in Offers
    BY <1>0, <1>5 DEF ReadSeq, Step, Found, Holding
  <2>2. PICK to \in {"takeover", "owned"} : Step(o, "seq", to)
    BY <1>5 DEF ReadSeq
  <2>3. pc' \in [Offers -> Places]
    BY <2>2, StepIs DEF Places
  <2> QED BY <1>5, <2>1, <2>3 DEF ReadSeq, TypeOK, Places
<1>6. CASE TakeOver(o)
  <2>1. active[o].session \in Offers
    BY <1>0, <1>6 DEF TakeOver, Step, Found, Holding
  <2>2. pc' \in [Offers -> Places]
    BY <1>6, StepIs DEF TakeOver, Places
  <2> QED BY <1>6, <2>1, <2>2 DEF TakeOver, TypeOK, Cleanup, Places
<1>7. CASE MemoryHit(o)
  <2>1. req[o].target \in Offers
    BY <1>0, <1>7 DEF MemoryHit, Step, Resolving, Lookups
  <2>2. pc' \in [Offers -> Places]
    BY <1>7, StepIs DEF MemoryHit, Places
  <2>3. ResumeTypes
    BY <1>7, <2>1, ResumesIs DEF MemoryHit
  <2> QED BY <1>7, <2>2, <2>3 DEF MemoryHit, TypeOK, Places, ResumeTypes
<1>8. CASE ResumeArchive(o)
  <2> DEFINE a == archives[req[o].target]
  <2>1. req[o].target \in Offers
    BY <1>0, <1>8 DEF ResumeArchive, Resolving, Lookups
  <2>2. CASE ArchiveMatches(o, a)
    <3>1. a \in Archive
      BY <2>1, <2>2 DEF TypeOK, ArchiveMatches
    <3>2. full' \in [Offers -> Seq(Line)] /\ start' \in [Offers -> Nat]
      BY <1>8, <2>2, <3>1 DEF ResumeArchive, TypeOK, Archive
    <3>3. pc' \in [Offers -> Places]
      BY <1>8, <2>2, StepIs DEF ResumeArchive, Places
    <3>4. ResumeTypes
      BY <1>8, <2>1, <2>2, ResumesIs DEF ResumeArchive
    <3>5. UNCHANGED <<req, active, sessionVars, hubVars, shutVars>>
      BY <1>8 DEF ResumeArchive
    <3> QED BY <3>2, <3>3, <3>4, <3>5 DEF TypeOK, Places, ResumeTypes
  <2>3. CASE ~ArchiveMatches(o, a)
    <3>1. pc' \in [Offers -> Places]
      BY <1>8, <2>3, StepIs DEF ResumeArchive, Places
    <3>2. UNCHANGED <<req, active, full, start, sid, status, sessionVars, hubVars, shutVars,
                      historyVars>>
      BY <1>8, <2>3 DEF ResumeArchive
    <3> QED BY <3>1, <3>2 DEF TypeOK, Places
  <2> QED BY <2>2, <2>3
<1>9. CASE IndexHit(o)
  <2> DEFINE t == req[o].target
             found == {l \in Range(log[t]) : /\ req[l.by].user = req[o].user
                                             /\ req[l.by].provider = req[o].provider
                                             /\ l.seq > req[o].last}
  <2>1. t \in Offers
    BY <1>0, <1>9 DEF IndexHit, Step, Resolving, Lookups
  <2>2. PICK kept \in (SUBSET found) \ {{}} : \E lines \in Sorted(kept) :
          /\ full' = [full EXCEPT ![o] = lines]
          /\ start' = [start EXCEPT ![o] = Last(lines).seq]
          /\ Resumes(o, t, "index_hit")
    BY <1>9 DEF IndexHit
  <2>3. PICK lines \in Sorted(kept) :
          /\ full' = [full EXCEPT ![o] = lines]
          /\ start' = [start EXCEPT ![o] = Last(lines).seq]
          /\ Resumes(o, t, "index_hit")
    BY <2>2
  <2>4. lines \in Seq(Line) /\ Last(lines).seq \in Nat
    <3>1. log[t] \in Seq(Line) /\ found \subseteq Range(log[t])
      BY <2>1 DEF TypeOK
    <3> HIDE DEF found
    <3> QED BY <2>2, <2>3, <3>1, SortedIs
  <2>5. full' \in [Offers -> Seq(Line)] /\ start' \in [Offers -> Nat]
    BY <2>3, <2>4 DEF TypeOK
  <2>6. pc' \in [Offers -> Places]
    BY <1>9, StepIs DEF IndexHit, Places
  <2>7. ResumeTypes
    BY <2>1, <2>3, ResumesIs
  <2>8. UNCHANGED <<req, active, sessionVars, hubVars, shutVars>>
    BY <1>9 DEF IndexHit
  <2> QED BY <2>5, <2>6, <2>7, <2>8 DEF TypeOK, Places, ResumeTypes
<1>10. CASE IndexMiss(o)
  <2>1. pc' \in [Offers -> Places]
    BY <1>10, StepIs DEF IndexMiss, Places
  <2> QED BY <1>10, <2>1 DEF IndexMiss, TypeOK, Places
<1> QED
  BY <1>1, <1>2, <1>3, <1>4, <1>5, <1>6, <1>7, <1>8, <1>9, <1>10, Zenon DEF Resolve

\* What tear-down reads of a recorder is of its type.
LEMMA SnapIs ==
  ASSUME NEW S, NEW f \in [Offers -> [hist : S, maxSeq : Nat]], NEW o \in Offers
  PROVE  /\ \A h \in S : [f EXCEPT ![o].hist = h] \in [Offers -> [hist : S, maxSeq : Nat]]
         /\ \A n \in Nat : [f EXCEPT ![o].maxSeq = n] \in [Offers -> [hist : S, maxSeq : Nat]]
OBVIOUS

\* The session's life keeps the types.
LEMMA SessionTypes ==
  ASSUME TypeOK, Ownership, NEW o \in Offers,
         Start(o) \/ AbortReported(o) \/ Record(o) \/ Disconnect(o) \/ Teardown(o)
           \/ GoroutinesExit(o) \/ Expire(o)
  PROVE  TypeOK'
<1> USE DEF offerVars, recorderVars, sessionVars, hubVars, shutVars, historyVars
<1>1. CASE DialFails(o)
  <2>1. pc' \in [Offers -> Places]
    BY <1>1, StepIs DEF DialFails, Places, Finished
  <2> QED BY <1>1, <2>1 DEF DialFails, TypeOK, Places
<1>2. CASE Serve(o)
  <2>1. pc' \in [Offers -> Places]
    BY <1>2, StepIs DEF Serve, Places, Finished
  <2>2. hist' \in [Offers -> Seq(Line)] /\ seq' \in [Offers -> Nat]
    BY <1>2 DEF Serve, TypeOK, FirstSeq
  <2>3. running' \in [Offers -> BOOLEAN] /\ conns' \in [Offers -> Offers \cup {None}]
    BY <1>2 DEF Serve, TypeOK
  <2>4. UNCHANGED <<offerVars, closing, snap, wired, archives, shutVars, historyVars>>
    BY <1>2 DEF Serve
  <2> QED BY <2>1, <2>2, <2>3, <2>4 DEF TypeOK, Places
<1>3. CASE Abort(o)
  <2>1. pc' \in [Offers -> Places]
    BY <1>3, StepIs DEF Abort, Places, Finished
  <2> QED BY <1>3, <2>1 DEF Abort, TypeOK, Places
<1>4. CASE Wire(o)
  <2>1. pc' \in [Offers -> Places]
    BY <1>4, StepIs DEF Wire, Places, Finished
  <2> QED BY <1>4, <2>1 DEF Wire, TypeOK, Places
<1>5. CASE AbortReported(o)
  BY <1>5 DEF AbortReported, TypeOK
<1>6. CASE Record(o)
  <2> DEFINE line == [seq |-> seq[o] + 1, by |-> o]
  <2>1. line \in Line /\ seq[o] + 1 \in Nat
    BY DEF TypeOK, Line
  <2>2. sid[o] \in Offers /\ hist[o] \in Seq(Line) /\ log[sid[o]] \in Seq(Line)
    BY DEF TypeOK
  <2>3. Append(hist[o], line) \in Seq(Line) /\ Append(log[sid[o]], line) \in Seq(Line)
    BY <2>1, <2>2
  <2>4. Newest(Append(hist[o], line)) \in Seq(Line)
    BY <2>3, NewestIs
  <2>5. hist' \in [Offers -> Seq(Line)]
    BY <1>6, <2>4 DEF Record, TypeOK
  <2>6. log' \in [Offers -> Seq(Line)]
    BY <1>6, <2>3 DEF Record, TypeOK
  <2>7. seq' \in [Offers -> Nat] /\ tainted' \in SUBSET Offers
    BY <1>6, <2>1, <2>2 DEF Record, TypeOK
  <2>8. UNCHANGED <<pc, offerVars, closing, snap, wired, running, hubVars, shutVars,
                    contested, lapsed>>
    BY <1>6 DEF Record
  <2> QED BY <2>5, <2>6, <2>7, <2>8 DEF TypeOK
<1>7. CASE Disconnect(o)
  BY <1>7 DEF Disconnect, Cleanup, TypeOK
<1>8. CASE SnapshotHistory(o)
  <2>1. snap' = [snap EXCEPT ![o].hist = hist[o]] /\ hist[o] \in Seq(Line)
    BY <1>8 DEF SnapshotHistory, TypeOK
  <2>2. snap' \in [Offers -> [hist : Seq(Line), maxSeq : Nat]]
    <3>1. snap \in [Offers -> [hist : Seq(Line), maxSeq : Nat]]
      BY DEF TypeOK
    <3> QED BY <2>1, <3>1, SnapIs, Zenon
  <2>3. closing' \in [Offers -> {"no", "hist", "seq", "delete", "put", "closed"}]
    BY <1>8 DEF SnapshotHistory, Closes, TypeOK
  <2>4. UNCHANGED <<pc, offerVars, recorderVars, wired, running, hubVars, shutVars, historyVars>>
    BY <1>8 DEF SnapshotHistory, Closes
  <2> QED BY <2>2, <2>3, <2>4 DEF TypeOK
<1>9. CASE SnapshotSeq(o)
  <2>1. snap' = [snap EXCEPT ![o].maxSeq = seq[o]] /\ seq[o] \in Nat
    BY <1>9 DEF SnapshotSeq, TypeOK
  <2>2. snap' \in [Offers -> [hist : Seq(Line), maxSeq : Nat]]
    <3>1. snap \in [Offers -> [hist : Seq(Line), maxSeq : Nat]]
      BY DEF TypeOK
    <3> QED BY <2>1, <3>1, SnapIs, Zenon
  <2>3. closing' \in [Offers -> {"no", "hist", "seq", "delete", "put", "closed"}]
    BY <1>9 DEF SnapshotSeq, Closes, TypeOK
  <2>4. UNCHANGED <<pc, offerVars, recorderVars, wired, running, hubVars, shutVars, historyVars>>
    BY <1>9 DEF SnapshotSeq, Closes
  <2> QED BY <2>2, <2>3, <2>4 DEF TypeOK
<1>10. CASE Delete(o)
  BY <1>10 DEF Delete, Closes, TypeOK
<1>11. CASE Put(o)
  <2> DEFINE a == [provider |-> req[o].provider, user |-> req[o].user,
                   hist |-> snap[o].hist, maxSeq |-> snap[o].maxSeq]
  <2>1. ASSUME snap[o].hist # <<>> PROVE a \in Archive
    <3>1. snap[o].hist \in Seq(Line) /\ snap[o].maxSeq \in Nat
      BY DEF TypeOK
    <3>2. 1 \in 1..Len(snap[o].hist)
      BY <2>1, <3>1
    <3>3. pc[o] # "idle"
      BY <3>2 DEF Ownership, OffersOwn, LinesOwn, HubOwn, Owned, OwnLines, Kin
    <3>4. req[o] \in Request
      BY <3>3 DEF Ownership, OffersOwn, LinesOwn, HubOwn, Asked
    <3> QED BY <3>1, <3>4 DEF Archive, Request
  <2>2. archives' \in [Offers -> Archive \cup {None}]
    BY <1>11, <2>1 DEF Put, TypeOK
  <2> QED BY <1>11, <2>2 DEF Put, Closes, TypeOK
<1>12. CASE GoroutinesExit(o)
  BY <1>12 DEF GoroutinesExit, TypeOK
<1>13. CASE Expire(o)
  BY <1>13 DEF Expire, TypeOK
<1> QED
  BY <1>1, <1>2, <1>3, <1>4, <1>5, <1>6, <1>7, <1>8, <1>9, <1>10, <1>11, <1>12, <1>13, Zenon
     DEF Start, Teardown

\* The shutdown keeps the types.
LEMMA ShutdownTypes ==
  ASSUME TypeOK, Signal \/ CloseAll \/ MainReturns
  PROVE  TypeOK'
<1> USE DEF offerVars, recorderVars, sessionVars, hubVars, shutVars, historyVars
<1>1. CASE Signal
  BY <1>1 DEF Signal, TypeOK
<1>2. CASE Drained
  BY <1>2 DEF Drained, TypeOK
<1>3. CASE WaitDone
  BY <1>3 DEF WaitDone, TypeOK
<1>4. ASSUME NEW o \in Offers, CloseNext(o) PROVE TypeOK'
  BY <1>4 DEF CloseNext, Cleanup, TypeOK
<1>5. CASE MainReturns
  BY <1>5 DEF MainReturns, TypeOK
<1> QED BY <1>1, <1>2, <1>3, <1>4, <1>5 DEF CloseAll

\* Every step keeps the types.
LEMMA NextTypes ==
  ASSUME IInv, [Next]_vars
  PROVE  TypeOK'
<1>1. CASE UNCHANGED vars
  BY <1>1
     DEF IInv, TypeOK, vars, offerVars, recorderVars, sessionVars, hubVars, shutVars, historyVars
<1>2. CASE Next
  BY <1>2, ArriveTypes, ResolveTypes, SessionTypes, ShutdownTypes, Zenon DEF IInv, Next
<1> QED BY <1>1, <1>2

----------------------------------------------------------------------------
(* Who said what                                                           *)

\* Arrived offers keep what they asked for.
Settled ==
  \A p \in Offers : pc[p] # "idle" => pc'[p] # "idle" /\ req'[p] = req[p]

\* Every step leaves arrived offers settled.
LEMMA StaysSettled ==
  ASSUME TypeOK, [Next]_vars
  PROVE  Settled
<1> USE DEF offerVars, recorderVars, sessionVars, hubVars, shutVars, historyVars
<1>1. CASE UNCHANGED vars
  BY <1>1 DEF Settled, vars
<1>2. CASE UNCHANGED <<pc, req>>
  BY <1>2 DEF Settled
<1>3. ASSUME NEW o \in Offers, NEW from, NEW to, to # "idle", Step(o, from, to), UNCHANGED req
      PROVE  Settled
  BY <1>3 DEF Settled, Step, TypeOK
<1>4. ASSUME NEW o \in Offers, Arrive(o)
      PROVE  Settled
  BY <1>4 DEF Settled, Arrive, Step, TypeOK
<1>5. ASSUME NEW o \in Offers, Resolve(o)
      PROVE  Settled
  <2>1. UNCHANGED req
    BY <1>5 DEF Resolve, StateInConns, StateInArchive, ResumeFind, ReadHistory, ReadSeq, TakeOver,
                MemoryHit, ResumeArchive, IndexHit, IndexMiss
  <2>2. \E from, to : to # "idle" /\ Step(o, from, to)
    BY <1>5 DEF Resolve, StateInConns, StateInArchive, Checked, ResumeFind, ReadHistory, ReadSeq,
                TakeOver, MemoryHit, ResumeArchive, IndexHit, IndexMiss
  <2> QED BY <1>3, <2>1, <2>2
<1>6. ASSUME NEW o \in Offers, Start(o)
      PROVE  Settled
  <2>1. UNCHANGED req
    BY <1>6 DEF Start, DialFails, Serve, Abort, Wire
  <2>2. \E from, to : to # "idle" /\ Step(o, from, to)
    BY <1>6 DEF Start, DialFails, Serve, Abort, Wire
  <2> QED BY <1>3, <2>1, <2>2
<1>7. ASSUME NEW o \in Offers,
             AbortReported(o) \/ Record(o) \/ Disconnect(o) \/ Teardown(o)
               \/ GoroutinesExit(o) \/ Expire(o)
      PROVE  UNCHANGED <<pc, req>>
  BY <1>7 DEF AbortReported, Record, Disconnect, Teardown, SnapshotHistory, SnapshotSeq, Delete,
              Put, Closes, GoroutinesExit, Expire
<1>8. ASSUME Signal \/ CloseAll \/ MainReturns
      PROVE  UNCHANGED <<pc, req>>
  BY <1>8 DEF Signal, CloseAll, Drained, WaitDone, CloseNext, MainReturns
<1>9. CASE Next
  BY <1>2, <1>4, <1>5, <1>6, <1>7, <1>8, <1>9 DEF Next
<1> QED BY <1>1, <1>9

\* What the lines of an offer are stays true of the variables no step touches.
LEMMA LinesKept ==
  ASSUME TypeOK, Ownership, Settled, NEW o \in Offers
  PROVE  /\ full'[o] = full[o]
              => OwnLines(full[o], o)' /\ (full[o] # <<>> => req[o].user # Anonymous)'
         /\ hist'[o] = hist[o] => OwnLines(hist[o], o)'
         /\ snap'[o].hist = snap[o].hist => OwnLines(snap[o].hist, o)'
<1>1. full[o] \in Seq(Line) /\ hist[o] \in Seq(Line) /\ snap[o].hist \in Seq(Line)
  BY DEF TypeOK
<1>2. Owned(o)
  BY DEF Ownership, OffersOwn, LinesOwn, HubOwn
<1>3. ASSUME full'[o] = full[o]
      PROVE  OwnLines(full[o], o)' /\ (full[o] # <<>> => req[o].user # Anonymous)'
  <2>1. OwnLines(full[o], o)'
    <3> DEFINE lines == full[o]
    <3>1. \A k \in 1..Len(lines) : lines[k].by \in Offers
      <4>1. \A k \in 1..Len(lines) : lines[k] \in Line
        BY <1>1
      <4> QED BY <4>1 DEF Line
    <3> QED BY <1>2, <1>3, <3>1 DEF OwnLines, Kin, Settled, Owned
  <2>2. full[o] # <<>> => pc[o] # "idle"
    <3>1. full[o] # <<>> => 1 \in 1..Len(full[o])
      BY <1>1
    <3> QED BY <1>2, <3>1 DEF Owned, OwnLines, Kin
  <2>3. (full[o] # <<>> => req[o].user # Anonymous)'
    BY <1>2, <1>3, <2>2 DEF Owned, Settled
  <2> QED BY <2>1, <2>3
<1>4. ASSUME hist'[o] = hist[o]
      PROVE  OwnLines(hist[o], o)'
  <2> DEFINE lines == hist[o]
  <2>1. \A k \in 1..Len(lines) : lines[k].by \in Offers
    <3>1. \A k \in 1..Len(lines) : lines[k] \in Line
      BY <1>1
    <3> QED BY <3>1 DEF Line
  <2> QED BY <1>2, <1>4, <2>1 DEF OwnLines, Kin, Settled, Owned
<1>5. ASSUME snap'[o].hist = snap[o].hist
      PROVE  OwnLines(snap[o].hist, o)'
  <2> DEFINE lines == snap[o].hist
  <2>1. \A k \in 1..Len(lines) : lines[k].by \in Offers
    <3>1. \A k \in 1..Len(lines) : lines[k] \in Line
      BY <1>1
    <3> QED BY <3>1 DEF Line
  <2> QED BY <1>2, <1>5, <2>1 DEF OwnLines, Kin, Settled, Owned
<1> QED BY <1>3, <1>4, <1>5

\* What the hub, the archive and the index know of an id stays true likewise.
LEMMA HubKept ==
  ASSUME TypeOK, Ownership, Settled, NEW s \in Offers
  PROVE  /\ conns'[s] \in {conns[s], None} => Registered(s)'
         /\ archives'[s] \in {archives[s], None} => Archived(s)'
         /\ log'[s] = log[s] => Logged(s)'
<1>1. Registered(s) /\ Archived(s) /\ Logged(s)
  BY DEF Ownership, OffersOwn, LinesOwn, HubOwn
<1>2. ASSUME conns'[s] = conns[s] PROVE Registered(s)'
  BY <1>1, <1>2 DEF Registered, Settled
<1>3. ASSUME archives'[s] = archives[s] PROVE Archived(s)'
  <2> DEFINE lines == archives[s].hist
  <2>1. ASSUME archives[s] \in Archive
        PROVE  \A k \in 1..Len(lines) : lines[k].by \in Offers
    <3>1. \A k \in 1..Len(lines) : lines[k] \in Line
      BY <2>1 DEF Archive
    <3> QED BY <3>1 DEF Line
  <2> QED BY <1>1, <1>3, <2>1 DEF Archived, Settled, Archive
<1>4. ASSUME log'[s] = log[s] PROVE Logged(s)'
  <2>1. \A k \in 1..Len(log[s]) : log[s][k].by \in Offers
    <3>1. log[s] \in Seq(Line)
      BY DEF TypeOK
    <3>2. \A k \in 1..Len(log[s]) : log[s][k] \in Line
      BY <3>1
    <3> QED BY <3>2 DEF Line
  <2> QED BY <1>1, <1>4, <2>1 DEF Logged, Settled
<1> QED BY <1>2, <1>3, <1>4 DEF Registered, Archived

\* Offers that do not move are where they were.
LEMMA Rests ==
  ASSUME TypeOK, Ownership, Settled, NEW p \in Offers,
         pc'[p] = pc[p], req'[p] = req[p], active'[p] = active[p]
  PROVE  Asked(p)' /\ Resolving(p)' /\ Found(p)'
<1>1. Asked(p) /\ Resolving(p) /\ Found(p)
  BY DEF Ownership, OffersOwn, LinesOwn, HubOwn
<1>2. Asked(p)' /\ Resolving(p)'
  BY <1>1 DEF Asked, Resolving
<1>3. Found(p)'
  BY <1>1 DEF Found, Kin, Settled
<1> QED BY <1>2, <1>3

\* An offer that moves on without starting a look-up knows what it knew.
LEMMA Moves ==
  ASSUME TypeOK, Ownership, Settled, NEW o \in Offers, NEW from, NEW to, Step(o, from, to),
         from # "idle", to \in Lookups => from \in Lookups, to \in Holding => from \in Holding,
         UNCHANGED <<req, active>>
  PROVE  OffersOwn'
<1>1. pc[o] = from /\ pc'[o] = to /\ \A p \in Offers \ {o} : pc'[p] = pc[p]
  BY DEF Step, TypeOK
<1>2. ASSUME NEW p \in Offers \ {o}
      PROVE  Asked(p)' /\ Resolving(p)' /\ Found(p)'
  BY <1>1, Rests
<1>3. Asked(o) /\ Resolving(o) /\ Found(o)
  BY DEF Ownership, OffersOwn, LinesOwn, HubOwn
<1>4. Asked(o)' /\ Resolving(o)'
  BY <1>1, <1>3 DEF Asked, Resolving
<1>5. Found(o)'
  BY <1>1, <1>3 DEF Found, Kin, Settled
<1> QED BY <1>2, <1>4, <1>5 DEF OffersOwn

\* Steps that leave all of a part alone keep that part.
LEMMA AllKept ==
  ASSUME TypeOK, Ownership, Settled
  PROVE  /\ UNCHANGED <<pc, req, active>> => OffersOwn'
         /\ UNCHANGED <<full, hist, snap>> => LinesOwn'
         /\ UNCHANGED <<conns, archives, log>> => HubOwn'
<1>1. ASSUME UNCHANGED <<pc, req, active>> PROVE OffersOwn'
  BY <1>1, Rests DEF OffersOwn
<1>2. ASSUME UNCHANGED <<full, hist, snap>> PROVE LinesOwn'
  BY <1>2, LinesKept DEF LinesOwn, Owned
<1>3. ASSUME UNCHANGED <<conns, archives, log>> PROVE HubOwn'
  BY <1>3, HubKept DEF HubOwn
<1> QED BY <1>1, <1>2, <1>3

\* An offer that resumes with lines of its own user keeps the lines owned.
LEMMA ResumesOwn ==
  ASSUME TypeOK, Ownership, Settled, NEW o \in Offers, NEW lines \in Seq(Line),
         OwnLines(lines, o), pc[o] # "idle", req[o].user # Anonymous,
         full' = [full EXCEPT ![o] = lines], UNCHANGED <<hist, snap>>
  PROVE  LinesOwn'
<1>1. ASSUME NEW p \in Offers \ {o} PROVE Owned(p)'
  <2>1. full'[p] = full[p]
    BY DEF TypeOK
  <2> QED BY <2>1, LinesKept DEF Owned
<1>2. Owned(o)'
  <2>1. full'[o] = lines
    BY DEF TypeOK
  <2>2. \A k \in 1..Len(lines) : lines[k].by \in Offers
    <3>1. \A k \in 1..Len(lines) : lines[k] \in Line
      OBVIOUS
    <3> QED BY <3>1 DEF Line
  <2>3. OwnLines(full[o], o)'
    BY <2>1, <2>2 DEF OwnLines, Kin, Settled
  <2>4. (full[o] # <<>> => req[o].user # Anonymous)'
    BY DEF Settled
  <2>5. OwnLines(hist[o], o)' /\ OwnLines(snap[o].hist, o)'
    BY LinesKept
  <2> QED BY <2>3, <2>4, <2>5 DEF Owned
<1> QED BY <1>1, <1>2 DEF LinesOwn

\* An arriving offer owns nothing and asks as itself.
LEMMA ArriveOwned ==
  ASSUME TypeOK, Ownership, Settled, NEW o \in Offers, Arrive(o)
  PROVE  Ownership'
<1>1. UNCHANGED <<active, full, sessionVars, hubVars, log>>
  BY DEF Arrive, historyVars
<1>2. PICK u \in Users, p \in Providers, t \in KnownIds \cup (IF o <= MaxFresh THEN {None} ELSE {}),
           n \in Nat :
        /\ req' = [req EXCEPT ![o] = [user |-> u, provider |-> p, target |-> t, last |-> n]]
        /\ Step(o, "idle", IF t = None \/ u = Anonymous THEN "dial" ELSE "state")
  <2>1. \A t \in KnownIds : Len(log[t]) \in Nat
    BY DEF KnownIds, TypeOK
  <2>2. \A t \in KnownIds \cup (IF o <= MaxFresh THEN {None} ELSE {}) :
          (IF t = None THEN {0} ELSE 0..Len(log[t])) \subseteq Nat
    BY <2>1
  <2> QED BY <2>2 DEF Arrive
<1>3. t \in Offers \cup {None}
  BY DEF KnownIds, TypeOK
<1>4. ASSUME NEW q \in Offers \ {o} PROVE Asked(q)' /\ Resolving(q)' /\ Found(q)'
  <2>1. pc'[q] = pc[q] /\ req'[q] = req[q] /\ active'[q] = active[q]
    BY <1>1, <1>2 DEF Step, TypeOK
  <2> QED BY <2>1, Rests
<1>5. /\ req'[o] = [user |-> u, provider |-> p, target |-> t, last |-> n]
      /\ pc'[o] = IF t = None \/ u = Anonymous THEN "dial" ELSE "state"
  BY <1>2 DEF Step, TypeOK
<1>6. Asked(o)' /\ Resolving(o)' /\ Found(o)'
  BY <1>3, <1>5 DEF Asked, Resolving, Found, Lookups, Holding, Request
<1>7. LinesOwn' /\ HubOwn'
  BY <1>1, AllKept DEF sessionVars, recorderVars, hubVars
<1> QED BY <1>4, <1>6, <1>7 DEF Ownership, OffersOwn

\* Looking a session up, an offer comes to hold what is its own user's only.
LEMMA ResolveOwned ==
  ASSUME TypeOK, Ownership, Settled, NEW o \in Offers, Resolve(o)
  PROVE  Ownership'
<1> USE DEF offerVars, recorderVars, sessionVars, hubVars, shutVars, historyVars
<1>0. Resolving(o) /\ Found(o)
  BY DEF Ownership, OffersOwn
<1>1. CASE StateInConns(o)
  <2>1. PICK to \in {"state_archive", "resume", "refused", "dial"} : Step(o, "state", to)
    BY <1>1 DEF StateInConns, Checked
  <2>2. UNCHANGED <<req, active, full, hist, snap, conns, archives, log>>
    BY <1>1 DEF StateInConns
  <2> QED BY <2>1, <2>2, Moves, AllKept DEF Ownership, Lookups, Holding
<1>2. CASE StateInArchive(o)
  <2>1. PICK to \in {"resume", "refused", "dial"} : Step(o, "state_archive", to)
    BY <1>2 DEF StateInArchive, Checked
  <2>2. UNCHANGED <<req, active, full, hist, snap, conns, archives, log>>
    BY <1>2 DEF StateInArchive
  <2> QED BY <2>1, <2>2, Moves, AllKept DEF Ownership, Lookups, Holding
<1>3. CASE ResumeFind(o)
  <2> DEFINE c == conns[req[o].target]
  <2>1. LinesOwn' /\ HubOwn'
    BY <1>3, AllKept DEF ResumeFind
  <2>2. ASSUME NEW to \in {"archive", "index"}, Step(o, "resume", to), UNCHANGED active
        PROVE  Ownership'
    <3>1. req' = req
      BY <1>3 DEF ResumeFind
    <3> QED BY <2>1, <2>2, <3>1, Moves DEF Ownership, Lookups, Holding
  <2>3. ASSUME c # None,
               req[c].user = req[o].user /\ req[c].provider = req[o].provider,
               Step(o, "resume", "history"),
               active' = [active EXCEPT ![o] = [session |-> c, cleanup |-> wired[c]]]
        PROVE  Ownership'
    <3>1. req[o].target \in Offers
      BY <1>0, <2>3 DEF Step, Resolving, Lookups
    <3>2. c \in Offers /\ pc[c] # "idle"
      BY <2>3, <3>1 DEF Ownership, HubOwn, Registered
    <3>3. Kin(c, o)
      BY <2>3, <3>2 DEF Kin, Step
    <3>4. pc'[o] = "history" /\ active'[o].session = c /\ req' = req
      BY <1>3, <2>3 DEF Step, TypeOK, ResumeFind
    <3>5. Found(o)'
      BY <3>2, <3>3, <3>4 DEF Found, Kin, Settled
    <3>6. Asked(o)' /\ Resolving(o)'
      <4>1. Asked(o)
        BY DEF Ownership, OffersOwn
      <4>2. pc[o] = "resume"
        BY <2>3 DEF Step
      <4> QED BY <1>0, <3>4, <4>1, <4>2 DEF Asked, Resolving, Lookups
    <3>7. ASSUME NEW q \in Offers \ {o} PROVE Asked(q)' /\ Resolving(q)' /\ Found(q)'
      <4>1. pc'[q] = pc[q] /\ req'[q] = req[q] /\ active'[q] = active[q]
        BY <2>3, <3>4 DEF Step, TypeOK
      <4> QED BY <4>1, Rests
    <3> QED BY <2>1, <3>5, <3>6, <3>7 DEF Ownership, OffersOwn
  <2> QED BY <1>3, <2>2, <2>3 DEF ResumeFind
<1>4. CASE ReadHistory(o)
  <2> DEFINE c == active[o].session
  <2>1. /\ Step(o, "history", "seq")
        /\ full' = [full EXCEPT ![o] = hist[c]]
        /\ UNCHANGED <<req, active, hist, snap, conns, archives, log>>
    BY <1>4 DEF ReadHistory
  <2>2. pc[o] = "history"
    BY <2>1 DEF Step
  <2>3. c \in Offers /\ Kin(c, o) /\ req[o].user # Anonymous
    BY <1>0, <2>2 DEF Found, Resolving, Lookups, Holding
  <2>4. hist[c] \in Seq(Line)
    BY <2>3 DEF TypeOK
  <2>5. OwnLines(hist[c], o)
    BY <2>3 DEF Ownership, LinesOwn, Owned, OwnLines, Kin
  <2>6. LinesOwn'
    BY <2>1, <2>2, <2>3, <2>4, <2>5, ResumesOwn
  <2> QED BY <2>1, <2>6, Moves, AllKept DEF Ownership, Lookups, Holding
<1>5. CASE ReadSeq(o)
  <2>1. PICK to \in {"takeover", "owned"} : Step(o, "seq", to)
    BY <1>5 DEF ReadSeq
  <2>2. UNCHANGED <<req, active, full, hist, snap, conns, archives, log>>
    BY <1>5 DEF ReadSeq
  <2> QED BY <2>1, <2>2, Moves, AllKept DEF Ownership, Lookups, Holding
<1>6. CASE TakeOver(o)
  <2>1. /\ Step(o, "takeover", "owned")
        /\ UNCHANGED <<req, active, full, hist, snap, conns, archives, log>>
    BY <1>6 DEF TakeOver
  <2> QED BY <2>1, Moves, AllKept DEF Ownership, Lookups, Holding
<1>7. CASE MemoryHit(o)
  <2>1. /\ Step(o, "owned", "dial")
        /\ UNCHANGED <<req, active, full, hist, snap, conns, archives, log>>
    BY <1>7 DEF MemoryHit, Resumes
  <2> QED BY <2>1, Moves, AllKept DEF Ownership, Lookups, Holding
<1>8. CASE ResumeArchive(o)
  <2> DEFINE t == req[o].target
             a == archives[t]
  <2>1. pc[o] = "archive" /\ UNCHANGED <<req, active, hist, snap, conns, archives, log>>
    BY <1>8 DEF ResumeArchive, Resumes
  <2>2. t \in Offers /\ req[o].user # Anonymous
    BY <1>0, <2>1 DEF Resolving, Lookups
  <2>3. CASE ArchiveMatches(o, a)
    <3>1. Step(o, "archive", "dial") /\ full' = [full EXCEPT ![o] = a.hist]
      BY <1>8, <2>3 DEF ResumeArchive
    <3>2. a # None /\ a.user = req[o].user /\ a.provider = req[o].provider
      BY <2>3 DEF ArchiveMatches
    <3>3. a.hist \in Seq(Line)
      BY <2>2, <3>2 DEF TypeOK, Archive
    <3>4. OwnLines(a.hist, o)
      <4>1. Archived(t)
        BY <2>2 DEF Ownership, HubOwn
      <4> QED BY <2>1, <3>2, <4>1 DEF Archived, OwnLines, Kin
    <3>5. LinesOwn'
      BY <2>1, <2>2, <3>1, <3>3, <3>4, ResumesOwn
    <3> QED BY <2>1, <3>1, <3>5, Moves, AllKept DEF Ownership, Lookups, Holding
  <2>4. CASE ~ArchiveMatches(o, a)
    <3>1. Step(o, "archive", "index") /\ UNCHANGED full
      BY <1>8, <2>4 DEF ResumeArchive
    <3> QED BY <2>1, <3>1, Moves, AllKept DEF Ownership, Lookups, Holding
  <2> QED BY <2>3, <2>4
<1>9. CASE IndexHit(o)
  <2> DEFINE t == req[o].target
             found == {l \in Range(log[t]) : /\ req[l.by].user = req[o].user
                                             /\ req[l.by].provider = req[o].provider
                                             /\ l.seq > req[o].last}
  <2>1. Step(o, "index", "dial") /\ UNCHANGED <<req, active, hist, snap, conns, archives>>
    BY <1>9 DEF IndexHit
  <2>2. pc[o] = "index"
    BY <2>1 DEF Step
  <2>3. t \in Offers /\ req[o].user # Anonymous
    BY <1>0, <2>2 DEF Resolving, Lookups
  <2>4. PICK kept \in (SUBSET found) \ {{}} : \E lines \in Sorted(kept) :
          /\ full' = [full EXCEPT ![o] = lines]
          /\ start' = [start EXCEPT ![o] = Last(lines).seq]
          /\ Resumes(o, t, "index_hit")
    BY <1>9 DEF IndexHit
  <2>5. PICK lines \in Sorted(kept) :
          /\ full' = [full EXCEPT ![o] = lines]
          /\ start' = [start EXCEPT ![o] = Last(lines).seq]
          /\ Resumes(o, t, "index_hit")
    BY <2>4
  <2>6. lines \in Seq(Line) /\ \A k \in 1..Len(lines) : lines[k] \in found
    <3>1. log[t] \in Seq(Line) /\ found \subseteq Range(log[t])
      BY <2>3 DEF TypeOK
    <3> HIDE DEF found
    <3> QED BY <2>4, <2>5, <3>1, SortedIs
  <2>7. \A l \in Range(log[t]) : pc[l.by] # "idle"
    <3>1. log[t] \in Seq(Line) /\ Logged(t)
      BY <2>3 DEF TypeOK, Ownership, HubOwn
    <3>2. \A l \in Range(log[t]) : \E i \in 1..Len(log[t]) : l = log[t][i]
      BY <3>1 DEF Range
    <3> QED BY <3>1, <3>2 DEF Logged
  <2>8. OwnLines(lines, o)
    BY <2>2, <2>6, <2>7 DEF OwnLines, Kin
  <2>9. LinesOwn'
    <3> HIDE DEF found
    <3> QED BY <2>1, <2>2, <2>3, <2>5, <2>6, <2>8, ResumesOwn
  <2>10. log' = log
    BY <2>5 DEF Resumes
  <2> QED BY <2>1, <2>9, <2>10, Moves, AllKept DEF Ownership, Lookups, Holding
<1>10. CASE IndexMiss(o)
  <2>1. /\ Step(o, "index", "dial")
        /\ UNCHANGED <<req, active, full, hist, snap, conns, archives, log>>
    BY <1>10 DEF IndexMiss
  <2> QED BY <2>1, Moves, AllKept DEF Ownership, Lookups, Holding
<1> QED
  BY <1>1, <1>2, <1>3, <1>4, <1>5, <1>6, <1>7, <1>8, <1>9, <1>10, Zenon DEF Resolve

\* Recording, archiving and ending a session pass on its own lines.
LEMMA SessionOwned ==
  ASSUME TypeOK, Ownership, Settled, NEW o \in Offers,
         Start(o) \/ AbortReported(o) \/ Record(o) \/ Disconnect(o) \/ Teardown(o)
           \/ GoroutinesExit(o) \/ Expire(o)
  PROVE  Ownership'
<1> USE DEF offerVars, recorderVars, sessionVars, hubVars, shutVars, historyVars
<1>0. Owned(o)
  BY DEF Ownership, LinesOwn
<1>1. CASE DialFails(o)
  <2>1. /\ Step(o, "dial", "failed")
        /\ UNCHANGED <<req, active, full, hist, snap, conns, archives, log>>
    BY <1>1 DEF DialFails
  <2> QED BY <2>1, Moves, AllKept DEF Ownership, Lookups, Holding
<1>2. CASE Serve(o)
  <2>1. /\ Step(o, "dial", "added")
        /\ hist' = [hist EXCEPT ![o] = full[o]]
        /\ conns' = [conns EXCEPT ![sid[o]] = o]
        /\ UNCHANGED <<req, active, full, snap, archives, log>>
    BY <1>2 DEF Serve
  <2>2. OffersOwn'
    BY <2>1, Moves DEF Lookups, Holding
  <2>3. ASSUME NEW p \in Offers PROVE Owned(p)'
    <3>1. CASE p = o
      <4>1. hist'[o] = full'[o]
        BY <2>1 DEF TypeOK
      <4>2. OwnLines(full[o], o)'
        BY <2>1, LinesKept
      <4>3. OwnLines(hist[o], o)'
        BY <4>1, <4>2 DEF OwnLines
      <4> QED BY <2>1, <3>1, <4>3, LinesKept DEF Owned
    <3>2. CASE p # o
      <4>1. hist'[p] = hist[p]
        BY <2>1, <3>2 DEF TypeOK
      <4> QED BY <2>1, <4>1, LinesKept DEF Owned
    <3> QED BY <3>1, <3>2
  <2>4. ASSUME NEW s \in Offers PROVE Registered(s)' /\ Archived(s)' /\ Logged(s)'
    <3>1. CASE s = sid[o]
      <4>1. conns'[s] = o /\ pc'[o] = "added"
        BY <2>1, <3>1 DEF TypeOK, Step
      <4> QED BY <2>1, <4>1, HubKept DEF Registered
    <3>2. CASE s # sid[o]
      <4>1. conns'[s] = conns[s]
        BY <2>1, <3>2 DEF TypeOK
      <4> QED BY <2>1, <4>1, HubKept
    <3> QED BY <3>1, <3>2
  <2> QED BY <2>2, <2>3, <2>4 DEF Ownership, LinesOwn, HubOwn
<1>3. CASE Abort(o)
  <2>1. /\ Step(o, "dial", "failed")
        /\ UNCHANGED <<req, active, full, hist, snap, conns, archives, log>>
    BY <1>3 DEF Abort
  <2> QED BY <2>1, Moves, AllKept DEF Ownership, Lookups, Holding
<1>4. CASE Wire(o)
  <2>1. /\ Step(o, "added", "answered")
        /\ UNCHANGED <<req, active, full, hist, snap, conns, archives, log>>
    BY <1>4 DEF Wire
  <2> QED BY <2>1, Moves, AllKept DEF Ownership, Lookups, Holding
<1>5. CASE AbortReported(o)
  <2>1. UNCHANGED <<pc, req, active, full, hist, snap, conns, archives, log>>
    BY <1>5 DEF AbortReported
  <2> QED BY <2>1, AllKept DEF Ownership
<1>6. CASE Record(o)
  <2> DEFINE line == [seq |-> seq[o] + 1, by |-> o]
             more == Append(hist[o], line)
  <2>1. /\ pc[o] = "answered"
        /\ hist' = [hist EXCEPT ![o] = Newest(more)]
        /\ log' = [log EXCEPT ![sid[o]] = Append(@, line)]
        /\ UNCHANGED <<pc, req, active, full, snap, conns, archives>>
    BY <1>6 DEF Record
  <2>2. line \in Line /\ line.by = o
    BY DEF TypeOK, Line
  <2>3. hist[o] \in Seq(Line) /\ sid[o] \in Offers /\ log[sid[o]] \in Seq(Line)
    BY DEF TypeOK
  <2>4. ASSUME NEW p \in Offers PROVE Owned(p)'
    <3>1. CASE p = o
      <4>1. /\ more \in Seq(Line)
            /\ \A k \in 1..Len(more) :
                 more[k] = line \/ \E j \in 1..Len(hist[o]) : more[k] = hist[o][j]
        BY <2>2, <2>3
      <4>2. \A k \in 1..Len(more) : Kin(more[k].by, o)
        BY <1>0, <2>1, <2>2, <4>1 DEF Owned, OwnLines, Kin
      <4>3. \A k \in 1..Len(Newest(more)) : Kin(Newest(more)[k].by, o)
        <5> HIDE DEF more
        <5> QED BY <4>1, <4>2, NewestIs
      <4>4. hist'[o] = Newest(more)
        BY <2>1 DEF TypeOK
      <4>5. OwnLines(hist[o], o)'
        <5> HIDE DEF more
        <5> QED BY <2>1, <4>3, <4>4 DEF OwnLines, Kin
      <4> QED BY <2>1, <3>1, <4>5, LinesKept DEF Owned
    <3>2. CASE p # o
      <4>1. hist'[p] = hist[p]
        BY <2>1, <3>2 DEF TypeOK
      <4> QED BY <2>1, <4>1, LinesKept DEF Owned
    <3> QED BY <3>1, <3>2
  <2>5. ASSUME NEW s \in Offers PROVE Registered(s)' /\ Archived(s)' /\ Logged(s)'
    <3>1. CASE s = sid[o]
      <4>1. log'[s] = Append(log[s], line)
        BY <2>1, <3>1 DEF TypeOK
      <4>2. Logged(s)
        BY DEF Ownership, HubOwn
      <4>3. \A k \in 1..Len(Append(log[s], line)) :
              \/ Append(log[s], line)[k] = line
              \/ \E j \in 1..Len(log[s]) : Append(log[s], line)[k] = log[s][j]
        BY <2>2, <2>3, <3>1
      <4>4. Logged(s)'
        BY <2>1, <2>2, <4>1, <4>2, <4>3 DEF Logged
      <4> QED BY <2>1, <4>4, HubKept
    <3>2. CASE s # sid[o]
      <4>1. log'[s] = log[s]
        BY <2>1, <3>2 DEF TypeOK
      <4> QED BY <2>1, <4>1, HubKept
    <3> QED BY <3>1, <3>2
  <2> QED BY <2>1, <2>4, <2>5, AllKept DEF Ownership, LinesOwn, HubOwn
<1>7. CASE Disconnect(o)
  <2>1. UNCHANGED <<pc, req, active, full, hist, snap, conns, archives, log>>
    BY <1>7 DEF Disconnect
  <2> QED BY <2>1, AllKept DEF Ownership
<1>8. CASE SnapshotHistory(o)
  <2>1. /\ snap' = [snap EXCEPT ![o].hist = hist[o]]
        /\ UNCHANGED <<pc, req, active, full, hist, conns, archives, log>>
    BY <1>8 DEF SnapshotHistory, Closes
  <2>2. ASSUME NEW p \in Offers PROVE Owned(p)'
    <3>1. CASE p = o
      <4>1. snap'[o].hist = hist'[o]
        BY <2>1 DEF TypeOK
      <4>2. OwnLines(hist[o], o)'
        BY <2>1, LinesKept
      <4>3. OwnLines(snap[o].hist, o)'
        BY <4>1, <4>2 DEF OwnLines
      <4> QED BY <2>1, <3>1, <4>3, LinesKept DEF Owned
    <3>2. CASE p # o
      <4>1. snap'[p] = snap[p]
        BY <2>1, <3>2 DEF TypeOK
      <4> QED BY <2>1, <4>1, LinesKept DEF Owned
    <3> QED BY <3>1, <3>2
  <2> QED BY <2>1, <2>2, AllKept DEF Ownership, LinesOwn
<1>9. CASE SnapshotSeq(o)
  <2>1. /\ snap' = [snap EXCEPT ![o].maxSeq = seq[o]]
        /\ UNCHANGED <<pc, req, active, full, hist, conns, archives, log>>
    BY <1>9 DEF SnapshotSeq, Closes
  <2>2. \A p \in Offers : snap'[p].hist = snap[p].hist
    BY <2>1 DEF TypeOK
  <2>3. LinesOwn'
    BY <2>1, <2>2, LinesKept DEF LinesOwn, Owned
  <2> QED BY <2>1, <2>3, AllKept DEF Ownership
<1>10. CASE Delete(o)
  <2>1. /\ conns' = [conns EXCEPT ![sid[o]] = None]
        /\ UNCHANGED <<pc, req, active, full, hist, snap, archives, log>>
    BY <1>10 DEF Delete, Closes
  <2>2. \A s \in Offers : conns'[s] \in {conns[s], None}
    BY <2>1 DEF TypeOK
  <2>3. HubOwn'
    BY <2>1, <2>2, HubKept DEF HubOwn
  <2> QED BY <2>1, <2>3, AllKept DEF Ownership
<1>11. CASE Put(o)
  <2> DEFINE a == [provider |-> req[o].provider, user |-> req[o].user,
                   hist |-> snap[o].hist, maxSeq |-> snap[o].maxSeq]
  <2>1. UNCHANGED <<pc, req, active, full, hist, snap, conns, log>>
    BY <1>11 DEF Put, Closes
  <2>2. CASE snap[o].hist = <<>>
    <3>1. archives' = archives
      BY <1>11, <2>2 DEF Put
    <3> QED BY <2>1, <3>1, AllKept DEF Ownership
  <2>3. CASE snap[o].hist # <<>>
    <3>1. archives' = [archives EXCEPT ![sid[o]] = a]
      BY <1>11, <2>3 DEF Put
    <3>2. snap[o].hist \in Seq(Line) /\ snap[o].maxSeq \in Nat
      BY DEF TypeOK
    <3>3. 1 \in 1..Len(snap[o].hist)
      BY <2>3, <3>2
    <3>4. pc[o] # "idle"
      BY <1>0, <3>3 DEF Owned, OwnLines, Kin
    <3>5. req[o] \in Request
      BY <3>4 DEF Ownership, OffersOwn, Asked
    <3>6. a \in Archive
      BY <3>2, <3>5 DEF Archive, Request
    <3>7. ASSUME NEW s \in Offers PROVE Registered(s)' /\ Archived(s)' /\ Logged(s)'
      <4>1. CASE s = sid[o]
        <5>1. archives'[s] = a
          BY <3>1, <4>1 DEF TypeOK
        <5>2. \A k \in 1..Len(a.hist) : /\ pc[a.hist[k].by] # "idle"
                                        /\ req[a.hist[k].by].user = a.user
                                        /\ req[a.hist[k].by].provider = a.provider
          BY <1>0 DEF Owned, OwnLines, Kin
        <5>3. Archived(s)'
          <6> HIDE DEF a
          <6> QED BY <2>1, <3>6, <5>1, <5>2 DEF Archived
        <5> QED BY <2>1, <5>3, HubKept
      <4>2. CASE s # sid[o]
        <5>1. archives'[s] = archives[s]
          BY <3>1, <4>2 DEF TypeOK
        <5> QED BY <2>1, <5>1, HubKept
      <4> QED BY <4>1, <4>2
    <3> QED BY <2>1, <3>7, AllKept DEF Ownership, HubOwn
  <2> QED BY <2>2, <2>3
<1>12. CASE GoroutinesExit(o)
  <2>1. UNCHANGED <<pc, req, active, full, hist, snap, conns, archives, log>>
    BY <1>12 DEF GoroutinesExit
  <2> QED BY <2>1, AllKept DEF Ownership
<1>13. CASE Expire(o)
  <2>1. /\ archives' = [archives EXCEPT ![o] = None]
        /\ UNCHANGED <<pc, req, active, full, hist, snap, conns, log>>
    BY <1>13 DEF Expire
  <2>2. \A s \in Offers : archives'[s] \in {archives[s], None}
    BY <2>1 DEF TypeOK
  <2>3. HubOwn'
    BY <2>1, <2>2, HubKept DEF HubOwn
  <2> QED BY <2>1, <2>3, AllKept DEF Ownership
<1> QED
  BY <1>1, <1>2, <1>3, <1>4, <1>5, <1>6, <1>7, <1>8, <1>9, <1>10, <1>11, <1>12, <1>13, Zenon
     DEF Start, Teardown

\* The invariant holds initially: nobody has said anything.
LEMMA InitIInv == Init => IInv
<1> SUFFICES ASSUME Init PROVE IInv
  OBVIOUS
<1>1. TypeOK
  BY InitTypeOK
<1>2. OffersOwn
  BY DEF Init, OffersOwn, Asked, Resolving, Found, Lookups, Holding
<1>3. LinesOwn
  BY DEF Init, LinesOwn, Owned, OwnLines, NoSnap
<1>4. HubOwn
  BY DEF Init, HubOwn, Registered, Archived, Logged
<1> QED BY <1>1, <1>2, <1>3, <1>4 DEF IInv, Ownership

\* Every step keeps the invariant.
LEMMA NextIInv == IInv /\ [Next]_vars => IInv'
<1> SUFFICES ASSUME IInv, [Next]_vars PROVE IInv'
  OBVIOUS
<1>1. TypeOK' /\ TypeOK /\ Ownership /\ Settled
  BY NextTypes, StaysSettled DEF IInv
<1>2. CASE UNCHANGED vars
  BY <1>1, <1>2, AllKept
     DEF IInv, Ownership, vars, offerVars, sessionVars, recorderVars, hubVars, historyVars
<1>3. ASSUME Signal \/ CloseAll \/ MainReturns PROVE Ownership'
  <2>1. UNCHANGED <<pc, req, active, full, hist, snap, conns, archives, log>>
    BY <1>3 DEF Signal, CloseAll, Drained, WaitDone, CloseNext, MainReturns,
                offerVars, sessionVars, recorderVars, hubVars, historyVars
  <2> QED BY <1>1, <2>1, AllKept DEF Ownership
<1>4. CASE Next
  BY <1>1, <1>3, <1>4, ArriveOwned, ResolveOwned, SessionOwned, Zenon DEF Next, IInv
<1> QED BY <1>2, <1>4

\* The hub, its archive, the recorders and the shutdown keep the types of all
\* they hold, through every order of their steps (bridge.go, archive.go,
\* recorder.go, offer.go).
THEOREM HubTypes == Spec => []TypeOK
<1>1. IInv => TypeOK
  BY DEF IInv
<1> QED BY <1>1, InitIInv, NextIInv, PTL DEF Spec

\* Nobody resumes with lines of another user, of another provider, or of an
\* anonymous caller: the owner checks of hub.Resume, archives.resume and the
\* index hold until the lines are read, whatever happens in between.
THEOREM HubHistoryOwned == Spec => []HistoryOwned
<1>1. IInv => HistoryOwned
  <2> SUFFICES ASSUME IInv, NEW o \in Offers, NEW k \in 1..Len(full[o])
               PROVE  LET owner == req[full[o][k].by] IN
                      /\ owner.user = req[o].user
                      /\ owner.provider = req[o].provider
                      /\ owner.user # Anonymous
    BY DEF HistoryOwned
  <2>1. Owned(o)
    BY DEF IInv, Ownership, LinesOwn
  <2>2. Kin(full[o][k].by, o)
    BY <2>1 DEF Owned, OwnLines
  <2>3. full[o] # <<>>
    OBVIOUS
  <2> QED BY <2>1, <2>2, <2>3 DEF Owned, Kin
<1> QED BY <1>1, InitIInv, NextIInv, PTL DEF Spec

----------------------------------------------------------------------------
(* The newest lines                                                        *)

\* What the newest lines are, one by one.
LEMMA NewestElements ==
  ASSUME NEW S, NEW h \in Seq(S)
  PROVE  /\ Newest(h) \in Seq(S)
         /\ Len(h) <= HistLimit => Newest(h) = h
         /\ Len(h) >= HistLimit => /\ Len(Newest(h)) = HistLimit
                                   /\ \A k \in 1..HistLimit : Newest(h)[k] = h[Len(h) - HistLimit + k]
<1>0. HistLimit \in Nat \ {0} /\ Len(h) \in Nat
  BY HubAssumption
<1>1. CASE Len(h) <= HistLimit
  <2>1. Newest(h) = h
    BY <1>1 DEF Newest
  <2>2. Len(h) >= HistLimit => Len(h) = HistLimit
    BY <1>0, <1>1
  <2>3. \A k \in 1..Len(h) : Len(h) - Len(h) + k = k
    BY <1>0
  <2> QED BY <2>1, <2>2, <2>3
<1>2. CASE ~(Len(h) <= HistLimit)
  <2> DEFINE from == Len(h) - HistLimit + 1
  <2>1. from \in 1..Len(h) /\ Len(h) - from + 1 = HistLimit
    BY <1>0, <1>2
  <2>2. Newest(h) = SubSeq(h, from, Len(h))
    BY <1>2 DEF Newest
  <2>3. /\ SubSeq(h, from, Len(h)) \in Seq(S)
        /\ Len(SubSeq(h, from, Len(h))) = HistLimit
        /\ \A k \in 1..HistLimit : SubSeq(h, from, Len(h))[k] = h[from + k - 1]
    <3> HIDE DEF from
    <3> QED BY <1>0, <2>1
  <2>4. \A k \in 1..HistLimit : from + k - 1 = Len(h) - HistLimit + k
    BY <1>0
  <2> QED BY <1>2, <2>2, <2>3, <2>4
<1> QED BY <1>1, <1>2

\* The newest of the newest lines are the newest lines.
LEMMA NewestTwice ==
  ASSUME NEW S, NEW h \in Seq(S)
  PROVE  Newest(Newest(h)) = Newest(h)
<1>0. HistLimit \in Nat \ {0} /\ Len(h) \in Nat
  BY HubAssumption
<1>1. Newest(h) \in Seq(S) /\ Len(Newest(h)) <= HistLimit
  BY <1>0, NewestElements
<1> QED BY <1>1, NewestElements

\* There is a newest line if there is one.
LEMMA NewestEmpty ==
  ASSUME NEW S, NEW h \in Seq(S)
  PROVE  Newest(h) = <<>> <=> h = <<>>
<1>0. HistLimit \in Nat \ {0} /\ Len(h) \in Nat
  BY HubAssumption
<1>1. CASE Len(h) <= HistLimit
  BY <1>1, NewestElements
<1>2. CASE ~(Len(h) <= HistLimit)
  <2>1. Len(Newest(h)) = HistLimit
    BY <1>0, <1>2, NewestElements
  <2> QED BY <1>0, <1>2, <2>1
<1> QED BY <1>1, <1>2

\* A recorder that has the newest lines of a log still has them when both grow.
LEMMA NewestGrows ==
  ASSUME NEW S, NEW h \in Seq(S), NEW g \in Seq(S), NEW x \in S, Newest(h) = Newest(g)
  PROVE  Newest(Append(h, x)) = Newest(Append(g, x))
<1>0. HistLimit \in Nat \ {0} /\ Len(h) \in Nat /\ Len(g) \in Nat
  BY HubAssumption
<1>1. CASE Len(h) < HistLimit \/ Len(g) < HistLimit
  <2>1. h = g
    BY <1>0, <1>1, NewestElements
  <2> QED BY <2>1
<1>2. CASE Len(h) >= HistLimit /\ Len(g) >= HistLimit
  <2> DEFINE a == Append(h, x)
             b == Append(g, x)
  <2>1. /\ a \in Seq(S) /\ Len(a) = Len(h) + 1 /\ a[Len(h) + 1] = x
        /\ \A k \in 1..Len(h) : a[k] = h[k]
        /\ b \in Seq(S) /\ Len(b) = Len(g) + 1 /\ b[Len(g) + 1] = x
        /\ \A k \in 1..Len(g) : b[k] = g[k]
    OBVIOUS
  <2> HIDE DEF a, b
  <2>2. /\ Len(Newest(a)) = HistLimit /\ Len(Newest(b)) = HistLimit
        /\ Newest(a) \in Seq(S) /\ Newest(b) \in Seq(S)
        /\ \A k \in 1..HistLimit : Newest(a)[k] = a[Len(a) - HistLimit + k]
        /\ \A k \in 1..HistLimit : Newest(b)[k] = b[Len(b) - HistLimit + k]
    <3>1. Len(a) >= HistLimit /\ Len(b) >= HistLimit
      BY <1>0, <1>2, <2>1
    <3> QED BY <2>1, <3>1, NewestElements
  <2>3. ASSUME NEW k \in 1..HistLimit PROVE Newest(a)[k] = Newest(b)[k]
    <3>1. CASE k = HistLimit
      <4>1. Len(a) - HistLimit + k = Len(h) + 1 /\ Len(b) - HistLimit + k = Len(g) + 1
        BY <1>0, <2>1, <3>1
      <4> QED BY <2>1, <2>2, <4>1
    <3>2. CASE k # HistLimit
      <4>1. /\ Len(a) - HistLimit + k = Len(h) - HistLimit + (k + 1)
            /\ Len(b) - HistLimit + k = Len(g) - HistLimit + (k + 1)
            /\ k + 1 \in 1..HistLimit
            /\ Len(h) - HistLimit + (k + 1) \in 1..Len(h)
            /\ Len(g) - HistLimit + (k + 1) \in 1..Len(g)
        <5>1. ASSUME NEW n \in Nat, n >= HistLimit
              PROVE  /\ (n + 1) - HistLimit + k = n - HistLimit + (k + 1)
                     /\ k + 1 \in 1..HistLimit
                     /\ n - HistLimit + (k + 1) \in 1..n
          BY <1>0, <3>2, <5>1
        <5>2. /\ (Len(h) + 1) - HistLimit + k = Len(h) - HistLimit + (k + 1)
              /\ Len(h) - HistLimit + (k + 1) \in 1..Len(h)
          BY <1>0, <1>2, <5>1
        <5>3. /\ (Len(g) + 1) - HistLimit + k = Len(g) - HistLimit + (k + 1)
              /\ Len(g) - HistLimit + (k + 1) \in 1..Len(g)
          BY <1>0, <1>2, <5>1
        <5> QED BY <1>0, <2>1, <5>1, <5>2, <5>3
      <4>2. /\ Newest(h)[k + 1] = h[Len(h) - HistLimit + (k + 1)]
            /\ Newest(g)[k + 1] = g[Len(g) - HistLimit + (k + 1)]
        BY <1>2, <4>1, NewestElements
      <4> QED BY <2>1, <2>2, <4>1, <4>2
    <3> QED BY <3>1, <3>2
  <2>4. Newest(a) = Newest(b)
    BY <2>2, <2>3, SeqEqual
  <2> QED BY <2>4 DEF a, b
<1> QED BY <1>0, <1>1, <1>2

----------------------------------------------------------------------------
(* One session after the other                                             *)

\* The session was registered.
Served(o) == pc[o] \in {"added", "answered"}

\* A fresh id that a client was given.
KnownId(s) == s \in Offers /\ pc[s] = "answered" /\ sid[s] = s

\* A recorder with these lines, at this seq, has all that was said under the id.
Caught(lines, n, s) == Newest(lines) = Newest(log[s]) /\ n = Len(log[s])

\* The look-ups before a session is held, and before its history is read.
Searching == {"idle", "state", "state_archive", "resume", "archive", "index"}

\* What an offer has, by where it is.
InPhase(o) ==
  /\ closing[o] \in {"hist", "seq", "delete", "put"} => pc[o] = "answered"
  /\ closing[o] = "closed" => pc[o] \in {"answered", "failed"}
  /\ wired[o] => pc[o] = "answered"
  /\ pc[o] = "takeover" => active[o].cleanup
  /\ pc[o] \in Holding /\ active[o].cleanup => wired[active[o].session]
  /\ pc[o] \in Searching => active[o] = NoSession
  /\ pc[o] \in Searching \cup {"history"} => full[o] = <<>>
  /\ pc[o] \in Searching \cup {"history", "seq"} => start[o] = 0
  /\ pc[o] \in Searching \cup Holding => sid[o] = o
InPhases == \A o \in Offers : InPhase(o)

\* Ids that are resumed or asked for are known ones.
Minted ==
  \A o \in Offers :
    /\ pc[o] # "idle" /\ req[o].target # None => KnownId(req[o].target)
    /\ sid[o] # o => KnownId(sid[o])

\* Only ids with a session have lines.
Spoken == \A s \in Offers : log[s] # <<>> => KnownId(s)

\* Who is registered under an id has it, and is not removed yet.
Named ==
  \A s \in Offers : conns[s] # None =>
    /\ sid[conns[s]] = s
    /\ Served(conns[s])
    /\ closing[conns[s]] \in {"no", "hist", "seq", "delete"}

\* An id is held by one at a time ...
Serial ==
  \A o, p \in Offers : o # p /\ sid[o] = sid[p] /\ sid[o] \notin contested => ~(Live(o) /\ Live(p))

\* ... and by none but the session that an offer has found to take over.
HeldAlone ==
  \A o \in Offers : pc[o] \in Holding =>
    /\ sid[active[o].session] = req[o].target
    /\ Served(active[o].session)
    /\ req[o].target \notin contested =>
         \A p \in Offers : p # active[o].session /\ sid[p] = req[o].target => ~Live(p)

\* A session that is not removed is the one registered.
Enrolled ==
  \A o \in Offers :
    Served(o) /\ closing[o] \in {"no", "hist", "seq", "delete"} /\ sid[o] \notin contested
      => conns[sid[o]] = o

\* A session starts with all that was said ...
StartsCaught ==
  \A o \in Offers : pc[o] \in {"dial", "added"} /\ Clean(sid[o]) => Caught(full[o], start[o], sid[o])

\* ... and its recorder keeps up until it is closed.
RecorderCaught ==
  \A o \in Offers : Served(o) /\ Live(o) /\ Clean(sid[o]) => Caught(hist[o], seq[o], sid[o])

\* So has the recorder of a session that is taken over, and what was read of it.
HeldCaught ==
  \A o \in Offers : pc[o] \in Holding /\ Clean(req[o].target) =>
    /\ Caught(hist[active[o].session], seq[active[o].session], req[o].target)
    /\ pc[o] # "history" => Newest(full[o]) = Newest(log[req[o].target])
    /\ pc[o] \in {"takeover", "owned"} => start[o] = Len(log[req[o].target])

\* So has what is read to be archived ...
SnapCaught ==
  \A o \in Offers : Clean(sid[o]) =>
    /\ closing[o] \in {"seq", "delete", "put"} => Newest(snap[o].hist) = Newest(log[sid[o]])
    /\ closing[o] \in {"delete", "put"} => snap[o].maxSeq = Len(log[sid[o]])

\* ... and an archive, when no session of its id is left.
ArchiveCaught ==
  \A s \in Offers : archives[s] # None /\ Clean(s) =>
    /\ log[s] # <<>>
    /\ (\A p \in Offers : sid[p] = s /\ Served(p) => closing[p] = "closed")
         => Caught(archives[s].hist, archives[s].maxSeq, s)

InTurn == Minted /\ Named /\ Serial /\ HeldAlone /\ Enrolled
AllCaught == StartsCaught /\ RecorderCaught /\ HeldCaught /\ SnapCaught /\ ArchiveCaught
HubInv == InPhases /\ InTurn /\ Spoken /\ AllCaught /\ SeqsOnce /\ FoundUntilExpiry

\* The parts of the invariant, one by one.
HubParts ==
  /\ InPhases /\ Minted /\ Spoken /\ Named /\ Serial /\ HeldAlone /\ Enrolled
  /\ StartsCaught /\ RecorderCaught /\ HeldCaught /\ SnapCaught /\ ArchiveCaught
  /\ SeqsOnce /\ FoundUntilExpiry

\* What the types and the owners say of the ids that steps are about.
HubSound ==
  /\ None \notin Offers
  /\ \A p \in Offers : sid[p] \in Offers
  /\ \A p \in Offers : closing[p] \in {"no", "hist", "seq", "delete", "put", "closed"}
  /\ \A p \in Offers : pc[p] \in Places
  /\ \A p \in Offers : conns[p] # None => conns[p] \in Offers
  /\ \A p \in Offers : pc[p] \in Holding => active[p].session \in Offers /\ req[p].target \in Offers
  /\ \A p \in Offers : pc[p] \in Lookups => req[p].target \in Offers
  /\ NoSession.session = None

Steady == TypeOK /\ Ownership /\ HubInv

\* What every step starts from.
LEMMA SteadyParts ==
  ASSUME Steady
  PROVE  HubParts /\ HubSound
<1>1. HubParts
  BY Zenon DEF Steady, HubInv, InTurn, AllCaught, HubParts
<1>2. HubSound
  BY NoneAssumption DEF Steady, TypeOK, Ownership, OffersOwn, HubOwn, Resolving, Found, Registered, HubSound,
     Places, Holding, Lookups, NoSession
<1> QED BY <1>1, <1>2

\* Steps that leave the sessions alone.
LEMMA Idles ==
  ASSUME Steady,
         UNCHANGED <<pc, req, sid, active, full, start, hist, seq, closing, snap, wired, conns, archives, log, contested, tainted, lapsed>>
  PROVE  HubInv'
<1>0. HubParts /\ HubSound
  BY SteadyParts
<1>1. InPhases'
  BY <1>0 DEF HubParts, InPhases, InPhase, Searching, Holding
<1>2. Minted'
  BY <1>0 DEF HubParts, Minted, KnownId
<1>3. Spoken'
  BY <1>0 DEF HubParts, Spoken, KnownId
<1>4. Named'
  BY <1>0 DEF HubParts, Named, Served, HubSound
<1>5. Serial'
  BY <1>0 DEF HubParts, Serial, Live
<1>6. HeldAlone'
  BY <1>0 DEF HubParts, HeldAlone, Holding, Served, Live, HubSound
<1>7. Enrolled'
  BY <1>0 DEF HubParts, Enrolled, Served
<1>8. StartsCaught'
  BY <1>0 DEF HubParts, StartsCaught, Clean, Caught
<1>9. RecorderCaught'
  BY <1>0 DEF HubParts, RecorderCaught, Served, Live, Clean, Caught
<1>10. HeldCaught'
  BY <1>0 DEF HubParts, HeldCaught, Holding, Clean, Caught, HubSound
<1>11. SnapCaught'
  BY <1>0 DEF HubParts, SnapCaught, Clean
<1>12. ArchiveCaught'
  BY <1>0 DEF HubParts, ArchiveCaught, Clean, Served, Caught
<1>13. SeqsOnce'
  BY <1>0 DEF HubParts, SeqsOnce
<1>14. FoundUntilExpiry'
  BY <1>0 DEF HubParts, FoundUntilExpiry
<1> QED BY <1>1, <1>2, <1>3, <1>4, <1>5, <1>6, <1>7, <1>8, <1>9, <1>10, <1>11, <1>12, <1>13, <1>14, Zenon DEF HubInv, InTurn, AllCaught

\* An offer arrives or looks on, and is refused or goes on with a fresh id.
LEMMA Searches ==
  ASSUME Steady, NEW o \in Offers,
         pc[o] \in Searching,
         pc'[o] \in (Searching \cup {"refused", "dial"}) \ {"idle"},
         \A p \in Offers \ {o} : pc'[p] = pc[p] /\ req'[p] = req[p],
         req'[o].target # None => KnownId(req'[o].target),
         UNCHANGED <<sid, active, full, start, hist, seq, closing, snap, wired, conns, archives, log, contested, tainted, lapsed>>
  PROVE  HubInv'
<1>0. HubParts /\ HubSound
  BY SteadyParts
<1>1. InPhases'
  BY <1>0 DEF HubParts, InPhases, InPhase, Searching, Holding
<1>2. Minted'
  BY <1>0 DEF HubParts, Minted, KnownId, Searching
<1>3. Spoken'
  BY <1>0 DEF HubParts, Spoken, KnownId, Searching
<1>4. Named'
  BY <1>0 DEF HubParts, Named, Served, HubSound, Searching
<1>5. Serial'
  BY <1>0 DEF HubParts, Serial, Live, Searching, Minted, KnownId, InPhases, InPhase, HubSound
<1>6. HeldAlone'
  BY <1>0 DEF HubParts, HeldAlone, Holding, Served, Live, HubSound, Searching, Minted, KnownId, InPhases, InPhase
<1>7. Enrolled'
  BY <1>0 DEF HubParts, Enrolled, Served, Searching
<1>8. StartsCaught'
  BY <1>0 DEF HubParts, StartsCaught, Clean, Caught, Searching, InPhases, InPhase, Spoken, KnownId, HubSound
<1>9. RecorderCaught'
  BY <1>0 DEF HubParts, RecorderCaught, Served, Live, Clean, Caught, Searching
<1>10. HeldCaught'
  BY <1>0 DEF HubParts, HeldCaught, Holding, Clean, Caught, HubSound, Searching
<1>11. SnapCaught'
  BY <1>0 DEF HubParts, SnapCaught, Clean
<1>12. ArchiveCaught'
  BY <1>0 DEF HubParts, ArchiveCaught, Clean, Served, Caught, Searching
<1>13. SeqsOnce'
  BY <1>0 DEF HubParts, SeqsOnce
<1>14. FoundUntilExpiry'
  BY <1>0 DEF HubParts, FoundUntilExpiry
<1> QED BY <1>1, <1>2, <1>3, <1>4, <1>5, <1>6, <1>7, <1>8, <1>9, <1>10, <1>11, <1>12, <1>13, <1>14, Zenon DEF HubInv, InTurn, AllCaught

\* An offer finds the live session of the id it asks for.
LEMMA Finds ==
  ASSUME Steady, NEW o \in Offers, NEW c \in Offers,
         pc[o] = "resume",
         pc'[o] = "history",
         conns[req[o].target] = c,
         active'[o] = [session |-> c, cleanup |-> wired[c]],
         \A p \in Offers \ {o} : pc'[p] = pc[p] /\ active'[p] = active[p],
         UNCHANGED <<req, sid, full, start, hist, seq, closing, snap, wired, conns, archives, log, contested, tainted, lapsed>>
  PROVE  HubInv'
<1>0. HubParts /\ HubSound
  BY SteadyParts
<1>1. InPhases'
  BY <1>0 DEF HubParts, InPhases, InPhase, Searching, Holding, HubSound, Lookups
<1>2. Minted'
  BY <1>0 DEF HubParts, Minted, KnownId
<1>3. Spoken'
  BY <1>0 DEF HubParts, Spoken, KnownId
<1>4. Named'
  BY <1>0 DEF HubParts, Named, Served, HubSound
<1>5. Serial'
  BY <1>0 DEF HubParts, Serial, Live
<1>6. HeldAlone'
  BY <1>0 DEF HubParts, HeldAlone, Holding, Served, Live, HubSound, Named, Serial, Lookups
<1>7. Enrolled'
  BY <1>0 DEF HubParts, Enrolled, Served
<1>8. StartsCaught'
  BY <1>0 DEF HubParts, StartsCaught, Clean, Caught
<1>9. RecorderCaught'
  BY <1>0 DEF HubParts, RecorderCaught, Served, Live, Clean, Caught
<1>10. HeldCaught'
  BY <1>0 DEF HubParts, HeldCaught, Holding, Clean, Caught, HubSound, Named, Served, RecorderCaught, Live, Lookups
<1>11. SnapCaught'
  BY <1>0 DEF HubParts, SnapCaught, Clean
<1>12. ArchiveCaught'
  BY <1>0 DEF HubParts, ArchiveCaught, Clean, Served, Caught
<1>13. SeqsOnce'
  BY <1>0 DEF HubParts, SeqsOnce
<1>14. FoundUntilExpiry'
  BY <1>0 DEF HubParts, FoundUntilExpiry
<1> QED BY <1>1, <1>2, <1>3, <1>4, <1>5, <1>6, <1>7, <1>8, <1>9, <1>10, <1>11, <1>12, <1>13, <1>14, Zenon DEF HubInv, InTurn, AllCaught

\* An offer reads the history of the session it has found.
LEMMA ReadsHistory ==
  ASSUME Steady, NEW o \in Offers,
         pc[o] = "history",
         pc'[o] = "seq",
         full'[o] = hist[active[o].session],
         \A p \in Offers \ {o} : pc'[p] = pc[p] /\ full'[p] = full[p],
         UNCHANGED <<req, sid, active, start, hist, seq, closing, snap, wired, conns, archives, log, contested, tainted, lapsed>>
  PROVE  HubInv'
<1>0. HubParts /\ HubSound
  BY SteadyParts
<1>1. InPhases'
  BY <1>0 DEF HubParts, InPhases, InPhase, Searching, Holding
<1>2. Minted'
  BY <1>0 DEF HubParts, Minted, KnownId
<1>3. Spoken'
  BY <1>0 DEF HubParts, Spoken, KnownId
<1>4. Named'
  BY <1>0 DEF HubParts, Named, Served, HubSound
<1>5. Serial'
  BY <1>0 DEF HubParts, Serial, Live
<1>6. HeldAlone'
  BY <1>0 DEF HubParts, HeldAlone, Holding, Served, Live, HubSound
<1>7. Enrolled'
  BY <1>0 DEF HubParts, Enrolled, Served
<1>8. StartsCaught'
  BY <1>0 DEF HubParts, StartsCaught, Clean, Caught
<1>9. RecorderCaught'
  BY <1>0 DEF HubParts, RecorderCaught, Served, Live, Clean, Caught
<1>10. HeldCaught'
  BY <1>0 DEF HubParts, HeldCaught, Holding, Clean, Caught, HubSound
<1>11. SnapCaught'
  BY <1>0 DEF HubParts, SnapCaught, Clean
<1>12. ArchiveCaught'
  BY <1>0 DEF HubParts, ArchiveCaught, Clean, Served, Caught
<1>13. SeqsOnce'
  BY <1>0 DEF HubParts, SeqsOnce
<1>14. FoundUntilExpiry'
  BY <1>0 DEF HubParts, FoundUntilExpiry
<1> QED BY <1>1, <1>2, <1>3, <1>4, <1>5, <1>6, <1>7, <1>8, <1>9, <1>10, <1>11, <1>12, <1>13, <1>14, Zenon DEF HubInv, InTurn, AllCaught

\* An offer reads the seq of the session it has found.
LEMMA ReadsSeq ==
  ASSUME Steady, NEW o \in Offers,
         pc[o] = "seq",
         pc'[o] = IF active[o].cleanup THEN "takeover" ELSE "owned",
         start'[o] = seq[active[o].session],
         \A p \in Offers \ {o} : pc'[p] = pc[p] /\ start'[p] = start[p],
         UNCHANGED <<req, sid, active, full, hist, seq, closing, snap, wired, conns, archives, log, contested, tainted, lapsed>>
  PROVE  HubInv'
<1>0. HubParts /\ HubSound
  BY SteadyParts
<1>1. InPhases'
  BY <1>0 DEF HubParts, InPhases, InPhase, Searching, Holding
<1>2. Minted'
  BY <1>0 DEF HubParts, Minted, KnownId
<1>3. Spoken'
  BY <1>0 DEF HubParts, Spoken, KnownId
<1>4. Named'
  BY <1>0 DEF HubParts, Named, Served, HubSound
<1>5. Serial'
  BY <1>0 DEF HubParts, Serial, Live
<1>6. HeldAlone'
  BY <1>0 DEF HubParts, HeldAlone, Holding, Served, Live, HubSound
<1>7. Enrolled'
  BY <1>0 DEF HubParts, Enrolled, Served
<1>8. StartsCaught'
  BY <1>0 DEF HubParts, StartsCaught, Clean, Caught
<1>9. RecorderCaught'
  BY <1>0 DEF HubParts, RecorderCaught, Served, Live, Clean, Caught
<1>10. HeldCaught'
  BY <1>0 DEF HubParts, HeldCaught, Holding, Clean, Caught, HubSound
<1>11. SnapCaught'
  BY <1>0 DEF HubParts, SnapCaught, Clean
<1>12. ArchiveCaught'
  BY <1>0 DEF HubParts, ArchiveCaught, Clean, Served, Caught
<1>13. SeqsOnce'
  BY <1>0 DEF HubParts, SeqsOnce
<1>14. FoundUntilExpiry'
  BY <1>0 DEF HubParts, FoundUntilExpiry
<1> QED BY <1>1, <1>2, <1>3, <1>4, <1>5, <1>6, <1>7, <1>8, <1>9, <1>10, <1>11, <1>12, <1>13, <1>14, Zenon DEF HubInv, InTurn, AllCaught

\* The Close of a session begins, or has begun before.
LEMMA CloseBegins ==
  ASSUME Steady, NEW c \in Offers,
         pc[c] = "answered",
         (closing'[c] = closing[c]) \/ (closing[c] = "no" /\ closing'[c] = "hist"),
         \A p \in Offers \ {c} : closing'[p] = closing[p],
         \A p \in Offers : (pc'[p] = pc[p]) \/ (pc[p] = "takeover" /\ pc'[p] = "owned"),
         UNCHANGED <<req, sid, active, full, start, hist, seq, snap, wired, conns, archives, log, contested, tainted, lapsed>>
  PROVE  HubInv'
<1>0. HubParts /\ HubSound
  BY SteadyParts
<1>1. InPhases'
  BY <1>0 DEF HubParts, InPhases, InPhase, Searching, Holding
<1>2. Minted'
  BY <1>0 DEF HubParts, Minted, KnownId
<1>3. Spoken'
  BY <1>0 DEF HubParts, Spoken, KnownId
<1>4. Named'
  BY <1>0 DEF HubParts, Named, Served, HubSound
<1>5. Serial'
  BY <1>0 DEF HubParts, Serial, Live
<1>6. HeldAlone'
  BY <1>0 DEF HubParts, HeldAlone, Holding, Served, Live, HubSound
<1>7. Enrolled'
  BY <1>0 DEF HubParts, Enrolled, Served
<1>8. StartsCaught'
  BY <1>0 DEF HubParts, StartsCaught, Clean, Caught
<1>9. RecorderCaught'
  BY <1>0 DEF HubParts, RecorderCaught, Served, Live, Clean, Caught
<1>10. HeldCaught'
  BY <1>0 DEF HubParts, HeldCaught, Holding, Clean, Caught, HubSound
<1>11. SnapCaught'
  BY <1>0 DEF HubParts, SnapCaught, Clean
<1>12. ArchiveCaught'
  BY <1>0 DEF HubParts, ArchiveCaught, Clean, Served, Caught
<1>13. SeqsOnce'
  BY <1>0 DEF HubParts, SeqsOnce
<1>14. FoundUntilExpiry'
  BY <1>0 DEF HubParts, FoundUntilExpiry
<1> QED BY <1>1, <1>2, <1>3, <1>4, <1>5, <1>6, <1>7, <1>8, <1>9, <1>10, <1>11, <1>12, <1>13, <1>14, Zenon DEF HubInv, InTurn, AllCaught

\* An offer resumes the id it asks for.
LEMMA Resumed ==
  ASSUME Steady, NEW o \in Offers, NEW t \in Offers,
         pc[o] \in {"owned", "archive", "index"},
         pc'[o] = "dial",
         t = req[o].target,
         sid'[o] = t,
         contested \subseteq contested',
         tainted \subseteq tainted',
         t \notin contested' => \A p \in Offers \ {o} : sid[p] = t => ~Live(p),
         t \notin contested' => \A p \in Offers \ {o} : pc[p] \in Holding => req[p].target # t,
         Clean(t)' => Caught(full'[o], start'[o], t),
         \A p \in Offers \ {o} : pc'[p] = pc[p] /\ sid'[p] = sid[p] /\ full'[p] = full[p] /\ start'[p] = start[p],
         UNCHANGED <<req, active, hist, seq, closing, snap, wired, conns, archives, log, lapsed>>
  PROVE  HubInv'
<1>0. HubParts /\ HubSound
  BY SteadyParts
<1>1. InPhases'
  BY <1>0 DEF HubParts, InPhases, InPhase, Searching, Holding
<1>2. Minted'
  BY <1>0 DEF HubParts, Minted, KnownId, HubSound
<1>3. Spoken'
  BY <1>0 DEF HubParts, Spoken, KnownId
<1>4. Named'
  BY <1>0 DEF HubParts, Named, Served, HubSound
<1>5. Serial'
  BY <1>0 DEF HubParts, Serial, Live
<1>6. HeldAlone'
  BY <1>0 DEF HubParts, HeldAlone, Holding, Served, Live, HubSound
<1>7. Enrolled'
  BY <1>0 DEF HubParts, Enrolled, Served
<1>8. StartsCaught'
  BY <1>0 DEF HubParts, StartsCaught, Clean, Caught
<1>9. RecorderCaught'
  BY <1>0 DEF HubParts, RecorderCaught, Served, Live, Clean, Caught
<1>10. HeldCaught'
  BY <1>0 DEF HubParts, HeldCaught, Holding, Clean, Caught, HubSound
<1>11. SnapCaught'
  BY <1>0 DEF HubParts, SnapCaught, Clean, InPhases, InPhase
<1>12. ArchiveCaught'
  BY <1>0 DEF HubParts, ArchiveCaught, Clean, Served, Caught
<1>13. SeqsOnce'
  BY <1>0 DEF HubParts, SeqsOnce
<1>14. FoundUntilExpiry'
  BY <1>0 DEF HubParts, FoundUntilExpiry, InPhases, InPhase, HubSound
<1> QED BY <1>1, <1>2, <1>3, <1>4, <1>5, <1>6, <1>7, <1>8, <1>9, <1>10, <1>11, <1>12, <1>13, <1>14, Zenon DEF HubInv, InTurn, AllCaught

\* The dial fails, or the negotiation, and what was built is closed.
LEMMA Fails ==
  ASSUME Steady, NEW o \in Offers,
         pc[o] = "dial",
         pc'[o] = "failed",
         closing'[o] \in {closing[o], "closed"},
         \A p \in Offers \ {o} : pc'[p] = pc[p] /\ closing'[p] = closing[p],
         UNCHANGED <<req, sid, active, full, start, hist, seq, snap, wired, conns, archives, log, contested, tainted, lapsed>>
  PROVE  HubInv'
<1>0. HubParts /\ HubSound
  BY SteadyParts
<1>1. InPhases'
  BY <1>0 DEF HubParts, InPhases, InPhase, Searching, Holding
<1>2. Minted'
  BY <1>0 DEF HubParts, Minted, KnownId
<1>3. Spoken'
  BY <1>0 DEF HubParts, Spoken, KnownId
<1>4. Named'
  BY <1>0 DEF HubParts, Named, Served, HubSound
<1>5. Serial'
  BY <1>0 DEF HubParts, Serial, Live
<1>6. HeldAlone'
  BY <1>0 DEF HubParts, HeldAlone, Holding, Served, Live, HubSound
<1>7. Enrolled'
  BY <1>0 DEF HubParts, Enrolled, Served
<1>8. StartsCaught'
  BY <1>0 DEF HubParts, StartsCaught, Clean, Caught
<1>9. RecorderCaught'
  BY <1>0 DEF HubParts, RecorderCaught, Served, Live, Clean, Caught
<1>10. HeldCaught'
  BY <1>0 DEF HubParts, HeldCaught, Holding, Clean, Caught, HubSound
<1>11. SnapCaught'
  BY <1>0 DEF HubParts, SnapCaught, Clean
<1>12. ArchiveCaught'
  BY <1>0 DEF HubParts, ArchiveCaught, Clean, Served, Caught
<1>13. SeqsOnce'
  BY <1>0 DEF HubParts, SeqsOnce
<1>14. FoundUntilExpiry'
  BY <1>0 DEF HubParts, FoundUntilExpiry, InPhases, InPhase
<1> QED BY <1>1, <1>2, <1>3, <1>4, <1>5, <1>6, <1>7, <1>8, <1>9, <1>10, <1>11, <1>12, <1>13, <1>14, Zenon DEF HubInv, InTurn, AllCaught

\* A session starts with what its offer resumes, and is registered.
LEMMA Serves ==
  ASSUME Steady, NEW o \in Offers,
         pc[o] = "dial",
         pc'[o] = "added",
         hist'[o] = full[o],
         seq'[o] = start[o],
         conns'[sid[o]] = o,
         \A s \in Offers \ {sid[o]} : conns'[s] = conns[s],
         \A p \in Offers \ {o} : pc'[p] = pc[p] /\ hist'[p] = hist[p] /\ seq'[p] = seq[p],
         UNCHANGED <<req, sid, active, full, start, closing, snap, wired, archives, log, contested, tainted, lapsed>>
  PROVE  HubInv'
<1>0. HubParts /\ HubSound
  BY SteadyParts
<1>1. InPhases'
  BY <1>0 DEF HubParts, InPhases, InPhase, Searching, Holding
<1>2. Minted'
  BY <1>0 DEF HubParts, Minted, KnownId
<1>3. Spoken'
  BY <1>0 DEF HubParts, Spoken, KnownId
<1>4. Named'
  BY <1>0 DEF HubParts, Named, Served, HubSound, InPhases, InPhase
<1>5. Serial'
  BY <1>0 DEF HubParts, Serial, Live
<1>6. HeldAlone'
  BY <1>0 DEF HubParts, HeldAlone, Holding, Served, Live, HubSound
<1>7. Enrolled'
  <2> SUFFICES ASSUME NEW p \in Offers, Served(p)', closing[p] \in {"no", "hist", "seq", "delete"}, sid[p] \notin contested
               PROVE  conns'[sid[p]] = p
    BY DEF Enrolled
  <2>1. CASE p = o
    BY <2>1
  <2>2. CASE p # o
    <3>1. Served(p) /\ Live(p)
      BY <2>2 DEF Served, Live
    <3>2. Live(o)
      BY <1>0 DEF HubParts, InPhases, InPhase, Live
    <3>3. sid[p] # sid[o]
      BY <1>0, <2>2, <3>1, <3>2 DEF HubParts, Serial
    <3>4. conns[sid[p]] = p
      BY <1>0, <3>1 DEF HubParts, Enrolled
    <3> QED BY <1>0, <3>3, <3>4 DEF HubSound
  <2> QED BY <2>1, <2>2
<1>8. StartsCaught'
  BY <1>0 DEF HubParts, StartsCaught, Clean, Caught
<1>9. RecorderCaught'
  BY <1>0 DEF HubParts, RecorderCaught, Served, Live, Clean, Caught, StartsCaught
<1>10. HeldCaught'
  BY <1>0 DEF HubParts, HeldCaught, Holding, Clean, Caught, HubSound, HeldAlone, Served
<1>11. SnapCaught'
  BY <1>0 DEF HubParts, SnapCaught, Clean
<1>12. ArchiveCaught'
  BY <1>0 DEF HubParts, ArchiveCaught, Clean, Served, Caught
<1>13. SeqsOnce'
  BY <1>0 DEF HubParts, SeqsOnce
<1>14. FoundUntilExpiry'
  BY <1>0 DEF HubParts, FoundUntilExpiry, HubSound
<1> QED BY <1>1, <1>2, <1>3, <1>4, <1>5, <1>6, <1>7, <1>8, <1>9, <1>10, <1>11, <1>12, <1>13, <1>14, Zenon DEF HubInv, InTurn, AllCaught

\* A session is answered.
LEMMA Wires ==
  ASSUME Steady, NEW o \in Offers,
         pc[o] = "added",
         pc'[o] = "answered",
         wired'[o],
         \A p \in Offers \ {o} : pc'[p] = pc[p] /\ wired'[p] = wired[p],
         UNCHANGED <<req, sid, active, full, start, hist, seq, closing, snap, conns, archives, log, contested, tainted, lapsed>>
  PROVE  HubInv'
<1>0. HubParts /\ HubSound
  BY SteadyParts
<1>1. InPhases'
  BY <1>0 DEF HubParts, InPhases, InPhase, Searching, Holding, HubSound
<1>2. Minted'
  BY <1>0 DEF HubParts, Minted, KnownId
<1>3. Spoken'
  BY <1>0 DEF HubParts, Spoken, KnownId
<1>4. Named'
  BY <1>0 DEF HubParts, Named, Served, HubSound
<1>5. Serial'
  BY <1>0 DEF HubParts, Serial, Live
<1>6. HeldAlone'
  BY <1>0 DEF HubParts, HeldAlone, Holding, Served, Live, HubSound
<1>7. Enrolled'
  BY <1>0 DEF HubParts, Enrolled, Served
<1>8. StartsCaught'
  BY <1>0 DEF HubParts, StartsCaught, Clean, Caught
<1>9. RecorderCaught'
  BY <1>0 DEF HubParts, RecorderCaught, Served, Live, Clean, Caught
<1>10. HeldCaught'
  BY <1>0 DEF HubParts, HeldCaught, Holding, Clean, Caught, HubSound
<1>11. SnapCaught'
  BY <1>0 DEF HubParts, SnapCaught, Clean
<1>12. ArchiveCaught'
  BY <1>0 DEF HubParts, ArchiveCaught, Clean, Served, Caught
<1>13. SeqsOnce'
  BY <1>0 DEF HubParts, SeqsOnce
<1>14. FoundUntilExpiry'
  BY <1>0 DEF HubParts, FoundUntilExpiry
<1> QED BY <1>1, <1>2, <1>3, <1>4, <1>5, <1>6, <1>7, <1>8, <1>9, <1>10, <1>11, <1>12, <1>13, <1>14, Zenon DEF HubInv, InTurn, AllCaught

\* A line is recorded.
LEMMA Records ==
  ASSUME Steady, NEW o \in Offers, NEW line \in Line,
         pc[o] = "answered",
         line.seq = seq[o] + 1,
         seq'[o] = seq[o] + 1,
         hist'[o] = Newest(Append(hist[o], line)),
         log'[sid[o]] = Append(log[sid[o]], line),
         \A s \in Offers \ {sid[o]} : log'[s] = log[s],
         tainted' = IF HandedOver(o) THEN tainted \cup {sid[o]} ELSE tainted,
         \A p \in Offers \ {o} : seq'[p] = seq[p] /\ hist'[p] = hist[p],
         UNCHANGED <<pc, req, sid, active, full, start, closing, snap, wired, conns, archives, contested, lapsed>>
  PROVE  HubInv'
<1>0. HubParts /\ HubSound
  BY SteadyParts
<1>a. /\ sid[o] \in Offers /\ hist[o] \in Seq(Line) /\ log[sid[o]] \in Seq(Line) /\ seq[o] \in Nat
      /\ Len(log[sid[o]]) \in Nat /\ log'[sid[o]] \in Seq(Line) /\ log'[sid[o]] # <<>>
      /\ Len(log'[sid[o]]) = Len(log[sid[o]]) + 1
      /\ log'[sid[o]][Len(log[sid[o]]) + 1] = line
      /\ \A k \in 1..Len(log[sid[o]]) : log'[sid[o]][k] = log[sid[o]][k]
  <2>1. sid[o] \in Offers /\ hist[o] \in Seq(Line) /\ log[sid[o]] \in Seq(Line) /\ seq[o] \in Nat
    BY DEF Steady, TypeOK
  <2> DEFINE q == log[sid[o]]
  <2>2. /\ Append(q, line) \in Seq(Line) /\ Append(q, line) # <<>>
        /\ Len(q) \in Nat /\ Len(Append(q, line)) = Len(q) + 1
        /\ Append(q, line)[Len(q) + 1] = line
        /\ \A k \in 1..Len(q) : Append(q, line)[k] = q[k]
    <3>1. q \in Seq(Line)
      BY <2>1
    <3> HIDE DEF q
    <3> QED BY <3>1, AppendIs
  <2>3. log'[sid[o]] = Append(log[sid[o]], line)
    OBVIOUS
  <2> QED BY <2>1, <2>2, <2>3, Zenon
<1>b. ASSUME Clean(sid[o])'
      PROVE  /\ ~HandedOver(o) /\ Clean(sid[o]) /\ closing[o] \in {"no", "hist"} /\ Served(o) /\ Live(o)
             /\ Caught(hist[o], seq[o], sid[o])
             /\ \A p \in Offers \ {o} : sid[p] = sid[o] => ~Live(p)
  <2>1. ~HandedOver(o) /\ Clean(sid[o])
    BY <1>b DEF Clean
  <2>2. closing[o] \in {"no", "hist"} /\ Served(o) /\ Live(o)
    BY <1>0, <2>1 DEF HandedOver, HubSound, Served, Live
  <2> QED BY <1>0, <2>1, <2>2 DEF HubParts, RecorderCaught, Serial, Clean
<1>c. Clean(sid[o])' => Caught(hist[o], seq[o], sid[o])'
  <2> SUFFICES ASSUME Clean(sid[o])' PROVE Newest(hist'[o]) = Newest(log'[sid[o]]) /\ seq'[o] = Len(log'[sid[o]])
    BY DEF Caught
  <2>1. PICK h \in Seq(Line), g \in Seq(Line) : h = hist[o] /\ g = log[sid[o]]
    BY <1>a
  <2>2. Newest(h) = Newest(g) /\ seq[o] = Len(g)
    BY <1>b, <2>1 DEF Caught
  <2>3. Newest(Append(h, line)) = Newest(Append(g, line))
    BY <2>2, NewestGrows
  <2>4. Newest(Newest(Append(h, line))) = Newest(Append(h, line))
    <3>1. Append(h, line) \in Seq(Line)
      OBVIOUS
    <3> QED BY <3>1, NewestTwice
  <2> QED BY <1>a, <2>1, <2>2, <2>3, <2>4
<1>d. \A s \in Offers : Clean(s)' => Clean(s)
  BY DEF Clean
<1>1. InPhases'
  BY <1>0 DEF HubParts, InPhases, InPhase, Searching, Holding
<1>2. Minted'
  BY <1>0 DEF HubParts, Minted, KnownId
<1>3. Spoken'
  BY <1>0 DEF HubParts, Spoken, KnownId, Minted, HubSound
<1>4. Named'
  BY <1>0 DEF HubParts, Named, Served, HubSound
<1>5. Serial'
  BY <1>0 DEF HubParts, Serial, Live
<1>6. HeldAlone'
  BY <1>0 DEF HubParts, HeldAlone, Holding, Served, Live, HubSound
<1>7. Enrolled'
  BY <1>0 DEF HubParts, Enrolled, Served
<1>8. StartsCaught'
  <2> SUFFICES ASSUME NEW p \in Offers, pc[p] \in {"dial", "added"}, Clean(sid[p])'
               PROVE  Caught(full[p], start[p], sid[p])'
    BY DEF StartsCaught, Clean, Caught
  <2>1. Live(p)
    BY <1>0 DEF HubParts, InPhases, InPhase, Live
  <2>2. sid[p] # sid[o]
    BY <1>b, <2>1
  <2>3. Clean(sid[p]) /\ log'[sid[p]] = log[sid[p]]
    BY <1>0, <1>d, <2>2 DEF HubSound
  <2> QED BY <1>0, <2>3 DEF HubParts, StartsCaught, Caught
<1>9. RecorderCaught'
  <2> SUFFICES ASSUME NEW p \in Offers, Served(p), Live(p), Clean(sid[p])'
               PROVE  Caught(hist[p], seq[p], sid[p])'
    BY DEF RecorderCaught, Clean, Caught, Served, Live
  <2>1. CASE p = o
    BY <1>c, <2>1 DEF Clean, Caught
  <2>2. CASE p # o
    <3>1. sid[p] # sid[o]
      BY <1>b, <2>2
    <3>2. Clean(sid[p]) /\ log'[sid[p]] = log[sid[p]] /\ hist'[p] = hist[p] /\ seq'[p] = seq[p]
      BY <1>0, <1>d, <2>2, <3>1 DEF HubSound
    <3> QED BY <1>0, <3>2 DEF HubParts, RecorderCaught, Caught
  <2> QED BY <2>1, <2>2
<1>10. HeldCaught'
  <2> SUFFICES ASSUME NEW p \in Offers, pc[p] \in Holding, Clean(req[p].target)'
               PROVE  /\ Caught(hist[active[p].session], seq[active[p].session], req[p].target)'
                      /\ pc[p] # "history" => Newest(full[p]) = Newest(log'[req[p].target])
                      /\ pc[p] \in {"takeover", "owned"} => start[p] = Len(log'[req[p].target])
    BY DEF HeldCaught, Clean, Caught
  <2> DEFINE a == active[p].session
             t == req[p].target
  <2>0. a \in Offers /\ t \in Offers /\ Clean(t) /\ sid[a] = t /\ t \notin contested
    BY <1>0, <1>d DEF HubSound, HubParts, HeldAlone, Clean
  <2>1. CASE t = sid[o]
    <3>1. Clean(sid[o])'
      BY <2>1
    <3>2. a = o
      BY <1>0, <1>b, <2>0, <2>1, <3>1 DEF HubParts, HeldAlone
    <3>3. pc[p] = "history"
      BY <1>b, <3>1, <3>2 DEF HandedOver
    <3>4. Caught(hist[o], seq[o], sid[o])'
      BY <1>c, <3>1
    <3> QED BY <2>1, <3>2, <3>3, <3>4 DEF Caught
  <2>2. CASE t # sid[o]
    <3>1. a # o /\ log'[t] = log[t]
      BY <2>0, <2>2
    <3>2. hist'[a] = hist[a] /\ seq'[a] = seq[a]
      BY <2>0, <3>1
    <3> QED BY <1>0, <2>0, <3>1, <3>2 DEF HubParts, HeldCaught, Caught
  <2> QED BY <2>1, <2>2
<1>11. SnapCaught'
  <2> SUFFICES ASSUME NEW p \in Offers, Clean(sid[p])', closing[p] \in {"seq", "delete", "put"}
               PROVE  /\ Newest(snap[p].hist) = Newest(log'[sid[p]])
                      /\ closing[p] \in {"delete", "put"} => snap[p].maxSeq = Len(log'[sid[p]])
    BY DEF SnapCaught, Clean
  <2>1. Live(p) /\ (p = o => HandedOver(o))
    BY <1>0 DEF HubParts, InPhases, InPhase, Live, HandedOver
  <2>2. sid[p] # sid[o]
    BY <1>b, <2>1
  <2>3. Clean(sid[p]) /\ log'[sid[p]] = log[sid[p]]
    BY <1>0, <1>d, <2>2 DEF HubSound
  <2> QED BY <1>0, <2>3 DEF HubParts, SnapCaught
<1>12. ArchiveCaught'
  <2> SUFFICES ASSUME NEW s \in Offers, archives[s] # None, Clean(s)'
               PROVE  /\ log'[s] # <<>>
                      /\ (\A p \in Offers : sid[p] = s /\ Served(p) => closing[p] = "closed")
                           => Caught(archives[s].hist, archives[s].maxSeq, s)'
    BY DEF ArchiveCaught, Clean, Caught, Served
  <2>1. CASE s = sid[o]
    BY <1>a, <1>b, <2>1 DEF Live
  <2>2. CASE s # sid[o]
    BY <1>0, <1>d, <2>2 DEF HubParts, ArchiveCaught, Caught
  <2> QED BY <2>1, <2>2
<1>13. SeqsOnce'
  <2> SUFFICES ASSUME NEW s \in Offers, Clean(s)', NEW k \in 1..Len(log'[s]) PROVE log'[s][k].seq = k
    BY DEF SeqsOnce, Clean
  <2>0. Clean(s) /\ (k \in 1..Len(log[s]) => log[s][k].seq = k)
    BY <1>0, <1>d DEF HubParts, SeqsOnce, Clean
  <2>1. CASE s = sid[o]
    <3>1. seq[o] = Len(log[s]) /\ Len(log[s]) \in Nat
      BY <1>a, <1>b, <2>1 DEF Caught
    <3>2. CASE k = Len(log[s]) + 1
      BY <1>a, <2>1, <3>1, <3>2
    <3>3. CASE k \in 1..Len(log[s])
      BY <1>a, <2>0, <2>1, <3>3
    <3> QED BY <1>a, <2>1, <3>1, <3>2, <3>3
  <2>2. CASE s # sid[o]
    BY <2>0, <2>2
  <2> QED BY <2>1, <2>2
<1>14. FoundUntilExpiry'
  <2> SUFFICES ASSUME NEW s \in Offers, Clean(s)', log'[s] # <<>>
               PROVE  \/ conns[s] # None \/ archives[s] # None \/ s \in lapsed
                      \/ \E p \in Offers : sid[p] = s /\ closing[p] = "put"
    BY DEF FoundUntilExpiry, Clean
  <2>1. CASE s = sid[o]
    <3>1. conns[s] = o
      BY <1>0, <1>b, <2>1 DEF HubParts, Enrolled, Clean
    <3> QED BY <1>0, <3>1 DEF HubSound
  <2>2. CASE s # sid[o]
    BY <1>0, <1>d, <2>2 DEF HubParts, FoundUntilExpiry, Clean
  <2> QED BY <2>1, <2>2
<1> QED BY <1>1, <1>2, <1>3, <1>4, <1>5, <1>6, <1>7, <1>8, <1>9, <1>10, <1>11, <1>12, <1>13, <1>14, Zenon DEF HubInv, InTurn, AllCaught

\* A tear-down reads the lines of the recorder.
LEMMA ReadsLines ==
  ASSUME Steady, NEW o \in Offers,
         closing[o] = "hist",
         closing'[o] = "seq",
         snap'[o].hist = hist[o],
         \A p \in Offers \ {o} : closing'[p] = closing[p] /\ snap'[p] = snap[p],
         UNCHANGED <<pc, req, sid, active, full, start, hist, seq, wired, conns, archives, log, contested, tainted, lapsed>>
  PROVE  HubInv'
<1>0. HubParts /\ HubSound
  BY SteadyParts
<1>1. InPhases'
  BY <1>0 DEF HubParts, InPhases, InPhase, Searching, Holding
<1>2. Minted'
  BY <1>0 DEF HubParts, Minted, KnownId
<1>3. Spoken'
  BY <1>0 DEF HubParts, Spoken, KnownId
<1>4. Named'
  BY <1>0 DEF HubParts, Named, Served, HubSound
<1>5. Serial'
  BY <1>0 DEF HubParts, Serial, Live
<1>6. HeldAlone'
  BY <1>0 DEF HubParts, HeldAlone, Holding, Served, Live, HubSound
<1>7. Enrolled'
  BY <1>0 DEF HubParts, Enrolled, Served
<1>8. StartsCaught'
  BY <1>0 DEF HubParts, StartsCaught, Clean, Caught
<1>9. RecorderCaught'
  BY <1>0 DEF HubParts, RecorderCaught, Served, Live, Clean, Caught
<1>10. HeldCaught'
  BY <1>0 DEF HubParts, HeldCaught, Holding, Clean, Caught, HubSound
<1>11. SnapCaught'
  BY <1>0 DEF HubParts, SnapCaught, Clean, RecorderCaught, Caught, Served, Live, InPhases, InPhase
<1>12. ArchiveCaught'
  BY <1>0 DEF HubParts, ArchiveCaught, Clean, Served, Caught
<1>13. SeqsOnce'
  BY <1>0 DEF HubParts, SeqsOnce
<1>14. FoundUntilExpiry'
  BY <1>0 DEF HubParts, FoundUntilExpiry
<1> QED BY <1>1, <1>2, <1>3, <1>4, <1>5, <1>6, <1>7, <1>8, <1>9, <1>10, <1>11, <1>12, <1>13, <1>14, Zenon DEF HubInv, InTurn, AllCaught

\* A tear-down reads the seq of the recorder.
LEMMA ReadsLast ==
  ASSUME Steady, NEW o \in Offers,
         closing[o] = "seq",
         closing'[o] = "delete",
         snap'[o].hist = snap[o].hist,
         snap'[o].maxSeq = seq[o],
         \A p \in Offers \ {o} : closing'[p] = closing[p] /\ snap'[p] = snap[p],
         UNCHANGED <<pc, req, sid, active, full, start, hist, seq, wired, conns, archives, log, contested, tainted, lapsed>>
  PROVE  HubInv'
<1>0. HubParts /\ HubSound
  BY SteadyParts
<1>1. InPhases'
  BY <1>0 DEF HubParts, InPhases, InPhase, Searching, Holding
<1>2. Minted'
  BY <1>0 DEF HubParts, Minted, KnownId
<1>3. Spoken'
  BY <1>0 DEF HubParts, Spoken, KnownId
<1>4. Named'
  BY <1>0 DEF HubParts, Named, Served, HubSound
<1>5. Serial'
  BY <1>0 DEF HubParts, Serial, Live
<1>6. HeldAlone'
  BY <1>0 DEF HubParts, HeldAlone, Holding, Served, Live, HubSound
<1>7. Enrolled'
  BY <1>0 DEF HubParts, Enrolled, Served
<1>8. StartsCaught'
  BY <1>0 DEF HubParts, StartsCaught, Clean, Caught
<1>9. RecorderCaught'
  BY <1>0 DEF HubParts, RecorderCaught, Served, Live, Clean, Caught
<1>10. HeldCaught'
  BY <1>0 DEF HubParts, HeldCaught, Holding, Clean, Caught, HubSound
<1>11. SnapCaught'
  BY <1>0 DEF HubParts, SnapCaught, Clean, RecorderCaught, Caught, Served, Live, InPhases, InPhase
<1>12. ArchiveCaught'
  BY <1>0 DEF HubParts, ArchiveCaught, Clean, Served, Caught
<1>13. SeqsOnce'
  BY <1>0 DEF HubParts, SeqsOnce
<1>14. FoundUntilExpiry'
  BY <1>0 DEF HubParts, FoundUntilExpiry
<1> QED BY <1>1, <1>2, <1>3, <1>4, <1>5, <1>6, <1>7, <1>8, <1>9, <1>10, <1>11, <1>12, <1>13, <1>14, Zenon DEF HubInv, InTurn, AllCaught

\* A tear-down takes the id out of the registry.
LEMMA Unregisters ==
  ASSUME Steady, NEW o \in Offers,
         closing[o] = "delete",
         closing'[o] = "put",
         conns'[sid[o]] = None,
         \A s \in Offers \ {sid[o]} : conns'[s] = conns[s],
         \A p \in Offers \ {o} : closing'[p] = closing[p],
         UNCHANGED <<pc, req, sid, active, full, start, hist, seq, snap, wired, archives, log, contested, tainted, lapsed>>
  PROVE  HubInv'
<1>0. HubParts /\ HubSound
  BY SteadyParts
<1>1. InPhases'
  BY <1>0 DEF HubParts, InPhases, InPhase, Searching, Holding
<1>2. Minted'
  BY <1>0 DEF HubParts, Minted, KnownId
<1>3. Spoken'
  BY <1>0 DEF HubParts, Spoken, KnownId
<1>4. Named'
  BY <1>0 DEF HubParts, Named, Served, HubSound
<1>5. Serial'
  BY <1>0 DEF HubParts, Serial, Live
<1>6. HeldAlone'
  BY <1>0 DEF HubParts, HeldAlone, Holding, Served, Live, HubSound
<1>7. Enrolled'
  <2> SUFFICES ASSUME NEW p \in Offers, Served(p), closing'[p] \in {"no", "hist", "seq", "delete"}, sid[p] \notin contested
               PROVE  conns'[sid[p]] = p
    BY DEF Enrolled, Served
  <2>1. p # o /\ closing[p] = closing'[p]
    OBVIOUS
  <2>2. Live(p) /\ Live(o)
    BY <1>0, <2>1 DEF HubParts, InPhases, InPhase, Live, Served
  <2>3. sid[p] # sid[o]
    BY <1>0, <2>1, <2>2 DEF HubParts, Serial
  <2>4. conns[sid[p]] = p
    BY <1>0, <2>1 DEF HubParts, Enrolled
  <2> QED BY <1>0, <2>3, <2>4 DEF HubSound
<1>8. StartsCaught'
  BY <1>0 DEF HubParts, StartsCaught, Clean, Caught
<1>9. RecorderCaught'
  BY <1>0 DEF HubParts, RecorderCaught, Served, Live, Clean, Caught
<1>10. HeldCaught'
  BY <1>0 DEF HubParts, HeldCaught, Holding, Clean, Caught, HubSound
<1>11. SnapCaught'
  BY <1>0 DEF HubParts, SnapCaught, Clean
<1>12. ArchiveCaught'
  BY <1>0 DEF HubParts, ArchiveCaught, Clean, Served, Caught
<1>13. SeqsOnce'
  BY <1>0 DEF HubParts, SeqsOnce
<1>14. FoundUntilExpiry'
  BY <1>0 DEF HubParts, FoundUntilExpiry
<1> QED BY <1>1, <1>2, <1>3, <1>4, <1>5, <1>6, <1>7, <1>8, <1>9, <1>10, <1>11, <1>12, <1>13, <1>14, Zenon DEF HubInv, InTurn, AllCaught

\* A tear-down archives what was said.
LEMMA Archives ==
  ASSUME Steady, NEW o \in Offers,
         closing[o] = "put",
         closing'[o] = "closed",
         (snap[o].hist = <<>> /\ UNCHANGED <<archives, lapsed>>)
         \/ (/\ archives'[sid[o]].hist = snap[o].hist /\ archives'[sid[o]].maxSeq = snap[o].maxSeq
             /\ snap[o].hist # <<>> /\ archives'[sid[o]] # None /\ lapsed' = lapsed \ {sid[o]}),
         \A s \in Offers \ {sid[o]} : archives'[s] = archives[s],
         \A p \in Offers \ {o} : closing'[p] = closing[p],
         UNCHANGED <<pc, req, sid, active, full, start, hist, seq, snap, wired, conns, log, contested, tainted>>
  PROVE  HubInv'
<1>0. HubParts /\ HubSound
  BY SteadyParts
<1>a. ASSUME Clean(sid[o])
      PROVE  /\ Newest(snap[o].hist) = Newest(log[sid[o]]) /\ snap[o].maxSeq = Len(log[sid[o]])
             /\ (snap[o].hist = <<>>) <=> (log[sid[o]] = <<>>)
  <2>1. Newest(snap[o].hist) = Newest(log[sid[o]]) /\ snap[o].maxSeq = Len(log[sid[o]])
    BY <1>0, <1>a DEF HubParts, SnapCaught
  <2>2. snap[o].hist \in Seq(Line) /\ log[sid[o]] \in Seq(Line)
    BY DEF Steady, TypeOK
  <2> QED BY <2>1, <2>2, NewestEmpty
<1>1. InPhases'
  BY <1>0 DEF HubParts, InPhases, InPhase, Searching, Holding
<1>2. Minted'
  BY <1>0 DEF HubParts, Minted, KnownId
<1>3. Spoken'
  BY <1>0 DEF HubParts, Spoken, KnownId
<1>4. Named'
  BY <1>0 DEF HubParts, Named, Served, HubSound
<1>5. Serial'
  BY <1>0 DEF HubParts, Serial, Live
<1>6. HeldAlone'
  BY <1>0 DEF HubParts, HeldAlone, Holding, Served, Live, HubSound
<1>7. Enrolled'
  BY <1>0 DEF HubParts, Enrolled, Served
<1>8. StartsCaught'
  BY <1>0 DEF HubParts, StartsCaught, Clean, Caught
<1>9. RecorderCaught'
  BY <1>0 DEF HubParts, RecorderCaught, Served, Live, Clean, Caught
<1>10. HeldCaught'
  BY <1>0 DEF HubParts, HeldCaught, Holding, Clean, Caught, HubSound
<1>11. SnapCaught'
  BY <1>0 DEF HubParts, SnapCaught, Clean
<1>12. ArchiveCaught'
  <2> SUFFICES ASSUME NEW s \in Offers, archives'[s] # None, Clean(s)
               PROVE  /\ log[s] # <<>>
                      /\ (\A p \in Offers : sid[p] = s /\ Served(p) => closing'[p] = "closed")
                           => Caught(archives'[s].hist, archives'[s].maxSeq, s)
    BY DEF ArchiveCaught, Clean, Caught, Served
  <2>1. CASE s = sid[o]
    <3>1. (snap[o].hist = <<>>) <=> (log[s] = <<>>)
      BY <1>a, <2>1
    <3>2. CASE snap[o].hist = <<>>
      BY <1>0, <3>1, <3>2 DEF HubParts, ArchiveCaught
    <3>3. CASE snap[o].hist # <<>>
      BY <1>a, <2>1, <3>1, <3>3 DEF Caught
    <3> QED BY <3>2, <3>3
  <2>2. CASE s # sid[o]
    <3>1. archives'[s] = archives[s] /\ \A p \in Offers : sid[p] = s => closing'[p] = closing[p]
      BY <2>2
    <3> QED BY <1>0, <3>1 DEF HubParts, ArchiveCaught
  <2> QED BY <2>1, <2>2
<1>13. SeqsOnce'
  BY <1>0 DEF HubParts, SeqsOnce
<1>14. FoundUntilExpiry'
  <2> SUFFICES ASSUME NEW s \in Offers, Clean(s), log[s] # <<>>
               PROVE  \/ conns[s] # None \/ archives'[s] # None \/ s \in lapsed'
                      \/ \E p \in Offers : sid[p] = s /\ closing'[p] = "put"
    BY DEF FoundUntilExpiry, Clean
  <2>1. CASE s = sid[o]
    BY <1>a, <2>1
  <2>2. CASE s # sid[o]
    <3>1. archives'[s] = archives[s] /\ \A p \in Offers : sid[p] = s => closing'[p] = closing[p]
      BY <2>2
    <3>2. s \in lapsed => s \in lapsed'
      BY <2>2
    <3> QED BY <1>0, <3>1, <3>2 DEF HubParts, FoundUntilExpiry, Clean
  <2> QED BY <2>1, <2>2
<1> QED BY <1>1, <1>2, <1>3, <1>4, <1>5, <1>6, <1>7, <1>8, <1>9, <1>10, <1>11, <1>12, <1>13, <1>14, Zenon DEF HubInv, InTurn, AllCaught

\* An archive expires.
LEMMA Expires ==
  ASSUME Steady, NEW s \in Offers,
         archives'[s] = None,
         lapsed' = lapsed \cup {s},
         \A q \in Offers \ {s} : archives'[q] = archives[q],
         UNCHANGED <<pc, req, sid, active, full, start, hist, seq, closing, snap, wired, conns, log, contested, tainted>>
  PROVE  HubInv'
<1>0. HubParts /\ HubSound
  BY SteadyParts
<1>1. InPhases'
  BY <1>0 DEF HubParts, InPhases, InPhase, Searching, Holding
<1>2. Minted'
  BY <1>0 DEF HubParts, Minted, KnownId
<1>3. Spoken'
  BY <1>0 DEF HubParts, Spoken, KnownId
<1>4. Named'
  BY <1>0 DEF HubParts, Named, Served, HubSound
<1>5. Serial'
  BY <1>0 DEF HubParts, Serial, Live
<1>6. HeldAlone'
  BY <1>0 DEF HubParts, HeldAlone, Holding, Served, Live, HubSound
<1>7. Enrolled'
  BY <1>0 DEF HubParts, Enrolled, Served
<1>8. StartsCaught'
  BY <1>0 DEF HubParts, StartsCaught, Clean, Caught
<1>9. RecorderCaught'
  BY <1>0 DEF HubParts, RecorderCaught, Served, Live, Clean, Caught
<1>10. HeldCaught'
  BY <1>0 DEF HubParts, HeldCaught, Holding, Clean, Caught, HubSound
<1>11. SnapCaught'
  BY <1>0 DEF HubParts, SnapCaught, Clean
<1>12. ArchiveCaught'
  BY <1>0 DEF HubParts, ArchiveCaught, Clean, Served, Caught
<1>13. SeqsOnce'
  BY <1>0 DEF HubParts, SeqsOnce
<1>14. FoundUntilExpiry'
  BY <1>0 DEF HubParts, FoundUntilExpiry
<1> QED BY <1>1, <1>2, <1>3, <1>4, <1>5, <1>6, <1>7, <1>8, <1>9, <1>10, <1>11, <1>12, <1>13, <1>14, Zenon DEF HubInv, InTurn, AllCaught

----------------------------------------------------------------------------
(* The steps of the hub                                                    *)

\* The variables are functions of the offers and of the ids.
Mapped ==
  /\ DOMAIN pc = Offers /\ DOMAIN req = Offers /\ DOMAIN sid = Offers
  /\ DOMAIN active = Offers /\ DOMAIN full = Offers /\ DOMAIN start = Offers
  /\ DOMAIN hist = Offers /\ DOMAIN seq = Offers /\ DOMAIN closing = Offers
  /\ DOMAIN snap = Offers /\ DOMAIN wired = Offers
  /\ DOMAIN conns = Offers /\ DOMAIN archives = Offers /\ DOMAIN log = Offers

\* What the cases of a step start from.
LEMMA SteadyMapped ==
  ASSUME Steady
  PROVE  TypeOK /\ HubParts /\ HubSound /\ Mapped
<1>1. TypeOK
  BY DEF Steady
<1>2. Mapped
  BY <1>1 DEF TypeOK, Mapped
<1> QED BY <1>1, <1>2, SteadyParts

\* An offer that arrives asks for an id that a client was given.
LEMMA ArriveInTurn ==
  ASSUME Steady, NEW o \in Offers, Arrive(o)
  PROVE  HubInv'
<1> USE DEF offerVars, sessionVars, recorderVars, hubVars, shutVars, historyVars
<1>0. TypeOK /\ HubParts /\ HubSound /\ Mapped
  BY SteadyMapped
<1>1. PICK u \in Users, p \in Providers, t \in KnownIds \cup (IF o <= MaxFresh THEN {None} ELSE {}) :
        \E n \in IF t = None THEN {0} ELSE 0..Len(log[t]) :
          /\ req' = [req EXCEPT ![o] = [user |-> u, provider |-> p, target |-> t, last |-> n]]
          /\ Step(o, "idle", IF t = None \/ u = Anonymous THEN "dial" ELSE "state")
  BY DEF Arrive
<1>2. PICK n : /\ req' = [req EXCEPT ![o] = [user |-> u, provider |-> p, target |-> t, last |-> n]]
               /\ Step(o, "idle", IF t = None \/ u = Anonymous THEN "dial" ELSE "state")
  BY <1>1
<1>3. t # None => KnownId(t)
  <2>1. ASSUME t # None PROVE t \in KnownIds
    BY <2>1
  <2>2. ASSUME t \in KnownIds PROVE KnownId(t)
    <3>1. PICK q \in Offers : pc[q] = "answered" /\ t = sid[q]
      BY <2>2 DEF KnownIds
    <3>2. CASE t = q
      BY <3>1, <3>2 DEF KnownId
    <3>3. CASE t # q
      BY <1>0, <3>1, <3>3 DEF HubParts, Minted
    <3> QED BY <3>2, <3>3
  <2> QED BY <2>1, <2>2
<1>4. req'[o].target = t
  BY <1>0, <1>2 DEF Mapped
<1>5. pc[o] = "idle" /\ pc'[o] \in {"dial", "state"}
  BY <1>0, <1>2 DEF Mapped, Step
<1>6. \A q \in Offers \ {o} : pc'[q] = pc[q] /\ req'[q] = req[q]
  BY <1>0, <1>2 DEF Mapped, Step
<1>7. UNCHANGED <<sid, active, full, start, hist, seq, closing, snap, wired, conns, archives, log, contested, tainted, lapsed>>
  BY DEF Arrive
<1> QED BY <1>3, <1>4, <1>5, <1>6, <1>7, Searches DEF Searching

\* A look-up that finds nothing to hold goes on, or the offer is refused.
LEMMA LooksOn ==
  ASSUME Steady, NEW o \in Offers,
         NEW from \in {"state", "state_archive", "resume", "archive", "index"},
         NEW to \in {"state_archive", "resume", "archive", "index", "refused", "dial"},
         Step(o, from, to),
         UNCHANGED <<req, sid, active, full, start, hist, seq, closing, snap, wired, conns, archives, log, contested, tainted, lapsed>>
  PROVE  HubInv'
<1>0. TypeOK /\ HubParts /\ HubSound /\ Mapped
  BY SteadyMapped
<1>1. pc[o] = from /\ pc'[o] = to /\ \A q \in Offers \ {o} : pc'[q] = pc[q]
  BY <1>0 DEF Mapped, Step
<1>2. req'[o].target # None => KnownId(req'[o].target)
  BY <1>0, <1>1 DEF HubParts, Minted
<1>3. pc[o] \in Searching /\ pc'[o] \in (Searching \cup {"refused", "dial"}) \ {"idle"}
  BY <1>1 DEF Searching
<1>4. \A q \in Offers \ {o} : pc'[q] = pc[q] /\ req'[q] = req[q]
  BY <1>1
<1> QED BY <1>2, <1>3, <1>4, Searches

\* SessionState and a find in the hub's map.
LEMMA LookupInTurn ==
  ASSUME Steady, NEW o \in Offers,
         StateInConns(o) \/ StateInArchive(o) \/ ResumeFind(o) \/ IndexMiss(o)
  PROVE  HubInv'
<1> USE DEF offerVars, sessionVars, recorderVars, hubVars, shutVars, historyVars
<1>0. TypeOK /\ HubParts /\ HubSound /\ Mapped
  BY SteadyMapped
<1>1. CASE StateInConns(o)
  <2>1. PICK to \in {"state_archive", "resume", "refused", "dial"} : Step(o, "state", to)
    BY <1>1 DEF StateInConns, Checked
  <2> QED BY <1>1, <2>1, LooksOn DEF StateInConns
<1>2. CASE StateInArchive(o)
  <2>1. PICK to \in {"resume", "refused", "dial"} : Step(o, "state_archive", to)
    BY <1>2 DEF StateInArchive, Checked
  <2> QED BY <1>2, <2>1, LooksOn DEF StateInArchive
<1>3. CASE ResumeFind(o)
  <2> DEFINE c == conns[req[o].target]
  <2>1. req[o].target \in Offers
    BY <1>0, <1>3 DEF ResumeFind, HubSound, Lookups
  <2>2. UNCHANGED <<req, sid, full, start, hist, seq, closing, snap, wired, conns, archives, log, contested, tainted, lapsed>>
    BY <1>3 DEF ResumeFind
  <2>3. CASE UNCHANGED active
    <3>1. PICK to \in {"archive", "index", "history"} : Step(o, "resume", to)
      BY <1>3 DEF ResumeFind
    <3>2. CASE to # "history"
      BY <2>2, <2>3, <3>1, <3>2, LooksOn
    <3>3. CASE to = "history"
      <4>1. pc'[o] = "history"
        BY <1>0, <3>1, <3>3 DEF Step, Mapped
      <4>2. /\ c # None
            /\ active' = [active EXCEPT ![o] = [session |-> c, cleanup |-> wired[c]]]
        BY <1>0, <1>3, <4>1 DEF ResumeFind, Step, Mapped
      <4>3. active[o] = NoSession /\ pc[o] = "resume"
        BY <1>0, <1>3 DEF HubParts, InPhases, InPhase, Searching, ResumeFind
      <4>4. active'[o].session = c
        BY <1>0, <4>2 DEF Mapped
      <4> QED BY <2>3, <4>2, <4>3, <4>4 DEF NoSession
    <3> QED BY <3>2, <3>3
  <2>4. CASE /\ c # None
             /\ Step(o, "resume", "history")
             /\ active' = [active EXCEPT ![o] = [session |-> c, cleanup |-> wired[c]]]
    <3>1. c \in Offers
      BY <1>0, <2>1, <2>4 DEF HubSound
    <3>2. /\ pc[o] = "resume"
          /\ pc'[o] = "history"
          /\ active'[o] = [session |-> c, cleanup |-> wired[c]]
          /\ \A p \in Offers \ {o} : pc'[p] = pc[p] /\ active'[p] = active[p]
      BY <1>0, <2>4 DEF Mapped, Step
    <3> QED BY <2>2, <3>1, <3>2, Finds
  <2> QED BY <1>3, <2>3, <2>4 DEF ResumeFind
<1>4. CASE IndexMiss(o)
  BY <1>4, LooksOn DEF IndexMiss
<1> QED BY <1>1, <1>2, <1>3, <1>4

\* Reading the live session that was found, and closing it.
LEMMA ReadInTurn ==
  ASSUME Steady, NEW o \in Offers,
         ReadHistory(o) \/ ReadSeq(o) \/ TakeOver(o)
  PROVE  HubInv'
<1> USE DEF offerVars, sessionVars, recorderVars, hubVars, shutVars, historyVars
<1>0. TypeOK /\ HubParts /\ HubSound /\ Mapped
  BY SteadyMapped
<1>1. CASE ReadHistory(o)
  <2>1. /\ pc[o] = "history"
        /\ pc'[o] = "seq"
        /\ full'[o] = hist[active[o].session]
        /\ \A p \in Offers \ {o} : pc'[p] = pc[p] /\ full'[p] = full[p]
    BY <1>0, <1>1 DEF Mapped, Step, ReadHistory
  <2>2. UNCHANGED <<req, sid, active, start, hist, seq, closing, snap, wired, conns, archives, log, contested, tainted, lapsed>>
    BY <1>1 DEF ReadHistory
  <2> QED BY <2>1, <2>2, ReadsHistory
<1>2. CASE ReadSeq(o)
  <2>1. /\ pc[o] = "seq"
        /\ pc'[o] = IF active[o].cleanup THEN "takeover" ELSE "owned"
        /\ start'[o] = seq[active[o].session]
        /\ \A p \in Offers \ {o} : pc'[p] = pc[p] /\ start'[p] = start[p]
    BY <1>0, <1>2 DEF Mapped, Step, ReadSeq
  <2>2. UNCHANGED <<req, sid, active, full, hist, seq, closing, snap, wired, conns, archives, log, contested, tainted, lapsed>>
    BY <1>2 DEF ReadSeq
  <2> QED BY <2>1, <2>2, ReadsSeq
<1>3. CASE TakeOver(o)
  <2> DEFINE c == active[o].session
  <2>1. pc[o] = "takeover" /\ pc'[o] = "owned" /\ \A p \in Offers \ {o} : pc'[p] = pc[p]
    BY <1>0, <1>3 DEF Mapped, Step, TakeOver
  <2>2. c \in Offers /\ pc[c] = "answered"
    <3>1. pc[o] \in Holding
      BY <2>1 DEF Holding
    <3>2. c \in Offers
      BY <1>0, <3>1 DEF HubSound
    <3>3. InPhase(o) /\ InPhase(c)
      BY <1>0, <3>2 DEF HubParts, InPhases
    <3> QED BY <2>1, <3>1, <3>2, <3>3 DEF InPhase
  <2>3. /\ (closing'[c] = closing[c]) \/ (closing[c] = "no" /\ closing'[c] = "hist")
        /\ \A p \in Offers \ {c} : closing'[p] = closing[p]
    BY <1>0, <1>3, <2>2 DEF Mapped, TakeOver, Cleanup
  <2>4. UNCHANGED <<req, sid, active, full, start, hist, seq, snap, wired, conns, archives, log, contested, tainted, lapsed>>
    BY <1>3 DEF TakeOver
  <2>5. \A p \in Offers : (pc'[p] = pc[p]) \/ (pc[p] = "takeover" /\ pc'[p] = "owned")
    BY <2>1
  <2> HIDE DEF c
  <2> QED BY <2>2, <2>3, <2>4, <2>5, CloseBegins
<1> QED BY <1>1, <1>2, <1>3

\* With no rival, the session that was taken over is the last that held the id.
LEMMA NoRivals ==
  ASSUME Steady, NEW o \in Offers, NEW t \in Offers,
         pc[o] \in {"owned", "archive", "index"},
         pc[o] = "owned" /\ active[o].cleanup => closing[active[o].session] = "closed",
         Rivals(o, t) = {}
  PROVE  /\ \A p \in Offers \ {o} : sid[p] = t => ~Live(p)
         /\ \A p \in Offers \ {o} : pc[p] \in Holding => req[p].target # t
<1>0. HubParts /\ HubSound
  BY SteadyParts
<1>1. ASSUME NEW p \in Offers \ {o} PROVE p \notin Rivals(o, t)
  OBVIOUS
<1>2. ASSUME NEW p \in Offers \ {o}, sid[p] = t PROVE ~Live(p)
  <2>1. CASE active[o] = [session |-> p, cleanup |-> TRUE]
    <3>1. active[o] # NoSession
      BY <1>0, <2>1 DEF NoSession
    <3>2. pc[o] = "owned"
      BY <1>0, <3>1 DEF HubParts, InPhases, InPhase, Searching
    <3>3. active[o].cleanup /\ active[o].session = p
      BY <2>1
    <3> QED BY <3>2, <3>3 DEF Live
  <2>2. CASE active[o] # [session |-> p, cleanup |-> TRUE]
    BY <1>1, <1>2, <2>2 DEF Rivals, Live
  <2> QED BY <2>1, <2>2
<1>3. ASSUME NEW p \in Offers \ {o}, pc[p] \in Holding PROVE req[p].target # t
  BY <1>1, <1>3 DEF Rivals, Holding
<1> QED BY <1>2, <1>3

\* Whatever an offer resumes from, it starts with all that was said, if the
\* source was in step with the log.
LEMMA ResumesInTurn ==
  ASSUME Steady, NEW o \in Offers, NEW t \in Offers,
         NEW from \in {"owned", "archive", "index"}, NEW how,
         t = req[o].target,
         Step(o, from, "dial"),
         from = "owned" /\ active[o].cleanup => closing[active[o].session] = "closed",
         Resumes(o, t, how),
         Clean(t)' /\ Rivals(o, t) = {} => Caught(full'[o], start'[o], t),
         \A p \in Offers \ {o} : full'[p] = full[p] /\ start'[p] = start[p],
         UNCHANGED <<req, active, hist, seq, closing, snap, wired, conns, archives>>
  PROVE  HubInv'
<1>0. TypeOK /\ HubParts /\ HubSound /\ Mapped
  BY SteadyMapped
<1>1. /\ pc[o] = from /\ pc'[o] = "dial" /\ sid'[o] = t
      /\ \A p \in Offers \ {o} : pc'[p] = pc[p] /\ sid'[p] = sid[p]
  BY <1>0 DEF Mapped, Step, Resumes
<1>2. contested \subseteq contested' /\ tainted \subseteq tainted'
  BY DEF Resumes
<1>3. UNCHANGED <<log, lapsed>>
  BY DEF Resumes
<1>4. ASSUME t \notin contested' PROVE Rivals(o, t) = {}
  BY <1>4 DEF Resumes
<1>5. t \notin contested' =>
        /\ \A p \in Offers \ {o} : sid[p] = t => ~Live(p)
        /\ \A p \in Offers \ {o} : pc[p] \in Holding => req[p].target # t
  BY <1>1, <1>4, NoRivals
<1>6. Clean(t)' => Caught(full'[o], start'[o], t)
  BY <1>4 DEF Clean
<1>7. \A p \in Offers \ {o} : pc'[p] = pc[p] /\ sid'[p] = sid[p] /\ full'[p] = full[p] /\ start'[p] = start[p]
  BY <1>1
<1>8. UNCHANGED <<req, active, hist, seq, closing, snap, wired, conns, archives, log, lapsed>>
  BY <1>3
<1>9. pc[o] \in {"owned", "archive", "index"}
  BY <1>1
<1> QED BY <1>1, <1>2, <1>5, <1>6, <1>7, <1>8, <1>9, Resumed

\* A resume from a live session, from the archive and from the index.
LEMMA HitInTurn ==
  ASSUME Steady, NEW o \in Offers,
         MemoryHit(o) \/ ResumeArchive(o) \/ IndexHit(o)
  PROVE  HubInv'
<1> USE DEF sessionVars, recorderVars, hubVars, shutVars, historyVars
<1> DEFINE t == req[o].target
<1>0. TypeOK /\ HubParts /\ HubSound /\ Mapped
  BY SteadyMapped
<1>1. CASE MemoryHit(o)
  <2>1. Step(o, "owned", "dial") /\ Resumes(o, t, "memory_hit")
    BY <1>1 DEF MemoryHit
  <2>2. pc[o] = "owned" /\ t \in Offers
    BY <1>0, <2>1 DEF Step, HubSound, Lookups
  <2>3. UNCHANGED <<req, active, full, start, hist, seq, closing, snap, wired, conns, archives>>
    BY <1>1 DEF MemoryHit
  <2>4. ASSUME Clean(t)' PROVE Caught(full'[o], start'[o], t)
    <3>1. Clean(t)
      BY <2>1, <2>3, <2>4 DEF Clean, Resumes
    <3>2. Newest(full[o]) = Newest(log[t]) /\ start[o] = Len(log[t])
      BY <1>0, <2>2, <3>1 DEF HubParts, HeldCaught, Holding
    <3> QED BY <2>3, <3>2 DEF Caught
  <2>5. active[o].cleanup => closing[active[o].session] = "closed"
    BY <1>1 DEF MemoryHit
  <2>6. \A p \in Offers \ {o} : full'[p] = full[p] /\ start'[p] = start[p]
    BY <2>3
  <2> HIDE DEF t
  <2> QED BY <2>1, <2>2, <2>3, <2>4, <2>5, <2>6, ResumesInTurn DEF t
<1>2. CASE ResumeArchive(o)
  <2> DEFINE a == archives[t]
  <2>1. pc[o] = "archive" /\ t \in Offers
    BY <1>0, <1>2 DEF ResumeArchive, HubSound, Lookups
  <2>2. UNCHANGED <<req, active, hist, seq, closing, snap, wired, conns, archives>>
    BY <1>2 DEF ResumeArchive
  <2>3. CASE ArchiveMatches(o, a)
    <3>1. /\ Step(o, "archive", "dial") /\ Resumes(o, t, "memory_hit")
          /\ full' = [full EXCEPT ![o] = a.hist]
          /\ start' = [start EXCEPT ![o] = a.maxSeq]
      BY <1>2, <2>3 DEF ResumeArchive
    <3>2. full'[o] = a.hist /\ start'[o] = a.maxSeq
      BY <1>0, <3>1 DEF Mapped
    <3>3. \A p \in Offers \ {o} : full'[p] = full[p] /\ start'[p] = start[p]
      BY <1>0, <3>1 DEF Mapped
    <3>4. ASSUME Clean(t)', Rivals(o, t) = {} PROVE Caught(full'[o], start'[o], t)
      <4>1. Clean(t)
        BY <2>2, <3>1, <3>4 DEF Clean, Resumes
      <4>2. \A p \in Offers \ {o} : sid[p] = t => ~Live(p)
        BY <2>1, <3>4, NoRivals
      <4>3. \A p \in Offers : sid[p] = t /\ Served(p) => closing[p] = "closed"
        BY <2>1, <4>2 DEF Live, Served
      <4>4. a # None
        BY <2>3 DEF ArchiveMatches
      <4>5. Caught(a.hist, a.maxSeq, t)
        BY <1>0, <2>1, <4>1, <4>3, <4>4 DEF HubParts, ArchiveCaught
      <4> QED BY <3>2, <4>5
    <3> HIDE DEF t
    <3> QED BY <2>1, <2>2, <3>1, <3>3, <3>4, ResumesInTurn DEF t
  <2>4. CASE ~ArchiveMatches(o, a)
    <3>1. Step(o, "archive", "index")
          /\ UNCHANGED <<sid, full, start, log, contested, tainted, lapsed>>
      BY <1>2, <2>4 DEF ResumeArchive
    <3> QED BY <2>2, <3>1, LooksOn
  <2> QED BY <2>3, <2>4
<1>3. CASE IndexHit(o)
  <2> DEFINE found == {l \in Range(log[t]) : /\ req[l.by].user = req[o].user
                                             /\ req[l.by].provider = req[o].provider
                                             /\ l.seq > req[o].last}
  <2>1. Step(o, "index", "dial") /\ UNCHANGED <<req, active, hist, seq, closing, snap, wired, conns, archives>>
    BY <1>3 DEF IndexHit
  <2>2. pc[o] = "index" /\ t \in Offers
    BY <1>0, <2>1 DEF Step, HubSound, Lookups
  <2>3. PICK kept \in (SUBSET found) \ {{}} : \E lines \in Sorted(kept) :
          /\ full' = [full EXCEPT ![o] = lines]
          /\ start' = [start EXCEPT ![o] = Last(lines).seq]
          /\ Resumes(o, t, "index_hit")
    BY <1>3 DEF IndexHit
  <2>4. PICK lines \in Sorted(kept) :
          /\ full' = [full EXCEPT ![o] = lines]
          /\ start' = [start EXCEPT ![o] = Last(lines).seq]
          /\ Resumes(o, t, "index_hit")
    BY <2>3
  <2>5. lines \in Seq(Line) /\ Len(lines) \in Nat \ {0}
    <3>1. log[t] \in Seq(Line) /\ found \subseteq Range(log[t])
      BY <1>0, <2>2 DEF TypeOK
    <3> HIDE DEF found
    <3> QED BY <2>3, <2>4, <3>1, SortedIs
  <2>6. full'[o] = lines /\ start'[o] = Last(lines).seq
    BY <1>0, <2>4 DEF Mapped
  <2>7. \A p \in Offers \ {o} : full'[p] = full[p] /\ start'[p] = start[p]
    BY <1>0, <2>4 DEF Mapped
  <2>8. ASSUME Clean(t)' PROVE Caught(full'[o], start'[o], t)
    <3>1. Clean(t) /\ lines = log[t]
      <4>1. t \in tainted' \/ full'[o] = log[t]
        BY <2>4 DEF Resumes
      <4>2. tainted \subseteq tainted' /\ contested \subseteq contested'
        BY <2>4 DEF Resumes
      <4> QED BY <2>1, <2>6, <2>8, <4>1, <4>2 DEF Clean
    <3>2. \A k \in 1..Len(log[t]) : log[t][k].seq = k
      BY <1>0, <2>2, <3>1 DEF HubParts, SeqsOnce, Clean
    <3>3. Last(lines).seq = Len(log[t])
      BY <2>5, <3>1, <3>2 DEF Last
    <3>4. log' = log
      BY <2>4 DEF Resumes
    <3> QED BY <2>6, <3>1, <3>3, <3>4 DEF Caught
  <2>9. Resumes(o, t, "index_hit")
    BY <2>4
  <2> HIDE DEF t, found
  <2> QED BY <2>1, <2>2, <2>7, <2>8, <2>9, ResumesInTurn DEF t
<1> QED BY <1>1, <1>2, <1>3

\* Dialling the provider, registering the session and answering.
LEMMA StartInTurn ==
  ASSUME Steady, NEW o \in Offers, Start(o)
  PROVE  HubInv'
<1> USE DEF offerVars, sessionVars, recorderVars, hubVars, shutVars, historyVars
<1>0. TypeOK /\ HubParts /\ HubSound /\ Mapped
  BY SteadyMapped
<1>1. CASE DialFails(o)
  <2>1. /\ pc[o] = "dial" /\ pc'[o] = "failed"
        /\ \A p \in Offers \ {o} : pc'[p] = pc[p]
    BY <1>0, <1>1 DEF Mapped, Step, DialFails
  <2>2. UNCHANGED <<req, sid, active, full, start, hist, seq, closing, snap, wired, conns, archives, log, contested, tainted, lapsed>>
    BY <1>1 DEF DialFails
  <2>3. closing'[o] \in {closing[o], "closed"} /\ \A p \in Offers \ {o} : pc'[p] = pc[p] /\ closing'[p] = closing[p]
    BY <2>1, <2>2
  <2> QED BY <2>1, <2>2, <2>3, Fails
<1>2. CASE Abort(o)
  <2>1. /\ pc[o] = "dial" /\ pc'[o] = "failed" /\ closing'[o] \in {closing[o], "closed"}
        /\ \A p \in Offers \ {o} : pc'[p] = pc[p] /\ closing'[p] = closing[p]
    BY <1>0, <1>2 DEF Mapped, Step, Abort
  <2>2. UNCHANGED <<req, sid, active, full, start, hist, seq, snap, wired, conns, archives, log, contested, tainted, lapsed>>
    BY <1>2 DEF Abort
  <2> QED BY <2>1, <2>2, Fails
<1>3. CASE Serve(o)
  <2>1. /\ pc[o] = "dial" /\ pc'[o] = "added"
        /\ hist'[o] = full[o]
        /\ seq'[o] = start[o]
        /\ \A p \in Offers \ {o} : pc'[p] = pc[p] /\ hist'[p] = hist[p] /\ seq'[p] = seq[p]
    BY <1>0, <1>3 DEF Mapped, Step, Serve, FirstSeq
  <2>2. sid[o] \in Offers
    BY <1>0 DEF HubSound
  <2>3. conns'[sid[o]] = o /\ \A s \in Offers \ {sid[o]} : conns'[s] = conns[s]
    BY <1>0, <1>3, <2>2 DEF Mapped, Serve
  <2>4. UNCHANGED <<req, sid, active, full, start, closing, snap, wired, archives, log, contested, tainted, lapsed>>
    BY <1>3 DEF Serve
  <2> QED BY <2>1, <2>3, <2>4, Serves
<1>4. CASE Wire(o)
  <2>1. /\ pc[o] = "added" /\ pc'[o] = "answered" /\ wired'[o]
        /\ \A p \in Offers \ {o} : pc'[p] = pc[p] /\ wired'[p] = wired[p]
    BY <1>0, <1>4 DEF Mapped, Step, Wire
  <2>2. UNCHANGED <<req, sid, active, full, start, hist, seq, closing, snap, conns, archives, log, contested, tainted, lapsed>>
    BY <1>4 DEF Wire
  <2> QED BY <2>1, <2>2, Wires
<1> QED BY <1>1, <1>2, <1>3, <1>4 DEF Start

\* A line is recorded under the id of its session.
LEMMA RecordInTurn ==
  ASSUME Steady, NEW o \in Offers, Record(o)
  PROVE  HubInv'
<1> USE DEF offerVars, hubVars, shutVars
<1> DEFINE line == [seq |-> seq[o] + 1, by |-> o]
<1>0. TypeOK /\ HubParts /\ HubSound /\ Mapped
  BY SteadyMapped
<1>1. line \in Line /\ line.seq = seq[o] + 1
  BY <1>0 DEF TypeOK, Line
<1>2. /\ pc[o] = "answered"
      /\ tainted' = IF HandedOver(o) THEN tainted \cup {sid[o]} ELSE tainted
  BY DEF Record
<1>3. /\ seq'[o] = seq[o] + 1
      /\ hist'[o] = Newest(Append(hist[o], line))
      /\ \A p \in Offers \ {o} : seq'[p] = seq[p] /\ hist'[p] = hist[p]
  BY <1>0 DEF Record, Mapped
<1>4. sid[o] \in Offers
  BY <1>0 DEF HubSound
<1>5. /\ log'[sid[o]] = Append(log[sid[o]], line)
      /\ \A s \in Offers \ {sid[o]} : log'[s] = log[s]
  BY <1>0, <1>4 DEF Record, Mapped
<1>6. UNCHANGED <<pc, req, sid, active, full, start, closing, snap, wired, conns, archives, contested, lapsed>>
  BY DEF Record
<1> HIDE DEF line
<1> QED BY <1>1, <1>2, <1>3, <1>5, <1>6, Records

\* A session begins to close when its connection is lost or CloseAll comes to it.
LEMMA CloseInTurn ==
  ASSUME Steady, NEW o \in Offers, Disconnect(o) \/ CloseNext(o)
  PROVE  HubInv'
<1> USE DEF offerVars, sessionVars, recorderVars, hubVars, shutVars, historyVars
<1>0. TypeOK /\ HubParts /\ HubSound /\ Mapped
  BY SteadyMapped
<1>1. UNCHANGED <<pc, req, sid, active, full, start, hist, seq, snap, wired, conns, archives, log, contested, tainted, lapsed>>
  BY DEF Disconnect, CloseNext
<1>2. CASE pc[o] = "answered" /\ Cleanup(o)
  <2>1. /\ (closing'[o] = closing[o]) \/ (closing[o] = "no" /\ closing'[o] = "hist")
        /\ \A p \in Offers \ {o} : closing'[p] = closing[p]
    BY <1>0, <1>2 DEF Mapped, Cleanup
  <2>2. \A p \in Offers : (pc'[p] = pc[p]) \/ (pc[p] = "takeover" /\ pc'[p] = "owned")
    BY <1>1
  <2> QED BY <1>1, <1>2, <2>1, <2>2, CloseBegins
<1>3. CASE UNCHANGED closing
  BY <1>1, <1>3, Idles
<1>4. wired[o] => pc[o] = "answered"
  BY <1>0 DEF HubParts, InPhases, InPhase
<1> QED BY <1>2, <1>3, <1>4 DEF Disconnect, CloseNext

\* remove reads the recorder, deletes the id and archives what it read.
LEMMA TeardownInTurn ==
  ASSUME Steady, NEW o \in Offers, Teardown(o)
  PROVE  HubInv'
<1> USE DEF offerVars, sessionVars, recorderVars, hubVars, shutVars, historyVars
<1>0. TypeOK /\ HubParts /\ HubSound /\ Mapped
  BY SteadyMapped
<1>1. snap[o] = [hist |-> snap[o].hist, maxSeq |-> snap[o].maxSeq] /\ sid[o] \in Offers
  BY <1>0 DEF TypeOK
<1>2. CASE SnapshotHistory(o)
  <2>1. /\ closing[o] = "hist" /\ closing'[o] = "seq"
        /\ \A p \in Offers \ {o} : closing'[p] = closing[p] /\ snap'[p] = snap[p]
    BY <1>0, <1>2 DEF Mapped, SnapshotHistory, Closes
  <2>2. snap'[o].hist = hist[o]
    BY <1>0, <1>2 DEF SnapshotHistory, TypeOK
  <2>3. UNCHANGED <<pc, req, sid, active, full, start, hist, seq, wired, conns, archives, log, contested, tainted, lapsed>>
    BY <1>2 DEF SnapshotHistory, Closes
  <2> QED BY <2>1, <2>2, <2>3, ReadsLines
<1>3. CASE SnapshotSeq(o)
  <2>1. /\ closing[o] = "seq" /\ closing'[o] = "delete"
        /\ \A p \in Offers \ {o} : closing'[p] = closing[p] /\ snap'[p] = snap[p]
    BY <1>0, <1>3 DEF Mapped, SnapshotSeq, Closes
  <2>2. snap'[o].hist = snap[o].hist /\ snap'[o].maxSeq = seq[o]
    BY <1>0, <1>3 DEF SnapshotSeq, TypeOK
  <2>3. UNCHANGED <<pc, req, sid, active, full, start, hist, seq, wired, conns, archives, log, contested, tainted, lapsed>>
    BY <1>3 DEF SnapshotSeq, Closes
  <2> QED BY <2>1, <2>2, <2>3, ReadsLast
<1>4. CASE Delete(o)
  <2>1. /\ closing[o] = "delete" /\ closing'[o] = "put"
        /\ \A p \in Offers \ {o} : closing'[p] = closing[p]
        /\ conns'[sid[o]] = None
        /\ \A s \in Offers \ {sid[o]} : conns'[s] = conns[s]
    BY <1>0, <1>1, <1>4 DEF Mapped, Delete, Closes
  <2>2. UNCHANGED <<pc, req, sid, active, full, start, hist, seq, snap, wired, archives, log, contested, tainted, lapsed>>
    BY <1>4 DEF Delete, Closes
  <2> QED BY <2>1, <2>2, Unregisters
<1>5. CASE Put(o)
  <2> DEFINE a == [provider |-> req[o].provider, user |-> req[o].user,
                   hist |-> snap[o].hist, maxSeq |-> snap[o].maxSeq]
  <2>1. /\ closing[o] = "put" /\ closing'[o] = "closed"
        /\ \A p \in Offers \ {o} : closing'[p] = closing[p]
    BY <1>0, <1>5 DEF Mapped, Put, Closes
  <2>2. UNCHANGED <<pc, req, sid, active, full, start, hist, seq, snap, wired, conns, log, contested, tainted>>
    BY <1>5 DEF Put, Closes
  <2>3. CASE snap[o].hist = <<>>
    <3>1. UNCHANGED <<archives, lapsed>>
      BY <1>5, <2>3 DEF Put
    <3> QED BY <2>1, <2>2, <2>3, <3>1, Archives
  <2>4. CASE snap[o].hist # <<>>
    <3>1. archives' = [archives EXCEPT ![sid[o]] = a] /\ lapsed' = lapsed \ {sid[o]}
      BY <1>5, <2>4 DEF Put
    <3>2. archives'[sid[o]] = a /\ \A s \in Offers \ {sid[o]} : archives'[s] = archives[s]
      BY <1>0, <1>1, <3>1 DEF Mapped
    <3>3. a \in Archive
      <4>1. snap[o].hist \in Seq(Line) /\ snap[o].maxSeq \in Nat
        BY <1>0 DEF TypeOK
      <4>2. closing[o] = "put" => pc[o] = "answered"
        BY <1>0 DEF HubParts, InPhases, InPhase
      <4>3. req[o] \in Request
        BY <2>1, <4>2 DEF Steady, Ownership, OffersOwn, Asked
      <4> QED BY <4>1, <4>3 DEF Archive, Request
    <3>4. archives'[sid[o]] # None
      BY <3>2, <3>3, NoneAssumption
    <3>5. archives'[sid[o]].hist = snap[o].hist /\ archives'[sid[o]].maxSeq = snap[o].maxSeq
      BY <3>2
    <3> HIDE DEF a
    <3> QED BY <2>1, <2>2, <2>4, <3>1, <3>2, <3>4, <3>5, Archives
  <2> QED BY <2>3, <2>4
<1> QED BY <1>2, <1>3, <1>4, <1>5 DEF Teardown

\* Every step leaves one session after the other.
LEMMA NextHubInv ==
  ASSUME Steady, [Next]_vars
  PROVE  HubInv'
<1>1. CASE UNCHANGED vars
  BY <1>1, Idles DEF vars, offerVars, sessionVars, recorderVars, hubVars, historyVars
<1>2. ASSUME NEW o \in Offers, Resolve(o) PROVE HubInv'
  BY <1>2, LookupInTurn, ReadInTurn, HitInTurn DEF Resolve
<1>3. ASSUME NEW o \in Offers, Expire(o) PROVE HubInv'
  <2>1. Mapped
    BY SteadyMapped
  <2>2. archives'[o] = None /\ \A q \in Offers \ {o} : archives'[q] = archives[q]
    BY <1>3, <2>1 DEF Expire, Mapped
  <2>3. lapsed' = lapsed \cup {o}
    BY <1>3 DEF Expire
  <2>4. UNCHANGED <<pc, req, sid, active, full, start, hist, seq, closing, snap, wired, conns, log, contested, tainted>>
    BY <1>3 DEF Expire, offerVars, sessionVars, recorderVars
  <2> QED BY <2>2, <2>3, <2>4, Expires
<1>4. ASSUME \/ \E o \in Offers : AbortReported(o) \/ GoroutinesExit(o)
             \/ Signal \/ Drained \/ WaitDone \/ MainReturns
      PROVE  HubInv'
  <2>1. UNCHANGED <<pc, req, sid, active, full, start, hist, seq, closing, snap, wired, conns, archives, log, contested, tainted, lapsed>>
    BY <1>4 DEF AbortReported, GoroutinesExit, Signal, Drained, WaitDone, MainReturns,
                offerVars, sessionVars, recorderVars, hubVars, historyVars
  <2> QED BY <2>1, Idles
<1>5. ASSUME NEW o \in Offers,
             Arrive(o) \/ Start(o) \/ Record(o) \/ Disconnect(o) \/ CloseNext(o) \/ Teardown(o)
      PROVE  HubInv'
  BY <1>5, ArriveInTurn, StartInTurn, RecordInTurn, CloseInTurn, TeardownInTurn
<1> QED BY <1>1, <1>2, <1>3, <1>4, <1>5, Zenon DEF Next, CloseAll

\* Nobody has come, and nothing was said.
LEMMA InitHubInv == Init => HubInv
<1> SUFFICES ASSUME Init PROVE HubInv
  OBVIOUS
<1>1. InPhases
  BY DEF Init, InPhases, InPhase, Searching, Holding
<1>2. Minted /\ Spoken
  BY DEF Init, Minted, Spoken
<1>3. Named /\ Serial /\ HeldAlone /\ Enrolled
  BY DEF Init, Named, Serial, HeldAlone, Enrolled, Served, Live, Holding
<1>4. AllCaught
  BY DEF Init, AllCaught, StartsCaught, RecorderCaught, HeldCaught, SnapCaught, ArchiveCaught,
         Served, Holding
<1>5. SeqsOnce /\ FoundUntilExpiry
  BY DEF Init, SeqsOnce, FoundUntilExpiry
<1> QED BY <1>1, <1>2, <1>3, <1>4, <1>5 DEF HubInv, InTurn

\* The sessions of an id follow one another, and none misses a line.
LEMMA HubSteady == Spec => []Steady
<1>1. Init => Steady
  BY InitIInv, InitHubInv DEF Steady, IInv
<1>2. Steady /\ [Next]_vars => Steady'
  BY NextIInv, NextHubInv DEF Steady, IInv
<1> QED BY <1>1, <1>2, PTL DEF Spec

\* A session that was answered and is not being removed is found under its id
\* by CloseAll and by the next reconnect, unless two offers resumed the id at
\* once: Hub.add and Hub.remove (bridge.go) go by the id alone, and takeover waits
\* for the session that is replaced.
THEOREM HubRegistered == Spec => []RegisteredUnlessContested
<1>1. Steady => RegisteredUnlessContested
  BY SteadyParts DEF HubParts, Enrolled, Served, RegisteredUnlessContested
<1> QED BY <1>1, HubSteady, PTL

\* Over all the sessions an id ever had, a recorder (recorder.go) goes on where
\* the one before stopped: no seq is given twice and none is left out, unless
\* the id was contested or a line came after its recorder was read.
THEOREM HubSeqsOnce == Spec => []SeqsOnce
<1>1. Steady => SeqsOnce
  BY SteadyParts DEF HubParts
<1> QED BY <1>1, HubSteady, PTL

\* A session resumed from memory starts with every line that a recorder
\* retains, from the live session, from what remove archived (bridge.go,
\* archive.go) or after any chain of the two, under the same two conditions.
THEOREM HubHandsOver == Spec => []HandoverComplete
<1>1. Steady => HandoverComplete
  BY SteadyParts DEF HubParts, StartsCaught, Clean, Caught, HandoverComplete
<1> QED BY <1>1, HubSteady, PTL

\* What was said under an id is under it until its archive expires, except
\* between delete and put in Hub.remove, whatever dials fail and whoever
\* reconnects.
THEOREM HubFound == Spec => []FoundUntilExpiry
<1>1. Steady => FoundUntilExpiry
  BY SteadyParts DEF HubParts
<1> QED BY <1>1, HubSteady, PTL

----------------------------------------------------------------------------
(* One conversation                                                        *)

\* An id has the session that is live in it, and what that one keeps are the
\* newest lines.
HolderIs(s) ==
  /\ \A p \in Offers : Clean(s) /\ sid[p] = s /\ Live(p) => Holder(s) = p
  /\ Holder(s) # None => Holder(s) \in Offers /\ Clean(s) /\ sid[Holder(s)] = s /\ Live(Holder(s))
  /\ Kept(s) = IF Holder(s) = None THEN <<>> ELSE Newest(Said(s))
HoldersAre == \A s \in Offers : HolderIs(s)

\* Only one session is live in an id, and it has all that was said.
LEMMA SteadyHolders == Steady => HoldersAre
<1> SUFFICES ASSUME Steady, NEW s \in Offers PROVE HolderIs(s)
  BY DEF HoldersAre
<1>0. HubParts /\ HubSound
  BY SteadyParts
<1> DEFINE live == {p \in Offers : sid[p] = s /\ Live(p)}
<1>1. ASSUME Holder(s) # None PROVE Clean(s) /\ Holder(s) \in live
  <2>1. Clean(s) /\ live # {} /\ Holder(s) = CHOOSE p \in live : TRUE
    BY <1>1 DEF Holder
  <2> HIDE DEF live
  <2> QED BY <2>1
<1>2. ASSUME NEW p \in Offers, Clean(s), sid[p] = s, Live(p) PROVE Holder(s) = p
  <2>1. p \in live
    BY <1>2
  <2>2. Holder(s) = CHOOSE q \in live : TRUE
    BY <1>2, <2>1 DEF Holder
  <2>3. (CHOOSE q \in live : TRUE) \in live
    <3> HIDE DEF live
    <3> QED BY <2>1
  <2>4. Holder(s) \in Offers /\ sid[Holder(s)] = s /\ Live(Holder(s))
    BY <2>2, <2>3
  <2>5. s \notin contested
    BY <1>2 DEF Clean
  <2> QED BY <1>0, <1>2, <2>4, <2>5 DEF HubParts, Serial
<1>3. ASSUME Holder(s) # None PROVE Kept(s) = Newest(Said(s))
  <2> DEFINE h == Holder(s)
  <2>1. h \in Offers /\ sid[h] = s /\ Live(h) /\ Clean(s)
    BY <1>1, <1>3
  <2>2. CASE pc[h] = "dial"
    BY <1>0, <1>3, <2>1, <2>2 DEF HubParts, StartsCaught, Caught, Kept, Said
  <2>3. CASE pc[h] # "dial"
    <3>1. Served(h)
      BY <2>1, <2>3 DEF Live, Served
    <3>2. Newest(hist[h]) = Newest(log[s])
      BY <1>0, <2>1, <3>1 DEF HubParts, RecorderCaught, Caught
    <3> QED BY <1>3, <2>1, <2>3, <3>2 DEF Kept, Said
  <2> QED BY <2>2, <2>3
<1>4. Holder(s) = None => Kept(s) = <<>>
  BY DEF Kept
<1> QED BY <1>1, <1>2, <1>3, <1>4 DEF HolderIs

\* The state of an id in the conversation is what it was.
Stays(s) == Holder(s)' = Holder(s) /\ Kept(s)' = Kept(s) /\ Said(s)' = Said(s)

\* An id stays what it is, if it is not given up, nobody speaks in it and the
\* same offers are live in it.
LEMMA StaysWhen ==
  ASSUME HoldersAre, HoldersAre', NEW s \in Offers,
         None \notin Offers,
         Clean(s)' <=> Clean(s),
         Clean(s) => log'[s] = log[s],
         \A p \in Offers : Clean(s) => ((sid'[p] = s /\ Live(p)') <=> (sid[p] = s /\ Live(p)))
  PROVE  Stays(s)
<1>1. HolderIs(s) /\ HolderIs(s)'
  BY DEF HoldersAre
<1>2. Said(s)' = Said(s)
  BY DEF Said
<1>3. Holder(s)' = Holder(s)
  <2>1. CASE Holder(s) # None
    BY <1>1, <2>1 DEF HolderIs
  <2>2. CASE Holder(s)' # None
    BY <1>1, <2>2 DEF HolderIs
  <2> QED BY <2>1, <2>2
<1>4. Kept(s)' = Kept(s)
  BY <1>1, <1>2, <1>3 DEF HolderIs, Newest
<1> QED BY <1>2, <1>3, <1>4 DEF Stays

\* Whom an id has, of ids that are not given up only.
LEMMA GivenUp ==
  ASSUME NEW s \in Offers, ~Clean(s)
  PROVE  Holder(s) = None /\ Kept(s) = <<>> /\ Said(s) = <<>>
BY DEF Holder, Kept, Said

\* A step of the conversation, or none.
Converses == [Conv!Next]_Conv!vars

\* A step in which all ids stay what they are.
LEMMA AllStay ==
  ASSUME \A s \in Offers : Stays(s), contested' \cup tainted' = contested \cup tainted
  PROVE  Converses
BY DEF Stays, Converses, Conv!vars

\* One id gets a session.
LEMMA Takes ==
  ASSUME NEW s \in Offers, NEW o \in Offers,
         HoldersAre', None \notin Offers,
         Clean(s), Holder(s) = None, Holder(s)' = o, Said(s)' = Said(s),
         \A r \in Offers \ {s} : Stays(r),
         contested' \cup tainted' = contested \cup tainted
  PROVE  Converses
<1> DEFINE h == [r \in Offers |-> Holder(r)]
           k == [r \in Offers |-> Kept(r)]
           d == [r \in Offers |-> Said(r)]
<1>1. Kept(s)' = Newest(Said(s))
  BY DEF HoldersAre, HolderIs, Newest
<1>2. h' = [h EXCEPT ![s] = o]
  BY DEF Stays
<1>3. k' = [k EXCEPT ![s] = Newest(Said(s))]
  BY <1>1 DEF Stays
<1>4. d' = d
  BY DEF Stays
<1>5. Newest(Said(s)) = Conv!Newest(d[s])
  BY DEF Newest, Conv!Newest
<1>6. Conv!Take(s, o)
  BY <1>2, <1>3, <1>4, <1>5, Zenon DEF Conv!Take, Clean
<1> QED BY <1>6 DEF Converses, Conv!Next

\* The session of one id speaks.
LEMMA Says ==
  ASSUME NEW s \in Offers,
         HoldersAre', None \notin Offers,
         Holder(s) # None, Holder(s)' = Holder(s),
         Said(s)' = Append(Said(s), [seq |-> Len(Said(s)) + 1, by |-> Holder(s)]),
         \A r \in Offers \ {s} : Stays(r),
         contested' \cup tainted' = contested \cup tainted
  PROVE  Converses
<1> DEFINE h == [r \in Offers |-> Holder(r)]
           k == [r \in Offers |-> Kept(r)]
           d == [r \in Offers |-> Said(r)]
<1>1. Kept(s)' = Newest(Said(s)')
  BY DEF HoldersAre, HolderIs, Newest
<1>2. h' = h
  BY DEF Stays
<1>3. d' = [d EXCEPT ![s] = Append(@, [seq |-> Len(@) + 1, by |-> h[s]])]
  BY DEF Stays
<1>4. k' = [k EXCEPT ![s] = Newest(d'[s])]
  BY <1>1 DEF Stays
<1>5. Newest(d'[s]) = Conv!Newest(d'[s])
  BY DEF Newest, Conv!Newest
<1>6. h[s] # None
  OBVIOUS
<1>7. Conv!Say(s)
  BY <1>2, <1>3, <1>4, <1>5, <1>6, Zenon DEF Conv!Say
<1> QED BY <1>7 DEF Converses, Conv!Next

\* One id loses its session.
LEMMA Leaves ==
  ASSUME NEW s \in Offers,
         HoldersAre',
         Holder(s) # None, Holder(s)' = None, Said(s)' = Said(s),
         \A r \in Offers \ {s} : Stays(r),
         contested' \cup tainted' = contested \cup tainted
  PROVE  Converses
<1> DEFINE h == [r \in Offers |-> Holder(r)]
           k == [r \in Offers |-> Kept(r)]
           d == [r \in Offers |-> Said(r)]
<1>1. Kept(s)' = <<>>
  BY DEF HoldersAre, HolderIs
<1>2. h' = [h EXCEPT ![s] = None]
  <2>1. \A r \in Offers : Holder(r)' = IF r = s THEN None ELSE Holder(r)
    BY DEF Stays
  <2> QED BY <2>1, Zenon
<1>3. k' = [k EXCEPT ![s] = <<>>]
  BY <1>1 DEF Stays
<1>4. d' = d
  BY DEF Stays
<1>5. h[s] # None
  OBVIOUS
<1>6. Conv!Leave(s)
  BY <1>2, <1>3, <1>4, <1>5, Zenon DEF Conv!Leave
<1> QED BY <1>6 DEF Converses, Conv!Next

\* One id is given up, or was before.
LEMMA GivesUpId ==
  ASSUME NEW s \in Offers,
         ~Clean(s)',
         \A r \in Offers \ {s} : Stays(r),
         contested' \cup tainted' = (contested \cup tainted) \cup {s}
  PROVE  Converses
<1> DEFINE h == [r \in Offers |-> Holder(r)]
           k == [r \in Offers |-> Kept(r)]
           d == [r \in Offers |-> Said(r)]
<1>1. Holder(s)' = None /\ Kept(s)' = <<>> /\ Said(s)' = <<>>
  BY DEF Clean, Holder, Kept, Said
<1>2. h' = [h EXCEPT ![s] = None]
  BY <1>1 DEF Stays
<1>3. k' = [k EXCEPT ![s] = <<>>]
  BY <1>1 DEF Stays
<1>4. d' = [d EXCEPT ![s] = <<>>]
  BY <1>1 DEF Stays
<1>5. Conv!GiveUp(s)
  BY <1>2, <1>3, <1>4, Zenon DEF Conv!GiveUp
<1> QED BY <1>5 DEF Converses, Conv!Next

\* What a step of the conversation starts from and leads to.
Settling == Steady /\ HoldersAre /\ HoldersAre' /\ None \notin Offers

\* A step in which nobody takes an id or leaves it, and nobody speaks.
LEMMA Undisturbed ==
  ASSUME Settling,
         \A p \in Offers : sid'[p] = sid[p] /\ (Live(p)' <=> Live(p)),
         UNCHANGED <<log, contested, tainted>>
  PROVE  Converses
<1>1. ASSUME NEW s \in Offers PROVE Stays(s)
  <2>1. Clean(s)' <=> Clean(s)
    BY DEF Clean
  <2> QED BY <2>1, StaysWhen DEF Settling
<1> QED BY <1>1, AllStay

\* An offer begins with the id minted for it.
LEMMA BeginsFresh ==
  ASSUME Settling, NEW o \in Offers,
         pc[o] \in Searching, pc'[o] = "dial",
         \A p \in Offers \ {o} : pc'[p] = pc[p],
         UNCHANGED <<sid, closing, log, contested, tainted>>
  PROVE  Converses
<1>0. HubParts /\ HubSound
  BY SteadyParts DEF Settling
<1>1. sid[o] = o /\ closing[o] # "closed" /\ ~Live(o)
  BY <1>0 DEF HubParts, InPhases, InPhase, Searching, Live
<1>2. \A p \in Offers : sid[p] = o => p = o
  BY <1>0 DEF HubParts, Minted, KnownId, Searching
<1>3. \A p \in Offers \ {o} : Live(p)' <=> Live(p)
  BY DEF Live
<1>4. Live(o)'
  BY <1>1 DEF Live
<1>5. \A s \in Offers : Clean(s)' <=> Clean(s)
  BY DEF Clean
<1>6. ASSUME NEW s \in Offers \ {o} PROVE Stays(s)
  BY <1>1, <1>3, <1>5, StaysWhen DEF Settling
<1>7. CASE Clean(o)
  <2>1. Holder(o) = None
    BY <1>1, <1>2 DEF Settling, HoldersAre, HolderIs
  <2>2. Holder(o)' = o
    BY <1>1, <1>4, <1>5, <1>7 DEF Settling, HoldersAre, HolderIs
  <2>3. Said(o)' = Said(o)
    BY <1>5 DEF Said
  <2> QED BY <1>6, <1>7, <2>1, <2>2, <2>3, Takes DEF Settling
<1>8. CASE ~Clean(o)
  <2>1. Stays(o)
    BY <1>5, <1>8, StaysWhen DEF Settling
  <2> QED BY <1>6, <2>1, AllStay
<1> QED BY <1>7, <1>8

\* A live session or an offer that was to start one leaves its id.
LEMMA LeavesId ==
  ASSUME Settling, NEW o \in Offers, NEW s \in Offers,
         s = sid[o], Live(o), ~Live(o)',
         \A p \in Offers \ {o} : Live(p)' <=> Live(p),
         UNCHANGED <<sid, log, contested, tainted>>
  PROVE  Converses
<1>1. \A r \in Offers : Clean(r)' <=> Clean(r)
  BY DEF Clean
<1>2. ASSUME NEW r \in Offers, r # s PROVE Stays(r)
  BY <1>1, <1>2, StaysWhen DEF Settling
<1>3. CASE Clean(s)
  <2>1. Holder(s) = o
    BY <1>3 DEF Settling, HoldersAre, HolderIs
  <2>2. Holder(s)' = None
    <3> SUFFICES ASSUME Holder(s)' # None PROVE FALSE
      OBVIOUS
    <3>1. Holder(s)' \in Offers /\ sid'[Holder(s)'] = s /\ Live(Holder(s))'
      BY DEF Settling, HoldersAre, HolderIs
    <3>2. Holder(s)' # o
      BY <3>1
    <3>3. Live(Holder(s)') /\ sid[Holder(s)'] = s
      BY <3>1, <3>2 DEF Live
    <3>4. Holder(s) = Holder(s)'
      BY <1>3, <3>1, <3>3 DEF Settling, HoldersAre, HolderIs
    <3> QED BY <2>1, <3>2, <3>4
  <2>3. Said(s)' = Said(s)
    BY <1>1 DEF Said
  <2> QED BY <1>2, <2>1, <2>2, <2>3, Leaves DEF Settling
<1>4. CASE ~Clean(s)
  <2>1. Stays(s)
    BY <1>1, <1>4, StaysWhen DEF Settling
  <2> QED BY <1>2, <2>1, AllStay
<1> QED BY <1>3, <1>4

\* An offer takes over the id that it resumes, or that id is given up.
LEMMA ResumesId ==
  ASSUME Settling, NEW o \in Offers, NEW t \in Offers, NEW how,
         NEW from \in {"owned", "archive", "index"},
         Step(o, from, "dial"),
         from = "owned" /\ active[o].cleanup => closing[active[o].session] = "closed",
         Resumes(o, t, how),
         UNCHANGED closing
  PROVE  Converses
<1>0. HubParts /\ HubSound /\ Mapped
  BY SteadyMapped DEF Settling
<1>1. /\ pc[o] = from /\ pc'[o] = "dial" /\ sid'[o] = t
      /\ \A p \in Offers \ {o} : pc'[p] = pc[p] /\ sid'[p] = sid[p]
  BY <1>0 DEF Mapped, Step, Resumes
<1>2. /\ contested \subseteq contested' /\ contested' \subseteq contested \cup {t}
      /\ tainted \subseteq tainted' /\ tainted' \subseteq tainted \cup {t}
      /\ log' = log
  BY DEF Resumes
<1>3. closing[o] # "closed" /\ ~Live(o) /\ Live(o)'
  BY <1>0, <1>1 DEF HubParts, InPhases, InPhase, Live
<1>4. \A p \in Offers \ {o} : Live(p)' <=> Live(p)
  BY <1>1 DEF Live
<1>5. ASSUME NEW r \in Offers \ {t} PROVE Stays(r)
  <2>1. Clean(r)' <=> Clean(r)
    BY <1>2 DEF Clean
  <2>2. \A p \in Offers : (sid'[p] = r /\ Live(p)') <=> (sid[p] = r /\ Live(p))
    BY <1>1, <1>3, <1>4
  <2> QED BY <1>2, <2>1, <2>2, StaysWhen DEF Settling
<1>6. CASE Clean(t)'
  <2>1. Clean(t) /\ contested' = contested /\ tainted' = tainted
    BY <1>2, <1>6 DEF Clean
  <2>2. Rivals(o, t) = {}
    BY <1>6 DEF Resumes, Clean
  <2>3. \A p \in Offers \ {o} : sid[p] = t => ~Live(p)
    BY <1>1, <2>2, NoRivals DEF Settling
  <2>4. Holder(t) = None
    BY <1>3, <2>3 DEF Settling, HoldersAre, HolderIs
  <2>5. Holder(t)' = o
    BY <1>1, <1>3, <1>6 DEF Settling, HoldersAre, HolderIs
  <2>6. Said(t)' = Said(t)
    BY <1>2, <1>6, <2>1 DEF Said
  <2> QED BY <1>5, <2>1, <2>4, <2>5, <2>6, Takes DEF Settling
<1>7. CASE ~Clean(t)'
  <2>1. contested' \cup tainted' = (contested \cup tainted) \cup {t}
    BY <1>2, <1>7 DEF Clean
  <2> QED BY <1>5, <1>7, <2>1, GivesUpId
<1> QED BY <1>6, <1>7

\* The look-ups, in the hub's map, in the archive and in the index.
LEMMA ResolveConverses ==
  ASSUME Settling, NEW o \in Offers, Resolve(o)
  PROVE  Converses
<1> USE DEF offerVars, sessionVars, recorderVars, hubVars, shutVars, historyVars
<1>0. HubParts /\ HubSound /\ Mapped
  BY SteadyMapped DEF Settling
<1>1. ASSUME NEW from \in Lookups,
             NEW to \in {"state_archive", "resume", "archive", "index", "history", "seq",
                         "takeover", "owned", "refused"},
             Step(o, from, to),
             \A p \in Offers : (closing'[p] = "closed") <=> (closing[p] = "closed"),
             UNCHANGED <<sid, log, contested, tainted>>
      PROVE  Converses
  <2>1. pc[o] = from /\ pc'[o] = to /\ \A p \in Offers \ {o} : pc'[p] = pc[p]
    BY <1>0, <1>1 DEF Mapped, Step
  <2>2. \A p \in Offers : sid'[p] = sid[p] /\ (Live(p)' <=> Live(p))
    BY <1>1, <2>1 DEF Live, Lookups
  <2> QED BY <1>1, <2>2, Undisturbed
<1>2. ASSUME NEW from \in {"state", "state_archive", "resume", "archive", "index"},
             Step(o, from, "dial"),
             UNCHANGED <<sid, closing, log, contested, tainted>>
      PROVE  Converses
  <2>1. pc[o] = from /\ pc'[o] = "dial" /\ \A p \in Offers \ {o} : pc'[p] = pc[p]
    BY <1>0, <1>2 DEF Mapped, Step
  <2> QED BY <1>2, <2>1, BeginsFresh DEF Searching
<1>3. CASE StateInConns(o)
  <2>1. PICK to \in {"state_archive", "resume", "refused", "dial"} : Step(o, "state", to)
    BY <1>3 DEF StateInConns, Checked
  <2> QED BY <1>1, <1>2, <1>3, <2>1 DEF StateInConns, Lookups
<1>4. CASE StateInArchive(o)
  <2>1. PICK to \in {"resume", "refused", "dial"} : Step(o, "state_archive", to)
    BY <1>4 DEF StateInArchive, Checked
  <2> QED BY <1>1, <1>2, <1>4, <2>1 DEF StateInArchive, Lookups
<1>5. CASE ResumeFind(o)
  <2>1. PICK to \in {"archive", "history", "index"} : Step(o, "resume", to)
    BY <1>5 DEF ResumeFind
  <2> QED BY <1>1, <1>5, <2>1 DEF ResumeFind, Lookups
<1>6. CASE ReadHistory(o)
  BY <1>1, <1>6 DEF ReadHistory, Lookups
<1>7. CASE ReadSeq(o)
  <2>1. PICK to \in {"takeover", "owned"} : Step(o, "seq", to)
    BY <1>7 DEF ReadSeq
  <2> QED BY <1>1, <1>7, <2>1 DEF ReadSeq, Lookups
<1>8. CASE TakeOver(o)
  <2>1. \A p \in Offers : (closing'[p] = "closed") <=> (closing[p] = "closed")
    BY <1>0, <1>8 DEF TakeOver, Cleanup, Mapped
  <2> QED BY <1>1, <1>8, <2>1 DEF TakeOver, Lookups
<1>9. CASE IndexMiss(o)
  BY <1>2, <1>9 DEF IndexMiss
<1>10. CASE MemoryHit(o)
  <2>1. pc[o] = "owned"
    BY <1>10 DEF MemoryHit, Step
  <2>2. req[o].target \in Offers
    BY <1>0, <2>1 DEF HubSound, Lookups
  <2> QED BY <1>10, <2>2, ResumesId DEF MemoryHit
<1>11. CASE ResumeArchive(o)
  <2>1. pc[o] = "archive" /\ UNCHANGED closing
    BY <1>11 DEF ResumeArchive
  <2>2. req[o].target \in Offers
    BY <1>0, <2>1 DEF HubSound, Lookups
  <2>3. CASE ArchiveMatches(o, archives[req[o].target])
    <3>1. Step(o, "archive", "dial") /\ Resumes(o, req[o].target, "memory_hit")
      BY <1>11, <2>3 DEF ResumeArchive
    <3> QED BY <2>1, <2>2, <3>1, ResumesId
  <2>4. CASE ~ArchiveMatches(o, archives[req[o].target])
    BY <1>1, <1>11, <2>4 DEF ResumeArchive, Lookups
  <2> QED BY <2>3, <2>4
<1>12. CASE IndexHit(o)
  <2>1. pc[o] = "index" /\ UNCHANGED closing /\ Step(o, "index", "dial")
    BY <1>12 DEF IndexHit, Step
  <2>2. req[o].target \in Offers
    BY <1>0, <2>1 DEF HubSound, Lookups
  <2>3. Resumes(o, req[o].target, "index_hit")
    BY <1>12 DEF IndexHit
  <2> QED BY <2>1, <2>2, <2>3, ResumesId
<1> QED
  BY <1>3, <1>4, <1>5, <1>6, <1>7, <1>8, <1>9, <1>10, <1>11, <1>12, Zenon DEF Resolve

\* A line is the next one of its conversation, unless the session was read
\* before it.
LEMMA RecordConverses ==
  ASSUME Settling, NEW o \in Offers, NEW s \in Offers, s = sid[o], Record(o)
  PROVE  Converses
<1> USE DEF offerVars, hubVars
<1>0. HubParts /\ HubSound /\ Mapped
  BY SteadyMapped DEF Settling
<1>1. pc[o] = "answered" /\ UNCHANGED <<pc, sid, closing, contested>>
  BY DEF Record
<1>2. tainted' = IF HandedOver(o) THEN tainted \cup {s} ELSE tainted
  BY DEF Record
<1>3. /\ log'[s] = Append(log[s], [seq |-> seq[o] + 1, by |-> o])
      /\ \A r \in Offers \ {s} : log'[r] = log[r]
  BY <1>0 DEF Record, Mapped
<1>4. \A p \in Offers : Live(p)' <=> Live(p)
  BY <1>1 DEF Live
<1>5. ASSUME NEW r \in Offers \ {s} PROVE Stays(r)
  <2>1. Clean(r)' <=> Clean(r)
    BY <1>1, <1>2 DEF Clean
  <2> QED BY <1>1, <1>3, <1>4, <2>1, StaysWhen DEF Settling
<1>6. CASE HandedOver(o)
  <2>1. ~Clean(s)' /\ contested' \cup tainted' = (contested \cup tainted) \cup {s}
    BY <1>1, <1>2, <1>6 DEF Clean
  <2> QED BY <1>5, <2>1, GivesUpId
<1>7. CASE ~HandedOver(o) /\ Clean(s)
  <2>1. Live(o)
    BY <1>1, <1>7 DEF Live, HandedOver
  <2>2. Clean(s)' /\ contested' \cup tainted' = contested \cup tainted
    BY <1>1, <1>2, <1>7 DEF Clean
  <2>3. Holder(s) = o /\ Holder(s)' = o
    BY <1>1, <1>4, <1>7, <2>1, <2>2 DEF Settling, HoldersAre, HolderIs
  <2>4. seq[o] = Len(log[s])
    BY <1>0, <1>1, <1>7, <2>1 DEF HubParts, RecorderCaught, Served, Caught
  <2>5. Said(s)' = Append(Said(s), [seq |-> Len(Said(s)) + 1, by |-> Holder(s)])
    BY <1>3, <1>7, <2>2, <2>3, <2>4 DEF Said
  <2> QED BY <1>5, <2>2, <2>3, <2>5, Says DEF Settling
<1>8. CASE ~HandedOver(o) /\ ~Clean(s)
  <2>1. contested' = contested /\ tainted' = tainted
    BY <1>1, <1>2, <1>8
  <2>2. Stays(s)
    BY <1>8, <2>1, StaysWhen DEF Settling, Clean
  <2> QED BY <1>5, <2>1, <2>2, AllStay
<1> QED BY <1>6, <1>7, <1>8

\* A session starts and closes.
LEMMA SessionConverses ==
  ASSUME Settling, NEW o \in Offers,
         Arrive(o) \/ Start(o) \/ Disconnect(o) \/ CloseNext(o) \/ Teardown(o)
  PROVE  Converses
<1> USE DEF offerVars, sessionVars, recorderVars, hubVars, shutVars, historyVars
<1>0. HubParts /\ HubSound /\ Mapped
  BY SteadyMapped DEF Settling
<1>1. CASE Arrive(o)
  <2>1. UNCHANGED <<sid, closing, log, contested, tainted>>
    BY <1>1 DEF Arrive
  <2>2. PICK to \in {"dial", "state"} : Step(o, "idle", to)
    BY <1>1 DEF Arrive
  <2>3. pc[o] = "idle" /\ pc'[o] = to /\ \A p \in Offers \ {o} : pc'[p] = pc[p]
    BY <1>0, <2>2 DEF Mapped, Step
  <2>4. CASE to = "dial"
    BY <2>1, <2>3, <2>4, BeginsFresh DEF Searching
  <2>5. CASE to = "state"
    <3>1. \A p \in Offers : sid'[p] = sid[p] /\ (Live(p)' <=> Live(p))
      BY <2>1, <2>3, <2>5 DEF Live
    <3> QED BY <2>1, <3>1, Undisturbed
  <2> QED BY <2>4, <2>5
<1>2. CASE DialFails(o) \/ Abort(o)
  <2>1. /\ pc[o] = "dial" /\ pc'[o] = "failed"
        /\ \A p \in Offers \ {o} : pc'[p] = pc[p] /\ closing'[p] = closing[p]
    BY <1>0, <1>2 DEF Mapped, Step, DialFails, Abort
  <2>2. Live(o) /\ ~Live(o)' /\ \A p \in Offers \ {o} : Live(p)' <=> Live(p)
    BY <1>0, <2>1 DEF Live, HubParts, InPhases, InPhase
  <2>3. UNCHANGED <<sid, log, contested, tainted>>
    BY <1>2 DEF DialFails, Abort
  <2>4. sid[o] \in Offers
    BY <1>0 DEF HubSound
  <2> QED BY <2>2, <2>3, <2>4, LeavesId
<1>3. CASE Put(o)
  <2>1. /\ closing[o] = "put" /\ closing'[o] = "closed" /\ pc' = pc
        /\ \A p \in Offers \ {o} : closing'[p] = closing[p]
    BY <1>0, <1>3 DEF Mapped, Put, Closes
  <2>2. Live(o) /\ ~Live(o)' /\ \A p \in Offers \ {o} : Live(p)' <=> Live(p)
    BY <1>0, <2>1 DEF Live, HubParts, InPhases, InPhase
  <2>3. UNCHANGED <<sid, log, contested, tainted>>
    BY <1>3 DEF Put, Closes
  <2>4. sid[o] \in Offers
    BY <1>0 DEF HubSound
  <2> QED BY <2>2, <2>3, <2>4, LeavesId
<1>4. ASSUME \A p \in Offers : Live(p)' <=> Live(p), UNCHANGED <<sid, log, contested, tainted>>
      PROVE  Converses
  BY <1>4, Undisturbed
<1>5. CASE Serve(o) \/ Wire(o)
  <2>1. \A p \in Offers : Live(p)' <=> Live(p)
    BY <1>0, <1>5 DEF Mapped, Step, Serve, Wire, Live
  <2> QED BY <1>4, <1>5, <2>1 DEF Serve, Wire
<1>6. CASE Disconnect(o) \/ CloseNext(o)
  <2>1. \A p \in Offers : Live(p)' <=> Live(p)
    BY <1>0, <1>6 DEF Mapped, Disconnect, CloseNext, Cleanup, Live
  <2> QED BY <1>4, <1>6, <2>1 DEF Disconnect, CloseNext
<1>7. CASE SnapshotHistory(o) \/ SnapshotSeq(o) \/ Delete(o)
  <2>1. pc' = pc /\ \A p \in Offers : (closing'[p] = "closed") <=> (closing[p] = "closed")
    BY <1>0, <1>7 DEF Mapped, SnapshotHistory, SnapshotSeq, Delete, Closes
  <2>2. \A p \in Offers : Live(p)' <=> Live(p)
    BY <2>1 DEF Live
  <2> QED BY <1>4, <1>7, <2>2 DEF SnapshotHistory, SnapshotSeq, Delete, Closes
<1> QED BY <1>1, <1>2, <1>3, <1>5, <1>6, <1>7, Zenon DEF Start, Teardown

\* Every step is one of the conversation, or none.
LEMMA NextConverses == Steady /\ Steady' /\ [Next]_vars => Converses
<1> SUFFICES ASSUME Steady, Steady', [Next]_vars PROVE Converses
  OBVIOUS
<1>1. Settling
  <2>1. HoldersAre
    BY SteadyHolders
  <2>2. HoldersAre'
    BY SteadyHolders, PTL
  <2> QED BY <2>1, <2>2, NoneAssumption DEF Settling
<1>2. ASSUME \/ \E o \in Offers : AbortReported(o) \/ GoroutinesExit(o) \/ Expire(o)
             \/ Signal \/ Drained \/ WaitDone \/ MainReturns \/ UNCHANGED vars
      PROVE  Converses
  <2>1. UNCHANGED <<pc, sid, closing, log, contested, tainted>>
    BY <1>2 DEF AbortReported, GoroutinesExit, Expire, Signal, Drained, WaitDone, MainReturns,
                vars, offerVars, sessionVars, recorderVars, historyVars
  <2>2. \A p \in Offers : sid'[p] = sid[p] /\ (Live(p)' <=> Live(p))
    BY <2>1 DEF Live
  <2> QED BY <1>1, <2>1, <2>2, Undisturbed
<1>3. ASSUME NEW o \in Offers, Record(o) PROVE Converses
  <2>1. sid[o] \in Offers
    BY SteadyParts DEF HubSound
  <2> QED BY <1>1, <1>3, <2>1, RecordConverses
<1> QED
  BY <1>1, <1>2, <1>3, ResolveConverses, SessionConverses, Zenon DEF Next, CloseAll

\* Nobody has an id, and nothing was said.
LEMMA InitConverses == Init => Conv!Init
<1> SUFFICES ASSUME Init PROVE Conv!Init
  OBVIOUS
<1>1. contested \cup tainted = {}
  BY DEF Init
<1>2. \A s \in Offers : Holder(s) = None
  BY DEF Init, Holder, Live
<1>3. \A s \in Offers : Kept(s) = <<>> /\ Said(s) = <<>>
  BY <1>2 DEF Init, Kept, Said
<1> QED BY <1>1, <1>2, <1>3 DEF Conv!Init

\* Whatever bridge.go, archive.go, recorder.go and the offers do in whatever order,
\* the client of an id has one conversation: the hub is Conversation, for each
\* id that no two offers resumed at once and no line was missed of.
THEOREM HubConverses == Spec => OneConversation
<1>1. Steady /\ Steady' /\ [Next]_vars => [Conv!Next]_Conv!vars
  BY NextConverses DEF Converses
<1> QED BY <1>1, InitConverses, HubSteady, PTL DEF Spec, OneConversation, Conv!Spec

----------------------------------------------------------------------------
(* The end of the process                                                  *)

\* What makes CloseAllFindsAll stay true: HubRegistered gives it when the snapshot
\* is taken, and no handler that could start a session is under way after that.
LEMMA DrainFindsAll ==
  ASSUME TypeOK, RegisteredUnlessContested, Drained
  PROVE  CloseAllFindsAll'
<1> SUFFICES ASSUME ~GivesUp, NEW o \in Offers
             PROVE  /\ pc[o] \in Finished
                    /\ pc[o] = "answered" /\ closing[o] = "no" /\ sid[o] \notin contested
                         => o \in targets'
  BY DEF CloseAllFindsAll, Drained, sessionVars, offerVars, historyVars
<1>1. pc[o] \in Finished
  BY DEF Drained
<1>2. ASSUME pc[o] = "answered", closing[o] = "no", sid[o] \notin contested
      PROVE  o \in targets'
  <2>1. conns[sid[o]] = o /\ sid[o] \in Offers /\ o # None
    BY <1>2, NoneAssumption DEF RegisteredUnlessContested, TypeOK
  <2> QED BY <2>1 DEF Drained
<1> QED BY <1>1, <1>2

\* A handler that goes on is one that is under way.
LEMMA HandlersGoOn ==
  ASSUME NEW o \in Offers, Resolve(o) \/ Start(o)
  PROVE  pc[o] \notin Finished
BY DEF Resolve, StateInConns, StateInArchive, ResumeFind, ReadHistory, ReadSeq, TakeOver,
       MemoryHit, ResumeArchive, IndexHit, IndexMiss, Start, DialFails, Serve, Abort, Wire,
       Step, Finished, Checked

\* Every step keeps it.
LEMMA NextFindsAll ==
  ASSUME TypeOK, RegisteredUnlessContested, CloseAllFindsAll, [Next]_vars
  PROVE  CloseAllFindsAll'
<1> USE DEF offerVars, sessionVars, recorderVars, hubVars, shutVars, historyVars
<1>1. CASE UNCHANGED vars
  BY <1>1 DEF CloseAllFindsAll, vars
<1>2. ASSUME NEW o \in Offers, Resolve(o) \/ Start(o) PROVE CloseAllFindsAll'
  <2>1. shut' = shut
    BY <1>2 DEF Resolve, StateInConns, StateInArchive, ResumeFind, ReadHistory, ReadSeq, TakeOver,
       MemoryHit, ResumeArchive, IndexHit, IndexMiss, Start, DialFails, Serve, Abort, Wire
  <2> QED BY <1>2, <2>1, HandlersGoOn DEF CloseAllFindsAll
<1>3. ASSUME NEW o \in Offers, Arrive(o) PROVE CloseAllFindsAll'
  BY <1>3 DEF CloseAllFindsAll, Arrive
<1>4. ASSUME NEW o \in Offers,
             \/ AbortReported(o) \/ Record(o) \/ GoroutinesExit(o) \/ Expire(o)
      PROVE  CloseAllFindsAll'
  BY <1>4 DEF CloseAllFindsAll, AbortReported, Record, GoroutinesExit, Expire
<1>5. ASSUME NEW o \in Offers, Disconnect(o) \/ Teardown(o) \/ CloseNext(o)
      PROVE  CloseAllFindsAll'
  <2>1. /\ UNCHANGED <<pc, shut, targets, sid, contested>>
        /\ \A p \in Offers : closing'[p] = "no" => closing[p] = "no"
    BY <1>5 DEF Disconnect, CloseNext, Cleanup, Teardown, SnapshotHistory, SnapshotSeq, Delete,
                Put, Closes, TypeOK
  <2> QED BY <2>1 DEF CloseAllFindsAll
<1>6. ASSUME Drained PROVE CloseAllFindsAll'
  BY <1>6, DrainFindsAll
<1>7. ASSUME Signal \/ WaitDone \/ MainReturns PROVE CloseAllFindsAll'
  BY <1>7 DEF CloseAllFindsAll, Signal, WaitDone, MainReturns
<1> QED BY <1>1, <1>2, <1>3, <1>4, <1>5, <1>6, <1>7, Zenon DEF Next, CloseAll

\* The sessions that CloseAll (bridge.go) finds are all there is to close: gracefulShutdown
\* (cmd/proxy) lets the handlers in flight end first, and the registry does not
\* lose a session whose id was not contested, unless srv.Shutdown gave up waiting.
THEOREM HubFindsAll == Spec => []CloseAllFindsAll
<1>1. Init => CloseAllFindsAll
  BY DEF Init, CloseAllFindsAll
<1>2. TypeOK /\ RegisteredUnlessContested /\ CloseAllFindsAll /\ [Next]_vars => CloseAllFindsAll'
  BY NextFindsAll
<1> QED BY <1>1, <1>2, HubTypes, HubRegistered, PTL DEF Spec

----------------------------------------------------------------------------
(* The hub and the index                                                   *)

\* What the index knows of a session's caller and of a line.
OwnerOf(o) ==
  IF req[o].user = Anonymous THEN <<Anonymous>> ELSE <<req[o].user, req[o].provider>>
Published(s, l) == [session |-> s, owner |-> OwnerOf(l.by), by |-> l.by, seq |-> l.seq]
PublishedLine ==
  [session : Offers, owner : {<<Anonymous>>} \cup (Users \X Providers), by : Offers, seq : Nat]

\* All that was recorded under any id.
PublishedLines == UNION {{Published(s, l) : l \in Range(log[s])} : s \in Offers}

\* The promise of the index; of what it has said and answered only Faithful is
\* used here.
Index == INSTANCE TranscriptLog WITH
  Event <- PublishedLine,
  NoOwner <- <<Anonymous>>,
  said <- PublishedLines,
  answer <- [events |-> <<>>]

\* The answer with these lines to what an offer asks for.
Answered(o, q) ==
  [session |-> req[o].target, owner |-> OwnerOf(o), after |-> req[o].last,
   events |-> [i \in 1..Len(q) |-> Published(req[o].target, q[i])]]

\* The lines that IndexHit chooses from, and what it may take of them.
Theirs(o) ==
  {l \in Range(log[req[o].target]) : /\ req[l.by].user = req[o].user
                                     /\ req[l.by].provider = req[o].provider
                                     /\ l.seq > req[o].last}
Resumable(o) == UNION {Sorted(kept) : kept \in (SUBSET Theirs(o)) \ {{}}}

\* IndexHit takes one of its choices.
LEMMA IndexHitChooses ==
  ASSUME TypeOK, NEW o \in Offers, IndexHit(o)
  PROVE  full'[o] \in Resumable(o)
<1>1. PICK kept \in (SUBSET Theirs(o)) \ {{}} : \E q \in Sorted(kept) : full' = [full EXCEPT ![o] = q]
  BY Zenon DEF IndexHit, Theirs
<1>2. PICK q \in Sorted(kept) : full' = [full EXCEPT ![o] = q]
  BY <1>1
<1>3. full'[o] = q
  BY <1>2 DEF TypeOK
<1> QED BY <1>1, <1>2, <1>3, Zenon DEF Resumable

\* A line of an id, as the index has it, is that line and no other.
LEMMA PublishedIs ==
  ASSUME TypeOK, NEW s \in Offers, NEW l \in Line
  PROVE  Published(s, l) \in PublishedLines <=> l \in Range(log[s])
<1>1. ASSUME l \in Range(log[s]) PROVE Published(s, l) \in PublishedLines
  <2>1. Published(s, l) \in {Published(s, m) : m \in Range(log[s])}
    BY <1>1, Zenon
  <2> QED BY <2>1, Zenon DEF PublishedLines
<1>2. ASSUME Published(s, l) \in PublishedLines PROVE l \in Range(log[s])
  <2>1. PICK t \in Offers : Published(s, l) \in {Published(t, m) : m \in Range(log[t])}
    BY <1>2, Zenon DEF PublishedLines
  <2>2. PICK m \in Range(log[t]) : Published(s, l) = Published(t, m)
    BY <2>1, Zenon
  <2>3. s = t /\ l.by = m.by /\ l.seq = m.seq
    BY <2>2 DEF Published
  <2>4. m \in Line
    <3>1. log[t] \in Seq(Line)
      BY DEF TypeOK
    <3> QED BY <3>1 DEF Range
  <2>5. l = m
    BY <2>3, <2>4 DEF Line
  <2> QED BY <2>2, <2>3, <2>5
<1> QED BY <1>1, <1>2

\* One caller's lines are told from those of all others.
LEMMA OwnersDiffer ==
  ASSUME NEW o, NEW p, req[o].user # Anonymous
  PROVE  /\ OwnerOf(o) # <<Anonymous>>
         /\ OwnerOf(p) = OwnerOf(o) <=> req[p].user = req[o].user /\ req[p].provider = req[o].provider
<1>1. \A x, y, z : <<x, y>> # <<z>>
  <2> TAKE x, y, z
  <2>1. Len(<<x, y>>) = 2 /\ Len(<<z>>) = 1
    OBVIOUS
  <2> QED BY <2>1
<1>2. \A w, x, y, z : <<w, x>> = <<y, z>> <=> w = y /\ x = z
  OBVIOUS
<1>3. OwnerOf(o) = <<req[o].user, req[o].provider>>
  BY DEF OwnerOf
<1>4. CASE req[p].user = Anonymous
  <2>1. OwnerOf(p) = <<Anonymous>>
    BY <1>4 DEF OwnerOf
  <2> QED BY <1>1, <1>3, <1>4, <2>1
<1>5. CASE req[p].user # Anonymous
  <2>1. OwnerOf(p) = <<req[p].user, req[p].provider>>
    BY <1>5 DEF OwnerOf
  <2> QED BY <1>1, <1>2, <1>3, <2>1
<1> QED BY <1>4, <1>5

\* Lines in the order of their seqs are one of the sequences of all of them.
LEMMA SortedAll ==
  ASSUME NEW q \in Seq(Line), \A i, j \in 1..Len(q) : i < j => q[i].seq < q[j].seq
  PROVE  q \in Sorted({q[i] : i \in 1..Len(q)})
<1> DEFINE S == {q[i] : i \in 1..Len(q)}
<1>1. Len(q) \in Nat /\ \A i \in 1..Len(q) : q[i].seq \in Nat
  <2>1. Len(q) \in Nat /\ \A i \in 1..Len(q) : q[i] \in Line
    OBVIOUS
  <2> QED BY <2>1 DEF Line
<1>2. \A i, j \in 1..Len(q) : q[i] = q[j] => i = j
  <2> SUFFICES ASSUME NEW i \in 1..Len(q), NEW j \in 1..Len(q), q[i] = q[j], i # j PROVE FALSE
    OBVIOUS
  <2>1. i < j \/ j < i
    BY <1>1
  <2>2. q[i].seq < q[j].seq \/ q[j].seq < q[i].seq
    BY <2>1
  <2> QED BY <1>1, <2>2
<1>3. q \in [1..Len(q) -> S] /\ \A s \in S : \E i \in 1..Len(q) : q[i] = s
  OBVIOUS
<1>4. ExistsBijection(1..Len(q), S)
  <2> HIDE DEF S
  <2>1. q \in Bijection(1..Len(q), S)
    BY <1>2, <1>3, Zenon DEF Bijection, Injection, Surjection, IsInjective
  <2> QED BY <2>1 DEF ExistsBijection
<1>5. Cardinality(S) = Len(q)
  <2>1. IsFiniteSet(1..Len(q)) /\ Cardinality(1..Len(q)) = Len(q)
    <3>1. Len(q) \in Nat
      BY <1>1
    <3>2. /\ IsFiniteSet(1..Len(q))
          /\ Cardinality(1..Len(q)) = IF 1 > Len(q) THEN 0 ELSE Len(q) - 1 + 1
      BY <3>1, FS_Interval, 1 \in Int, Len(q) \in Int, Zenon
    <3> QED BY <3>1, <3>2
  <2> HIDE DEF S
  <2> QED BY <1>4, <2>1, FS_Bijection
<1> HIDE DEF S
<1>6. q \in Sorted(S)
  BY <1>3, <1>5 DEF Sorted
<1> QED BY <1>6 DEF S

\* What an offer may take from the index are the answers the index promises.
LEMMA ResumableAreAnswers ==
  ASSUME IInv, NEW o \in Offers, pc[o] = "index", NEW q \in Seq(Line), q # <<>>
  PROVE  q \in Resumable(o) <=> Index!Faithful(Answered(o, q), PublishedLines)
<1> DEFINE t == req[o].target
           a == Answered(o, q)
<1>1. TypeOK /\ t \in Offers /\ req[o].user # Anonymous
  BY DEF IInv, Ownership, OffersOwn, Resolving, Lookups
<1>2. Len(q) \in Nat /\ \A i \in 1..Len(q) : q[i] \in Line
  OBVIOUS
<1>3. /\ a.session = t /\ a.owner = OwnerOf(o) /\ a.after = req[o].last
      /\ a.events = [i \in 1..Len(q) |-> Published(t, q[i])]
  BY DEF Answered
<1>4. Len(a.events) = Len(q) /\ \A i \in 1..Len(q) : a.events[i] = Published(t, q[i])
  <2> HIDE DEF a, t
  <2> QED BY <1>2, <1>3
<1>5. \A i \in 1..Len(q) : /\ a.events[i].session = t
                           /\ a.events[i].owner = OwnerOf(q[i].by)
                           /\ a.events[i].seq = q[i].seq
  <2> HIDE DEF a, t
  <2>1. \A l : /\ Published(t, l).session = t
               /\ Published(t, l).owner = OwnerOf(l.by)
               /\ Published(t, l).seq = l.seq
    BY DEF Published
  <2> QED BY <1>4, <2>1, Zenon
<1>6. \A i \in 1..Len(q) : a.events[i] \in PublishedLines <=> q[i] \in Range(log[t])
  <2> HIDE DEF a, t
  <2> QED BY <1>1, <1>2, <1>4, PublishedIs
<1>7. \A i \in 1..Len(q) :
        /\ a.events[i] \in PublishedLines
        /\ a.events[i].owner = a.owner
        /\ a.events[i].seq > a.after
        <=> q[i] \in Theirs(o)
  <2> HIDE DEF a
  <2> QED BY <1>1, <1>3, <1>5, <1>6, OwnersDiffer DEF Theirs
<1>8. a.owner # <<Anonymous>>
  BY <1>1, <1>3, OwnersDiffer
<1>9. Index!Faithful(a, PublishedLines)
      <=> /\ \A i \in 1..Len(q) : q[i] \in Theirs(o)
          /\ \A i, j \in 1..Len(q) : i < j => q[i].seq < q[j].seq
  <2> HIDE DEF a, t
  <2> QED BY <1>3, <1>4, <1>5, <1>7, <1>8 DEF Index!Faithful
<1>10. ASSUME q \in Resumable(o) PROVE Index!Faithful(a, PublishedLines)
  <2>1. PICK kept \in (SUBSET Theirs(o)) \ {{}} : q \in Sorted(kept)
    BY <1>10, Zenon DEF Resumable
  <2>2. /\ q \in [1..Cardinality(kept) -> kept]
        /\ \A i, j \in 1..Cardinality(kept) : i < j => q[i].seq < q[j].seq
    BY <2>1, Zenon DEF Sorted
  <2>3. 1..Len(q) = 1..Cardinality(kept)
    <3>1. DOMAIN q = 1..Len(q) /\ DOMAIN q = 1..Cardinality(kept)
      BY <2>2
    <3> QED BY <3>1
  <2> HIDE DEF a
  <2> QED BY <1>9, <2>1, <2>2, <2>3
<1>11. ASSUME Index!Faithful(a, PublishedLines) PROVE q \in Resumable(o)
  <2> DEFINE kept == {q[i] : i \in 1..Len(q)}
  <2> HIDE DEF a
  <2>1. kept \in (SUBSET Theirs(o)) \ {{}}
    <3>1. kept # {}
      BY <1>2
    <3> QED BY <1>9, <1>11, <3>1
  <2>2. q \in Sorted(kept)
    BY <1>9, <1>11, SortedAll
  <2> QED BY <2>1, <2>2, Zenon DEF Resumable
<1> QED BY <1>10, <1>11

\* The hub counts on the index for no more and no less than it promises: what a
\* reconnect that finds nothing in memory may resume with are exactly the
\* answers of TranscriptLog to it (offer.go, IndexHit), that ReplayPipeline is
\* shown to give (PipelineReplaysTranscript), and one of them is what it takes.
THEOREM HubCountsOnIndex ==
  Spec => /\ [](\A o \in Offers : pc[o] = "index" =>
                  \A q \in Seq(Line) \ {<<>>} :
                    q \in Resumable(o) <=> Index!Faithful(Answered(o, q), PublishedLines))
          /\ [][\A o \in Offers : IndexHit(o) => full'[o] \in Resumable(o)]_vars
<1>1. IInv => (\A o \in Offers : pc[o] = "index" =>
                 \A q \in Seq(Line) \ {<<>>} :
                   q \in Resumable(o) <=> Index!Faithful(Answered(o, q), PublishedLines))
  BY ResumableAreAnswers
<1>2. IInv /\ [Next]_vars => [\A o \in Offers : IndexHit(o) => full'[o] \in Resumable(o)]_vars
  BY IndexHitChooses DEF IInv
<1> QED BY <1>1, <1>2, InitIInv, NextIInv, PTL DEF Spec
=============================================================================
