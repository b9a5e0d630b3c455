---------------------------- MODULE TranscriptLog ----------------------------
(***************************************************************************)
(* What a reconnect on another node may count on (offer.Replayer): the     *)
(* replay index answers with lines that were recorded under the session id *)
(* asked for, all of them the asker's own, all after the seq it has seen,  *)
(* in the order of their seqs and one for each seq.  Any of them may be    *)
(* missing: the side channel is lossy and the index bounded.               *)
(*                                                                         *)
(* SessionHub uses the index by this promise (its IndexHit); the pipeline  *)
(* from recorder to index, ReplayPipeline, is shown to keep it.            *)
(***************************************************************************)
EXTENDS Naturals, Sequences

CONSTANTS
  Event,     \* lines as they are published
  NoOwner    \* the identity of callers without one

VARIABLES
  said,      \* every line recorded so far
  answer     \* the last query and what the index answered to it

Init ==
  /\ said = {}
  /\ answer.events = <<>>

\* A session records a line.
Say ==
  /\ \E e \in said' : e \in Event /\ said' = said \cup {e}
  /\ UNCHANGED answer

\* What an answer may hold, given the lines recorded.
Faithful(a, lines) ==
  /\ \A i \in 1..Len(a.events) :
       /\ a.events[i] \in lines
       /\ a.events[i].session = a.session
       /\ a.events[i].owner = a.owner
       /\ a.events[i].seq > a.after
  /\ \A i, j \in 1..Len(a.events) : i < j => a.events[i].seq < a.events[j].seq
  /\ a.owner = NoOwner => a.events = <<>>

\* The index answers a query.
Answer ==
  /\ Faithful(answer', said)
  /\ UNCHANGED said

Next == Say \/ Answer

Spec == Init /\ [][Next]_<<said, answer>>
=============================================================================
