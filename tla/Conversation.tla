----------------------------- MODULE Conversation -----------------------------
(***************************************************************************)
(* What a client counts on of its session id, across every session that    *)
(* ever has it (rtc.Hub, its archive and the recorders): one session at a  *)
(* time has the id, each begins with the newest lines of the conversation, *)
(* and the lines are numbered without a gap or a repetition.               *)
(*                                                                         *)
(* An id may be given up, and nothing is promised of it any more: the hub  *)
(* does that to ids that two offers resume at once, and to ids of which a  *)
(* line was missed.                                                        *)
(***************************************************************************)
EXTENDS Naturals, Sequences

CONSTANTS
  Ids,        \* session ids
  Sessions,
  Nobody,
  HistLimit   \* lines a session keeps

VARIABLES
  lost,     \* ids that were given up
  holder,   \* the session that has an id, if any
  kept,     \* the lines it keeps
  said      \* all lines of the conversation

vars == <<lost, holder, kept, said>>

Init ==
  /\ lost = {}
  /\ holder = [s \in Ids |-> Nobody]
  /\ kept = [s \in Ids |-> <<>>]
  /\ said = [s \in Ids |-> <<>>]

Newest(h) == IF Len(h) <= HistLimit THEN h ELSE SubSeq(h, Len(h) - HistLimit + 1, Len(h))

\* A session takes the id, when the one before has left, and all it needs to go on.
Take(s, o) ==
  /\ s \notin lost
  /\ holder[s] = Nobody
  /\ holder' = [holder EXCEPT ![s] = o]
  /\ kept' = [kept EXCEPT ![s] = Newest(said[s])]
  /\ UNCHANGED <<lost, said>>

\* It says the next line.
Say(s) ==
  /\ holder[s] # Nobody
  /\ said' = [said EXCEPT ![s] = Append(@, [seq |-> Len(@) + 1, by |-> holder[s]])]
  /\ kept' = [kept EXCEPT ![s] = Newest(said'[s])]
  /\ UNCHANGED <<lost, holder>>

\* It leaves the id to the next one.
Leave(s) ==
  /\ holder[s] # Nobody
  /\ holder' = [holder EXCEPT ![s] = Nobody]
  /\ kept' = [kept EXCEPT ![s] = <<>>]
  /\ UNCHANGED <<lost, said>>

GiveUp(s) ==
  /\ lost' = lost \cup {s}
  /\ holder' = [holder EXCEPT ![s] = Nobody]
  /\ kept' = [kept EXCEPT ![s] = <<>>]
  /\ said' = [said EXCEPT ![s] = <<>>]

Next ==
  \E s \in Ids : \/ \E o \in Sessions : Take(s, o)
                 \/ Say(s) \/ Leave(s) \/ GiveUp(s)

Spec == Init /\ [][Next]_vars
=============================================================================
