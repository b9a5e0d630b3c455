------------------------------- MODULE Breaker -------------------------------
(***************************************************************************)
(* What the offer path counts on of a provider's circuit breaker           *)
(* (modelcb.Manager): a closed circuit admits every dial, an open one      *)
(* nobody before its time is over, a half-open one a probe after another   *)
(* until enough of them have succeeded.  An outcome that comes late never  *)
(* touches the time an open circuit stays open.                            *)
(*                                                                         *)
(* A round of probes that has counted the outcome of a dial it did not     *)
(* admit is astray: it may admit a probe beside another and close early.   *)
(***************************************************************************)
EXTENDS Integers

CONSTANTS
  Callers,
  Needed     \* probes that close the circuit

VARIABLES
  phase,    \* closed, open, half_open
  hold,     \* time the circuit is still to stay open
  dialing,  \* callers that were admitted and have not reported
  probes,   \* those among them that the round admitted
  wins,     \* probes of the round that succeeded
  astray

roundVars == <<probes, wins, astray>>
vars == <<phase, hold, dialing, roundVars>>

Init ==
  /\ phase = "closed"
  /\ hold = 0
  /\ dialing = {}
  /\ probes = {}
  /\ wins = 0
  /\ astray = FALSE

NewRound(admitted) ==
  /\ probes' = admitted
  /\ wins' = 0
  /\ astray' = FALSE

AdmitDial ==
  /\ phase = "closed"
  /\ UNCHANGED <<phase, roundVars>>

AdmitFirstProbe(c) ==
  /\ phase = "open"
  /\ hold <= 0
  /\ phase' = "half_open"
  /\ NewRound({c})

AdmitNextProbe(c) ==
  /\ phase = "half_open"
  /\ probes = {} \/ astray
  /\ probes' = probes \cup {c}
  /\ UNCHANGED <<phase, wins, astray>>

\* A caller may dial.
Admit(c) ==
  /\ c \notin dialing
  /\ dialing' = dialing \cup {c}
  /\ AdmitDial \/ AdmitFirstProbe(c) \/ AdmitNextProbe(c)
  /\ UNCHANGED hold

Leaves(c) ==
  /\ c \in dialing
  /\ dialing' = dialing \ {c}

\* It does not dial after all.
GiveUp(c) ==
  /\ Leaves(c)
  /\ probes' = probes \ {c}
  /\ UNCHANGED <<phase, hold, wins, astray>>

\* Outside a round an outcome may be counted, which does not show.
Ignored ==
  /\ phase # "half_open"
  /\ UNCHANGED <<phase, roundVars>>

\* A success of a round that needs more.
Counted(c) ==
  /\ phase = "half_open"
  /\ c \in probes /\ ~astray => wins + 1 < Needed
  /\ wins' = IF c \in probes THEN wins + 1 ELSE wins
  /\ probes' = probes \ {c}
  /\ astray' = (astray \/ c \notin probes)
  /\ UNCHANGED phase

\* The last success that a round needs.
Completed(c) ==
  /\ phase = "half_open"
  /\ astray \/ c \notin probes \/ wins + 1 >= Needed
  /\ phase' = "closed"
  /\ NewRound({})

Succeed(c) ==
  /\ Leaves(c)
  /\ Ignored \/ Counted(c) \/ Completed(c)
  /\ UNCHANGED hold

\* The circuit opens.
Trip ==
  /\ phase # "open"
  /\ phase' = "open"
  /\ hold' \in Int
  /\ NewRound({})

\* The dial fails; in a round that is enough.
Fail(c) ==
  /\ Leaves(c)
  /\ Trip \/ (Ignored /\ UNCHANGED hold)

\* A stream fails.
Fault ==
  /\ Trip
  /\ UNCHANGED dialing

Wait ==
  /\ hold' < hold
  /\ UNCHANGED <<phase, dialing, roundVars>>

Next ==
  \/ \E c \in Callers : Admit(c) \/ GiveUp(c) \/ Succeed(c) \/ Fail(c)
  \/ Fault \/ Wait

Spec == Init /\ [][Next]_vars
=============================================================================
