---------------------------- MODULE ActionContract ----------------------------
(***************************************************************************)
(* What the runtime promises about its mitigation actions, without the     *)
(* generations, workers, evidence and policies that decide when a step is  *)
(* taken: the positions an action moves through, none of which leaves a    *)
(* terminal one (is_terminal, action.hpp), and that the positions which    *)
(* follow a dispatch are reached through a dispatch.                       *)
(***************************************************************************)
EXTENDS ActionLifecycle

CONSTANT Actions

VARIABLES
  lifecycle,
  dispatched   \* actions an instruction was sent for

vars == <<lifecycle, dispatched>>

Init ==
  /\ lifecycle = [i \in Actions |-> "PLANNED"]
  /\ dispatched = {}

Moves(i, from, to) ==
  /\ lifecycle[i] \in from
  /\ lifecycle' = [lifecycle EXCEPT ![i] = to]

Dispatch(i) ==
  /\ Moves(i, {"AUTHORIZED"}, "DISPATCHED")
  /\ dispatched' = dispatched \cup {i}

\* Every other step of one action.
Advance(i) ==
  /\ \/ Moves(i, {"PLANNED"}, "AUTHORIZED")
     \/ Moves(i, {"AUTHORIZED"}, "CANCELLED")
     \/ Moves(i, {"DISPATCHED"}, "ACKNOWLEDGED")
     \/ Moves(i, {"DISPATCHED", "ACKNOWLEDGED"}, "FAILED")
     \/ Moves(i, InFlight, "VERIFYING")
     \/ \E l \in Verified : Moves(i, InFlight, l)
     \/ Moves(i, Live, "SUPERSEDED")
  /\ UNCHANGED dispatched

\* The incarnation that owns the actions in S is retired.
Abandon(S) ==
  /\ \A i \in S : lifecycle[i] \in Live
  /\ lifecycle' = [i \in Actions |-> IF i \in S THEN "OUTCOME_UNKNOWN" ELSE lifecycle[i]]
  /\ UNCHANGED dispatched

\* Shutdown leaves no live action.
Stop ==
  /\ lifecycle' = [i \in Actions |->
       IF lifecycle[i] = "AUTHORIZED" THEN "CANCELLED"
       ELSE IF lifecycle[i] \in InFlight THEN "OUTCOME_UNKNOWN" ELSE lifecycle[i]]
  /\ UNCHANGED dispatched

Next ==
  \/ \E i \in Actions : Dispatch(i) \/ Advance(i)
  \/ \E S \in SUBSET Actions : Abandon(S)
  \/ Stop

Spec == Init /\ [][Next]_vars

-----------------------------------------------------------------------------
\* A position says whether an instruction was sent: before a dispatch and after
\* a cancellation none was; in flight, failed and verified actions had one.
Honest ==
  \A i \in Actions :
    /\ lifecycle[i] \in {"PLANNED", "AUTHORIZED", "CANCELLED"} => i \notin dispatched
    /\ lifecycle[i] \in InFlight \cup Verified \cup {"FAILED"} => i \in dispatched

=============================================================================
