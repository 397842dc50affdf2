---------------------------- MODULE MessageChannel ----------------------------
(***************************************************************************)
(* What one direction of a connection promises to the two processes: the   *)
(* frames arrive whole, as they were sent, in their order and each once.   *)
(* The connection may fail, and then no further frame arrives.             *)
(***************************************************************************)
EXTENDS Naturals, Sequences

CONSTANT Frames

VARIABLES sent, received, failed

vars == <<sent, received, failed>>

Init == sent = <<>> /\ received = <<>> /\ failed = FALSE

Send(f) ==
  /\ sent' = Append(sent, f)
  /\ UNCHANGED <<received, failed>>

Receive ==
  /\ ~failed /\ Len(received) < Len(sent)
  /\ received' = Append(received, sent[Len(received) + 1])
  /\ UNCHANGED <<sent, failed>>

Fail ==
  /\ failed' = TRUE
  /\ UNCHANGED <<sent, received>>

Next == (\E f \in Frames : Send(f)) \/ Receive \/ Fail

Spec == Init /\ [][Next]_vars
===============================================================================
