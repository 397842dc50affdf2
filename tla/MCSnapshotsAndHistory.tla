------------------------ MODULE MCSnapshotsAndHistory ------------------------
(* Finite instances of SnapshotsAndHistory for TLC. *)
EXTENDS SnapshotsAndHistory, FiniteSets, TLC

CONSTANTS t1, t2, v1, a

Verdict(state, decision) == [state |-> state, decision |-> decision]

Unread == Verdict("REVALIDATION_REQUIRED", "REVALIDATION_REQUIRED")
MCBlindVerdicts == {Unread}

\* A healthy domain is allowed with or without headroom to spare.
MCVerdicts == {Unread, Verdict("WARM", "ALLOW"), Verdict("WARM", "ALLOW_DERATED")}

MCCouplings == {<<1, 2>>}

MCSymmetry == Permutations(Threads)

\* Two threads change, read and explain a configuration with a device and a
\* coupling; saves fail, and every evaluation finds the same.
ManyReaders ==
  /\ run = 1 /\ process = "serving" /\ file = Nothing
  /\ \A d \in Domains : evaluations[d].decision \in {"UNKNOWN", "ALLOW"}

\* One thread at a time changes and saves domains and policies, evaluations find
\* anything, and the process ends and starts again.
OneWriter ==
  /\ Cardinality({t \in Threads : session[t].stage # "idle"}) <= 1
  /\ couplings = {} /\ devices = Fresh.devices

\* What is explored: both kinds of history, and not their product.
Explored == ManyReaders \/ OneWriter
==============================================================================
