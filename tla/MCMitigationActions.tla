------------------------- MODULE MCMitigationActions -------------------------
(* Finite instances of MitigationActions for TLC. *)
EXTENDS MitigationActions, TLC

CONSTANTS d1, w1, w2, p0, p1, t1, t2

\* every domain under a policy of its own, absent at first
MCOwnPolicy == [d \in Domains |-> p1]

\* workers and threads inside verify_action are interchangeable
MCSymmetry == Permutations(Workers) \cup Permutations(Callers)

\* The life of an action: time, a change of policy or the shutdown, sequences and two
\* threads inside verify_action, under one incarnation of one worker.
OneIncarnation ==
  /\ policy[DefaultPolicy] = 1 /\ (policyGeneration > 1 => shutdown = "running")
  /\ Cardinality(Registered) <= 1 /\ \A w \in Workers : boot[w] <= 1
  /\ topologyGeneration = 1 /\ capabilityGeneration = 1

\* The incarnations: workers, boots, devices, members, domains and couplings
\* change, at one time, with one reading of each incarnation and no verification;
\* of a second worker, another topology and other capabilities, two at a time.
OneMoment ==
  /\ now = 1 /\ policyGeneration = 1 /\ shutdown = "running"
  /\ Cardinality(Registered) + topologyGeneration + capabilityGeneration <= 5
  /\ \A k \in Keys : evidence[k].telemetry <= 1
  /\ \A c \in Callers : calls[c] = NoCall

\* What is explored: both kinds of history, and not their product.
Explored == OneIncarnation \/ OneMoment

=============================================================================
