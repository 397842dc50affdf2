--------------------------- MODULE MCWorkerSession ---------------------------
(* Finite instances of WorkerSession for TLC. *)
EXTENDS WorkerSession, TLC

CONSTANTS worker, first, second, driver

\* two incarnations of one worker
MCWorkerOf == [c \in Processes |-> worker]
MCBootOf == [c \in Processes |-> IF c = first THEN 1 ELSE 2]
\* The first publishes twice, the second once.  With room for one request and
\* four answers the first can outgrow its buffers and the second cannot.
MCRounds == [c \in Processes |-> IF c = first THEN 2 ELSE 1]

=============================================================================
