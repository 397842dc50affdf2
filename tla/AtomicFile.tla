------------------------------ MODULE AtomicFile ------------------------------
(***************************************************************************)
(* What the durable store promises about its file: a save in progress      *)
(* puts the whole of its content in place in one step or not at all, it    *)
(* reports success only after that step, and a crash changes nothing.      *)
(***************************************************************************)
CONSTANTS Threads, Nothing, Torn

VARIABLES
  file,   \* content of the file, Nothing while there is none
  save    \* of each thread: where its save stands and what it is to put in place

vars == <<file, save>>

NoSave == [stage |-> "idle", content |-> Nothing]

Init ==
  /\ file = Nothing
  /\ save = [t \in Threads |-> NoSave]

Reach(t, stage) == save' = [save EXCEPT ![t] = [NoSave EXCEPT !.stage = stage]]

Begin(t) ==
  /\ save[t].stage = "idle"
  /\ save'[t].content \notin {Nothing, Torn}
  /\ save' = [save EXCEPT ![t] = [stage |-> "begun", content |-> save'[t].content]]
  /\ UNCHANGED file

Place(t) ==
  /\ save[t].stage = "begun"
  /\ file' = save[t].content
  /\ Reach(t, "placed")

Succeed(t) == save[t].stage = "placed" /\ Reach(t, "succeeded") /\ UNCHANGED file
Fail(t) == save[t].stage \in {"idle", "begun"} /\ Reach(t, "failed") /\ UNCHANGED file

Answer(t) ==
  /\ save[t].stage \in {"succeeded", "failed"}
  /\ save' = [save EXCEPT ![t] = NoSave]
  /\ UNCHANGED file

Crash ==
  /\ save' = [t \in Threads |-> NoSave]
  /\ UNCHANGED file

Next == Crash \/ \E t \in Threads : Begin(t) \/ Place(t) \/ Succeed(t) \/ Fail(t) \/ Answer(t)

Spec == Init /\ [][Next]_vars
===============================================================================
