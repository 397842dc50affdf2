----------------------------- MODULE DurableStore -----------------------------
(***************************************************************************)
(* DurableStore::save (src/src/persistence.cpp), step by step: encode,     *)
(* take the gate of the destination, write a scratch file of its own,      *)
(* flush, replace the destination, return.  Every step can fail where the  *)
(* code handles a failure, and the process can crash between any two.      *)
(*                                                                         *)
(* The encoding is abstracted: a container decodes to the state that was   *)
(* encoded, and an incomplete one (Torn) to nothing.  Scratch names are    *)
(* unique per save, and no one reads a scratch file a crash leaves behind. *)
(***************************************************************************)

CONSTANTS
  Threads,   \* the threads that call save
  Nobody,    \* the gate is free
  Nothing,   \* no file
  Torn       \* an incomplete container

ASSUME StoreAssumption == Nobody \notin Threads

VARIABLES
  file,   \* what the destination holds
  gate,   \* save_gate_for(path_): the thread that holds it
  save    \* of each thread: the stage of its save, the state saved, its scratch file

storeVars == <<file, gate, save>>

Stages ==
  {"idle", "encoded", "gated", "writing", "written", "replaced", "succeeded", "failed"}

NoSave == [stage |-> "idle", content |-> Nothing, scratch |-> Nothing]

Failed == [NoSave EXCEPT !.stage = "failed"]

StoreInit ==
  /\ file = Nothing
  /\ gate = Nobody
  /\ save = [t \in Threads |-> NoSave]

\* The state is handed over by the caller; one beyond the limits is not encoded.
Begin(t, content) ==
  /\ save[t].stage = "idle"
  /\ \E begun \in {[stage |-> "encoded", content |-> content, scratch |-> Nothing], Failed} :
       save' = [save EXCEPT ![t] = begun]
  /\ UNCHANGED <<file, gate>>

Moves(t, from, to) ==
  /\ save[t].stage = from
  /\ save' = [save EXCEPT ![t].stage = to]

Lock(t) ==
  /\ gate = Nobody
  /\ gate' = t
  /\ Moves(t, "encoded", "gated")
  /\ UNCHANGED file

Create(t) ==
  /\ save[t].stage = "gated"
  /\ save' = [save EXCEPT ![t].stage = "writing", ![t].scratch = Torn]
  /\ UNCHANGED <<file, gate>>

\* Mutation: a short write goes unnoticed.
WriteSome(t) ==
  /\ save[t].stage = "writing"
  /\ \E written \in {Torn, save[t].content} :
       save' = [save EXCEPT ![t].stage = "written", ![t].scratch = written]
  /\ UNCHANGED <<file, gate>>

\* All of it, and the flush.
Write(t) ==
  /\ save[t].stage = "writing"
  /\ save' = [save EXCEPT ![t].stage = "written", ![t].scratch = save[t].content]
  /\ UNCHANGED <<file, gate>>

\* atomic_replace
Replace(t) ==
  /\ save[t].stage = "written"
  /\ file' = save[t].scratch
  /\ save' = [save EXCEPT ![t] = [NoSave EXCEPT !.stage = "replaced"]]
  /\ UNCHANGED gate

Return(t) ==
  /\ Moves(t, "replaced", "succeeded")
  /\ gate' = Nobody
  /\ UNCHANGED file

\* Mutation: an early return that leaves the gate locked.
FailGated(t) ==
  /\ save[t].stage \in {"gated", "writing", "written"}
  /\ save' = [save EXCEPT ![t] = Failed]
  /\ UNCHANGED <<file, gate>>

\* Creating, writing, flushing or replacing fails: the scratch file is removed.
Fail(t) ==
  /\ save[t].stage \in {"gated", "writing", "written"}
  /\ save' = [save EXCEPT ![t] = Failed]
  /\ gate' = Nobody
  /\ UNCHANGED file

SaveStep(t) ==
  Lock(t) \/ Create(t) \/ Write(t) \/ Replace(t) \/ Return(t) \/ Fail(t)

\* The caller takes the result.
Taken(t) ==
  /\ save[t].stage \in {"succeeded", "failed"}
  /\ save' = [save EXCEPT ![t] = NoSave]
  /\ UNCHANGED <<file, gate>>

\* The threads and the gate end with the process.
StoreCrash ==
  /\ gate' = Nobody
  /\ save' = [t \in Threads |-> NoSave]
  /\ UNCHANGED file

--------------------------------------------------------------------------------
(* The abstract file: a save is begun until its replacement, placed after it. *)

AbstractStage(stage) ==
  CASE stage \in {"encoded", "gated", "writing", "written"} -> "begun"
    [] stage = "replaced" -> "placed"
    [] stage \in {"idle", "succeeded", "failed"} -> stage

AbstractSave ==
  [t \in Threads |-> [stage |-> AbstractStage(save[t].stage), content |-> save[t].content]]

Atomic == INSTANCE AtomicFile WITH save <- AbstractSave

\* README, "Writes are transactional": saves that run concurrently, fail half-way
\* or are cut off by a crash implement the abstract file: whatever it holds was
\* handed to a save as a whole, and success is reported only of what is in place.
StoreIsAtomic == Atomic!Spec
===============================================================================
