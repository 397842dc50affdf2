----------------------- MODULE CoordinatorRestartProofs -----------------------
(***************************************************************************)
(* The coordinator's file is atomic, self-contained and never behind an    *)
(* answer, and live authority is of the running process, for any number of *)
(* threads, domains, actions, commands and starts.                         *)
(***************************************************************************)
EXTENDS CoordinatorRestart, TLAPS

USE DEF NoSave, Failed, NoAction, NoCommand, NoPromise

Saves ==
  [stage : Stages, content : Snapshots \cup {Nothing}, scratch : Snapshots \cup {Nothing, Torn}]

Reports == [action : ActionIds, epoch : Nat, serial : Nat, domainGeneration : Nat]

\* What a save holds follows from its stage.
Begun == {"encoded", "gated", "writing", "written"}

SaveOK(s) ==
  /\ s.stage \in Begun => s.content \in Snapshots
  /\ s.stage \notin Begun => s.content = Nothing
  /\ s.stage = "written" => s.scratch = s.content

StoreOK ==
  /\ file \in Snapshots \cup {Nothing}
  /\ save \in [Threads -> Saves]
  /\ \A t \in Threads : SaveOK(save[t])

MemoryOK ==
  /\ epoch \in Nat
  /\ generation \in [Domains -> Nat]
  /\ parent \in [Domains -> Domains \cup {0}]
  /\ couplings \in SUBSET PossibleCouplings
  /\ actionGeneration \in Nat
  /\ actions \in [ActionIds -> Actions]

ProcessOK ==
  /\ up \in BOOLEAN /\ stopping \in BOOLEAN
  /\ command \in [Threads -> [domain : Domains \cup {0}, generation : Nat]]
  /\ run \in Nat /\ served \in Nat
  /\ reports \in SUBSET Reports
  /\ flushed \in [Domains -> Nat] /\ promised \in [Domains -> Nat]

TypeOK == StoreOK /\ MemoryOK /\ ProcessOK

LEMMA LiveIsUnresolved ==
  /\ Live \cap Terminal = {}
  /\ "PLANNED" \notin Live \cup Terminal
  /\ Lifecycles = {"PLANNED"} \cup Live \cup Terminal
BY DEF Live, Terminal, Lifecycles, InFlight, Verified

\* The state persist captures is one the file may hold.
LEMMA SnapshotType == MemoryOK => Snapshot \in Snapshots
BY DEF MemoryOK, Snapshot, Snapshots

LEMMA RestoredType ==
  ASSUME NEW a \in Actions
  PROVE  Restored(a) \in Actions /\ Restored(a).lifecycle \notin Live /\ Restored(a).domain = a.domain
         /\ (Restored(a).lifecycle = "PLANNED" <=> a.lifecycle = "PLANNED")
<1>1. CASE a.lifecycle = "PLANNED" \/ IsTerminal(a.lifecycle)
  BY <1>1 DEF Restored, Actions, IsTerminal, Live, Terminal, InFlight, Verified
<1>2. CASE ~(a.lifecycle = "PLANNED" \/ IsTerminal(a.lifecycle))
  BY <1>2 DEF Restored, Actions, Lifecycles, Live, Terminal, InFlight, Verified
<1>3. QED BY <1>1, <1>2

LEMMA NoActionType == NoAction \in Actions
BY DEF Actions, Lifecycles

--------------------------------------------------------------------------------
(* The store. *)

\* Every step of a save keeps the store well-formed.
LEMMA SaveStepType ==
  ASSUME StoreOK, NEW t \in Threads, SaveStep(t)
  PROVE  StoreOK'
<1> USE DEF StoreOK, Saves, Stages, SaveOK, Begun
<1>1. CASE Lock(t) BY <1>1 DEF Lock, Moves
<1>2. CASE Create(t) BY <1>2 DEF Create
<1>3. CASE Write(t) BY <1>3 DEF Write
<1>4. CASE Replace(t) BY <1>4 DEF Replace
<1>5. CASE Return(t) BY <1>5 DEF Return, Moves
<1>6. CASE Fail(t) BY <1>6 DEF Fail
<1>7. QED BY <1>1, <1>2, <1>3, <1>4, <1>5, <1>6 DEF SaveStep

LEMMA BeginType ==
  ASSUME StoreOK, NEW t \in Threads, NEW s \in Snapshots, Begin(t, s)
  PROVE  StoreOK'
BY DEF StoreOK, Saves, Stages, SaveOK, Begun, Begin

LEMMA TakenType ==
  ASSUME StoreOK, NEW t \in Threads, Taken(t)
  PROVE  StoreOK'
BY DEF StoreOK, Saves, Stages, SaveOK, Begun, Taken

LEMMA StoreCrashType ==
  ASSUME StoreOK, StoreCrash
  PROVE  StoreOK'
BY DEF StoreOK, Saves, Stages, SaveOK, Begun, StoreCrash

LEMMA StoreFrame ==
  ASSUME StoreOK, UNCHANGED storeVars
  PROVE  StoreOK'
BY DEF StoreOK, SaveOK, storeVars

--------------------------------------------------------------------------------
(* Types. *)

LEMMA InitType == Init => TypeOK
<1> SUFFICES ASSUME Init PROVE TypeOK
  OBVIOUS
<1>1. StoreOK BY DEF Init, StoreInit, StoreOK, Saves, Stages, SaveOK, Begun
<1>2. MemoryOK BY RestartAssumption, NoActionType DEF Init, MemoryOK
<1>3. up \in BOOLEAN /\ stopping \in BOOLEAN BY DEF Init
<1>4. ProcessOK BY <1>3 DEF Init, ProcessOK
<1>5. QED BY <1>1, <1>2, <1>4 DEF TypeOK

LEMMA NextType == TypeOK /\ [Next]_vars => TypeOK'
<1> SUFFICES ASSUME TypeOK, [Next]_vars PROVE TypeOK'
  OBVIOUS
<1> USE RestartAssumption DEF history, kept, memory, process
<1>1. ASSUME NEW t \in Threads, NEW d \in Domains, NEW p \in Domains \cup {0}, RegisterDomain(t, d, p)
      PROVE  TypeOK'
  <2>1. StoreOK' BY <1>1, StoreFrame DEF RegisterDomain, TypeOK
  <2>2. MemoryOK' BY <1>1 DEF RegisterDomain, TypeOK, MemoryOK
  <2>3. ProcessOK' BY <1>1 DEF RegisterDomain, Serves, TypeOK, ProcessOK
  <2>4. QED BY <2>1, <2>2, <2>3 DEF TypeOK
<1>2. ASSUME NEW t \in Threads, NEW d \in Domains, NEW g \in 1..MaxGeneration, UpdateDomain(t, d, g)
      PROVE  TypeOK'
  <2>1. StoreOK' BY <1>2, StoreFrame DEF UpdateDomain, TypeOK
  <2>2. MemoryOK' BY <1>2 DEF UpdateDomain, TypeOK, MemoryOK
  <2>3. ProcessOK' BY <1>2 DEF UpdateDomain, Serves, TypeOK, ProcessOK
  <2>4. QED BY <2>1, <2>2, <2>3 DEF TypeOK
<1>3. ASSUME NEW t \in Threads, NEW edge \in PossibleCouplings, RegisterCoupling(t, edge)
      PROVE  TypeOK'
  <2>1. StoreOK' BY <1>3, StoreFrame DEF RegisterCoupling, TypeOK
  <2>2. MemoryOK' BY <1>3 DEF RegisterCoupling, TypeOK, MemoryOK
  <2>3. ProcessOK' BY <1>3 DEF RegisterCoupling, Serves, TypeOK, ProcessOK
  <2>4. QED BY <2>1, <2>2, <2>3 DEF TypeOK
<1>4. ASSUME NEW t \in Threads, NEW d \in Domains, Authorize(t, d) PROVE TypeOK'
  <2>1. StoreOK' BY <1>4, StoreFrame DEF Authorize, TypeOK
  <2>2. MemoryOK'
    <3>1. [lifecycle |-> "AUTHORIZED", epoch |-> epoch, domain |-> d,
           domainGeneration |-> generation[d], run |-> run, serial |-> served', reported |-> 0] \in Actions
      BY <1>4 DEF Authorize, Serves, TypeOK, MemoryOK, ProcessOK, Actions, Lifecycles, Live
    <3> DEFINE next == [lifecycle |-> "AUTHORIZED", epoch |-> epoch, domain |-> d,
           domainGeneration |-> generation[d], run |-> run, serial |-> served', reported |-> 0]
    <3>a. actions' = [actions EXCEPT ![actionGeneration'] = next]
      BY <1>4 DEF Authorize
    <3>b. actions' \in [ActionIds -> Actions]
      <4> HIDE DEF next
      <4> QED BY <3>1, <3>a DEF TypeOK, MemoryOK, next
    <3>2. actionGeneration' \in Nat /\ actions' \in [ActionIds -> Actions]
      BY <1>4, <3>b DEF Authorize, TypeOK, MemoryOK
    <3>3. QED BY <1>4, <3>2 DEF Authorize, TypeOK, MemoryOK
  <2>3. ProcessOK' BY <1>4 DEF Authorize, Serves, TypeOK, ProcessOK
  <2>4. QED BY <2>1, <2>2, <2>3 DEF TypeOK
<1>5. ASSUME NEW t \in Threads, Persist(t) PROVE TypeOK'
  <2>1. StoreOK' BY <1>5, StoreFrame DEF Persist, TypeOK
  <2>2. MemoryOK' BY <1>5 DEF Persist, TypeOK, MemoryOK
  <2>3. ProcessOK' BY <1>5 DEF Persist, Serves, TypeOK, ProcessOK
  <2>4. QED BY <2>1, <2>2, <2>3 DEF TypeOK
<1>6. ASSUME NEW t \in Threads, Shutdown(t) PROVE TypeOK'
  <2>1. StoreOK' BY <1>6, StoreFrame DEF Shutdown, TypeOK
  <2>2. MemoryOK'
    BY <1>6 DEF Shutdown, TypeOK, MemoryOK, Actions, Classified, Lifecycles, Live, Terminal, InFlight
  <2>3. ProcessOK' BY <1>6 DEF Shutdown, Serves, TypeOK, ProcessOK
  <2>4. QED BY <2>1, <2>2, <2>3 DEF TypeOK
<1>7. ASSUME NEW t \in Threads, Capture(t) PROVE TypeOK'
  <2>1. StoreOK' BY <1>7, SnapshotType, BeginType DEF Capture, TypeOK
  <2>2. MemoryOK' BY <1>7 DEF Capture, TypeOK, MemoryOK
  <2>3. ProcessOK' BY <1>7 DEF Capture, TypeOK, ProcessOK
  <2>4. QED BY <2>1, <2>2, <2>3 DEF TypeOK
<1>8. ASSUME NEW t \in Threads, StoreWorks(t) PROVE TypeOK'
  <2>1. StoreOK' BY <1>8, SaveStepType DEF StoreWorks, TypeOK
  <2>2. MemoryOK' BY <1>8 DEF StoreWorks, TypeOK, MemoryOK
  <2>3. flushed' \in [Domains -> Nat]
    <3>1. CASE Decodes(file')
      BY <1>8, <2>1, <3>1 DEF StoreWorks, TypeOK, ProcessOK, StoreOK, Snapshots, Decodes, Larger
    <3>2. CASE ~Decodes(file')
      BY <1>8, <3>2 DEF StoreWorks, TypeOK, ProcessOK
    <3>3. QED BY <3>1, <3>2
  <2>4. ProcessOK' BY <1>8, <2>3 DEF StoreWorks, TypeOK, ProcessOK
  <2>5. QED BY <2>1, <2>2, <2>4 DEF TypeOK
<1>9. ASSUME NEW t \in Threads, Answer(t) PROVE TypeOK'
  <2>1. StoreOK' BY <1>9, TakenType DEF Answer, TypeOK
  <2>2. MemoryOK' BY <1>9 DEF Answer, TypeOK, MemoryOK
  <2>3. promised' \in [Domains -> Nat]
    BY <1>9 DEF Answer, Promises, Larger, TypeOK, ProcessOK
  <2>4. ProcessOK' BY <1>9, <2>3 DEF Answer, TypeOK, ProcessOK
  <2>5. QED BY <2>1, <2>2, <2>4 DEF TypeOK
<1>10. ASSUME NEW i \in ActionIds, NEW stale \in BOOLEAN, Dispatch(i, stale) PROVE TypeOK'
  <2>1. StoreOK' BY <1>10, StoreFrame DEF Dispatch, TypeOK
  <2>2. MemoryOK'
    BY <1>10 DEF Dispatch, TypeOK, MemoryOK, Actions, Lifecycles, Live, Terminal, InFlight
  <2>3. ProcessOK' BY <1>10 DEF Dispatch, TypeOK, ProcessOK, MemoryOK, Reports, Actions
  <2>4. QED BY <2>1, <2>2, <2>3 DEF TypeOK
<1>11. ASSUME NEW report \in reports, NEW accepted \in BOOLEAN, Ack(report, accepted) PROVE TypeOK'
  <2>1. StoreOK' BY <1>11, StoreFrame DEF Ack, TypeOK
  <2>2. report \in Reports BY <1>11 DEF TypeOK, ProcessOK
  <2>3. MemoryOK'
    BY <1>11, <2>2 DEF Ack, TypeOK, MemoryOK, Actions, Reports, Lifecycles, Live, Terminal, InFlight
  <2>4. ProcessOK' BY <1>11 DEF Ack, TypeOK, ProcessOK
  <2>5. QED BY <2>1, <2>3, <2>4 DEF TypeOK
<1>12. ASSUME Crash PROVE TypeOK'
  <2>1. StoreOK' BY <1>12, StoreCrashType DEF Crash, TypeOK
  <2>2. MemoryOK' BY <1>12, NoActionType DEF Crash, NewMemory, MemoryOK
  <2>3. ProcessOK' BY <1>12 DEF Crash, TypeOK, ProcessOK
  <2>4. QED BY <2>1, <2>2, <2>3 DEF TypeOK
<1>13. ASSUME Start PROVE TypeOK'
  <2>1. StoreOK' BY <1>13, StoreFrame DEF Start, TypeOK
  <2>2. CASE file = Nothing
    BY <1>13, <2>1, <2>2, NoActionType DEF Start, NewMemory, TypeOK, MemoryOK, ProcessOK
  <2>3. CASE file # Nothing /\ Loadable(file)
    <3>1. file \in Snapshots BY <2>3 DEF TypeOK, StoreOK
    <3>2. MemoryOK' BY <1>13, <2>3, <3>1, RestoredType DEF Start, MemoryOK, Snapshots
    <3>3. ProcessOK' BY <1>13, <2>3 DEF Start, TypeOK, ProcessOK
    <3>4. QED BY <2>1, <3>2, <3>3 DEF TypeOK
  <2>4. CASE file # Nothing /\ ~Loadable(file)
    <3>1. MemoryOK' BY <1>13, <2>4 DEF Start, TypeOK, MemoryOK
    <3>2. up' = FALSE BY <1>13, <2>4 DEF Start
    <3>3. run' \in Nat /\ UNCHANGED <<stopping, command, served, reports, flushed, promised>>
      BY <1>13 DEF Start, TypeOK, ProcessOK
    <3>4. ProcessOK' BY <3>2, <3>3 DEF TypeOK, ProcessOK
    <3>5. QED BY <2>1, <3>1, <3>4 DEF TypeOK
  <2>5. QED BY <2>2, <2>3, <2>4
<1>14. CASE UNCHANGED vars
  BY <1>14, StoreFrame DEF vars, TypeOK, MemoryOK, ProcessOK
<1>15. QED
  BY <1>1, <1>2, <1>3, <1>4, <1>5, <1>6, <1>7, <1>8, <1>9, <1>10, <1>11, <1>12, <1>13, <1>14 DEF Next

\* Every variable stays in its set; a scratch file that is complete holds what
\* is being saved (src/src/persistence.cpp, DurableStore::save).
THEOREM TypeCorrect == Spec => []TypeOK
BY InitType, NextType, PTL DEF Spec

--------------------------------------------------------------------------------
(* The file is atomic. *)

LEMMA AbstractOf ==
  /\ AbstractStage("idle") = "idle" /\ AbstractStage("succeeded") = "succeeded"
  /\ AbstractStage("failed") = "failed" /\ AbstractStage("replaced") = "placed"
  /\ \A stage \in {"encoded", "gated", "writing", "written"} : AbstractStage(stage) = "begun"
BY DEF AbstractStage

LEMMA InitAtomic == Init => Atomic!Init
BY AbstractOf DEF Init, StoreInit, Atomic!Init, Atomic!NoSave, AbstractSave

\* Placing is the replacement; the steps before it are invisible.
LEMMA SaveStepAtomic ==
  ASSUME StoreOK, NEW t \in Threads, SaveStep(t)
  PROVE  [Atomic!Next]_(Atomic!vars)
<1> USE AbstractOf DEF StoreOK, Saves, SaveOK, Begun, AbstractSave, Atomic!Reach, Atomic!NoSave
<1>1. CASE Lock(t) BY <1>1 DEF Lock, Moves, Atomic!vars
<1>2. CASE Create(t) BY <1>2 DEF Create, Atomic!vars
<1>3. CASE Write(t) BY <1>3 DEF Write, Atomic!vars
<1>4. CASE Replace(t)
  <2>1. Atomic!Place(t) BY <1>4 DEF Replace, Atomic!Place
  <2>2. QED BY <2>1 DEF Atomic!Next
<1>5. CASE Return(t)
  <2>1. Atomic!Succeed(t) BY <1>5 DEF Return, Moves, Atomic!Succeed
  <2>2. QED BY <2>1 DEF Atomic!Next
<1>6. CASE Fail(t)
  <2>1. Atomic!Fail(t) BY <1>6 DEF Fail, Atomic!Fail
  <2>2. QED BY <2>1 DEF Atomic!Next
<1>7. QED BY <1>1, <1>2, <1>3, <1>4, <1>5, <1>6 DEF SaveStep

LEMMA NextAtomic == TypeOK /\ [Next]_vars => [Atomic!Next]_(Atomic!vars)
<1> SUFFICES ASSUME TypeOK, [Next]_vars PROVE [Atomic!Next]_(Atomic!vars)
  OBVIOUS
<1>1. ASSUME UNCHANGED storeVars PROVE UNCHANGED Atomic!vars
  BY <1>1 DEF storeVars, AbstractSave, Atomic!vars
<1>2. ASSUME NEW t \in Threads, Capture(t) PROVE [Atomic!Next]_(Atomic!vars)
  <2>1. Snapshot \in Snapshots /\ Begin(t, Snapshot)
    BY <1>2, SnapshotType DEF TypeOK, Capture
  <2>2. save \in [Threads -> Saves] /\ save[t].stage = "idle" /\ UNCHANGED file
    BY <2>1 DEF Begin, TypeOK, StoreOK
  <2>3. CASE save' = [save EXCEPT ![t] = [stage |-> "encoded", content |-> Snapshot, scratch |-> Nothing]]
    <3>1. AbstractSave'[t] = [stage |-> "begun", content |-> Snapshot]
      BY <2>2, <2>3, AbstractOf DEF AbstractSave
    <3>2. AbstractSave' = [AbstractSave EXCEPT ![t] = [stage |-> "begun", content |-> AbstractSave'[t].content]]
      BY <2>2, <2>3, <3>1 DEF AbstractSave
    <3>3. AbstractSave'[t].content \notin {Nothing, Torn} /\ AbstractSave[t].stage = "idle"
      BY <2>1, <2>2, <3>1, AbstractOf, SnapshotAssumption DEF AbstractSave
    <3>4. Atomic!Begin(t)
      BY <2>2, <3>2, <3>3 DEF Atomic!Begin
    <3>5. QED BY <3>4 DEF Atomic!Next
  <2>4. CASE save' = [save EXCEPT ![t] = Failed]
    <3>1. Atomic!Fail(t)
      BY <2>2, <2>4, AbstractOf DEF Atomic!Fail, Atomic!Reach, Atomic!NoSave, AbstractSave
    <3>2. QED BY <3>1 DEF Atomic!Next
  <2>5. QED BY <2>1, <2>3, <2>4 DEF Begin
<1>3. ASSUME NEW t \in Threads, Answer(t) PROVE [Atomic!Next]_(Atomic!vars)
  <2>1. Atomic!Answer(t)
    BY <1>3, AbstractOf
       DEF Answer, Taken, Atomic!Answer, Atomic!NoSave, AbstractSave, TypeOK, StoreOK, Saves
  <2>2. QED BY <2>1 DEF Atomic!Next
<1>4. ASSUME Crash PROVE [Atomic!Next]_(Atomic!vars)
  <2>1. Atomic!Crash
    BY <1>4, AbstractOf DEF Crash, StoreCrash, Atomic!Crash, Atomic!NoSave, AbstractSave
  <2>2. QED BY <2>1 DEF Atomic!Next
<1>5. ASSUME NEW t \in Threads, StoreWorks(t) PROVE [Atomic!Next]_(Atomic!vars)
  BY <1>5, SaveStepAtomic DEF StoreWorks, TypeOK
<1>6. CASE UNCHANGED storeVars BY <1>1, <1>6
<1>7. QED
  BY <1>2, <1>3, <1>4, <1>5, <1>6
     DEF Next, vars, RegisterDomain, UpdateDomain, RegisterCoupling, Authorize, Persist, Shutdown,
         Dispatch, Ack, Start

\* Concurrent, failing and interrupted saves implement the abstract file: README,
\* "Writes are transactional".
THEOREM ImplementsAtomicFile == Spec => StoreIsAtomic
<1>1. Init => Atomic!Init BY InitAtomic
<1>2. TypeOK /\ [Next]_vars => [Atomic!Next]_(Atomic!vars) BY NextAtomic
<1>3. QED BY <1>1, <1>2, TypeCorrect, PTL DEF Spec, StoreIsAtomic, Atomic!Spec

--------------------------------------------------------------------------------
(* Live authority. *)

\* What a process can still dispatch or acknowledge it has authorised itself,
\* under its own epoch: load_durable restores no live action.
THEOREM AuthorityIsOfThisRun == Spec => []LiveAuthorityIsOfThisRun
<1> DEFINE Inv == LiveAuthorityIsOfThisRun
<1>1. Init => Inv
  BY LiveIsUnresolved DEF Init, LiveAuthorityIsOfThisRun
<1>2. TypeOK /\ Inv /\ [Next]_vars => Inv'
  <2> SUFFICES ASSUME TypeOK, Inv, [Next]_vars PROVE Inv'
    OBVIOUS
  <2> USE LiveIsUnresolved DEF LiveAuthorityIsOfThisRun
  <2>1. ASSUME UNCHANGED <<up, epoch, actions, run>> PROVE Inv'
    BY <2>1
  <2>2. ASSUME NEW t \in Threads, NEW d \in Domains, Authorize(t, d) PROVE Inv'
    <3>1. ASSUME NEW i \in ActionIds, i # actionGeneration' PROVE actions'[i] = actions[i]
      BY <2>2, <3>1 DEF Authorize, TypeOK, MemoryOK
    <3>2. actionGeneration' \in ActionIds =>
            actions'[actionGeneration'].run = run /\ actions'[actionGeneration'].epoch = epoch
      BY <2>2 DEF Authorize, TypeOK, MemoryOK
    <3>3. UNCHANGED <<epoch, run>> /\ up BY <2>2 DEF Authorize, Serves, kept
    <3>4. QED BY <3>1, <3>2, <3>3
  <2>3. ASSUME NEW t \in Threads, Shutdown(t) PROVE Inv'
    <3>1. \A i \in ActionIds : actions[i] \in Actions BY DEF TypeOK, MemoryOK
    <3>2. \A i \in ActionIds : actions'[i].lifecycle = Classified(actions[i].lifecycle)
      BY <2>3, <3>1 DEF Shutdown, Actions
    <3>3. \A l \in Lifecycles : Classified(l) \notin Live
      BY DEF Classified, Live, InFlight, Terminal, Lifecycles, Verified
    <3>4. QED BY <3>1, <3>2, <3>3 DEF Actions
  <2>4. ASSUME NEW i \in ActionIds, NEW stale \in BOOLEAN, Dispatch(i, stale) PROVE Inv'
    <3>1. /\ actions[i].lifecycle \in Live
          /\ UNCHANGED <<up, epoch, run>>
      BY <2>4 DEF Dispatch, Live, process
    <3>2. \A j \in ActionIds : actions'[j].run = actions[j].run /\ actions'[j].epoch = actions[j].epoch
                               /\ (j # i => actions'[j] = actions[j])
      BY <2>4 DEF Dispatch, TypeOK, MemoryOK, Actions
    <3>3. QED BY <3>1, <3>2
  <2>5. ASSUME NEW report \in reports, NEW accepted \in BOOLEAN, Ack(report, accepted) PROVE Inv'
    <3>1. report.action \in ActionIds BY DEF TypeOK, ProcessOK, Reports
    <3>2. QED BY <2>5, <3>1 DEF Ack, history, process, Live, InFlight, TypeOK, MemoryOK
  <2>6. ASSUME Crash PROVE Inv'
    BY <2>6 DEF Crash
  <2>7. ASSUME Start PROVE Inv'
    <3>1. CASE file = Nothing BY <2>7, <3>1 DEF Start, NewMemory
    <3>2. CASE file # Nothing /\ Loadable(file)
      <4>1. \A i \in ActionIds : file.actions[i] \in Actions
        BY <3>2 DEF TypeOK, StoreOK, Snapshots
      <4>2. \A i \in ActionIds : actions'[i] = Restored(file.actions[i])
        BY <2>7, <3>2 DEF Start
      <4>3. QED BY <4>1, <4>2, RestoredType
    <3>3. CASE file # Nothing /\ ~Loadable(file) BY <2>7, <3>3 DEF Start
    <3>4. QED BY <3>1, <3>2, <3>3
  <2>8. CASE UNCHANGED <<up, epoch, actions, run>> BY <2>1, <2>8
  <2>9. QED
    BY <2>2, <2>3, <2>4, <2>5, <2>6, <2>7, <2>8
       DEF Next, vars, process, memory, history, kept, RegisterDomain, UpdateDomain, RegisterCoupling, Persist,
           Serves, Capture, StoreWorks, Answer
<1>3. QED BY <1>1, <1>2, TypeCorrect, PTL DEF Spec

--------------------------------------------------------------------------------
(* Answers follow the flush. *)

\* What a command promises is in the memory until it is captured, in the capture
\* until it is placed, and in the file's past from then on.
PromiseKept(t) ==
  /\ command[t] = NoCommand => save[t].stage = "idle"
  /\ command[t].domain # 0 =>
       /\ save[t].stage = "idle" => command[t].generation <= generation[command[t].domain]
       /\ save[t].stage \in Begun =>
            command[t].generation <= save[t].content.generation[command[t].domain]
       /\ save[t].stage \in {"replaced", "succeeded"} =>
            command[t].generation <= flushed[command[t].domain]

PromisesKept ==
  /\ ~up => \A t \in Threads : command[t] = NoCommand
  /\ \A t \in Threads : PromiseKept(t)

\* A command that begins has its promise in the memory.
LEMMA ServesKeeps ==
  ASSUME TypeOK, PromisesKept, NEW t \in Threads,
         NEW p \in [domain : Domains \cup {0}, generation : Nat],
         Serves(t, p), UNCHANGED <<save, up, flushed>>,
         p.domain # 0 => p.generation <= generation'[p.domain],
         generation' \in [Domains -> Nat],
         \A d \in Domains : generation[d] <= generation'[d]
  PROVE  PromisesKept'
<1>1. /\ save[t].stage = "idle" /\ up
      /\ command' = [command EXCEPT ![t] = p]
  BY DEF Serves, PromisesKept, PromiseKept
<1>2. ASSUME NEW u \in Threads, u # t PROVE PromiseKept(u)'
  <2>1. command'[u] = command[u] /\ PromiseKept(u)
    BY <1>1, <1>2 DEF PromisesKept
  <2>2. command[u].generation \in Nat /\ (command[u].domain # 0 => command[u].domain \in Domains)
    BY DEF TypeOK, ProcessOK
  <2>3. QED BY <2>1, <2>2 DEF PromiseKept, TypeOK, MemoryOK
<1>3. PromiseKept(t)'
  BY <1>1 DEF PromiseKept, TypeOK, ProcessOK, Begun
<1>4. QED BY <1>1, <1>2, <1>3 DEF PromisesKept

\* A step of a save goes from stage to stage; only the replacement touches the file.
LEMMA SaveStepEffect ==
  ASSUME StoreOK, NEW t \in Threads, SaveStep(t)
  PROVE  /\ \A u \in Threads : u # t => save'[u] = save[u]
         /\ save[t].stage # "idle" /\ save'[t].stage # "idle"
         /\ save'[t].stage \in Begun => save[t].stage \in Begun /\ save'[t].content = save[t].content
         /\ save'[t].stage = "succeeded" => save[t].stage = "replaced"
         /\ save'[t].stage = "replaced" => save[t].stage \in Begun /\ file' = save[t].content
         /\ save'[t].stage # "replaced" => file' = file
<1> USE DEF StoreOK, Saves, SaveOK, Begun
<1>1. CASE Lock(t) BY <1>1 DEF Lock, Moves
<1>2. CASE Create(t) BY <1>2 DEF Create
<1>3. CASE Write(t) BY <1>3 DEF Write
<1>4. CASE Replace(t) BY <1>4 DEF Replace
<1>5. CASE Return(t) BY <1>5 DEF Return, Moves
<1>6. CASE Fail(t) BY <1>6 DEF Fail
<1>7. QED BY <1>1, <1>2, <1>3, <1>4, <1>5, <1>6 DEF SaveStep

LEMMA InitPromises == Init => PromisesKept
BY DEF Init, StoreInit, PromisesKept, PromiseKept

LEMMA NextPromises == TypeOK /\ TypeOK' /\ PromisesKept /\ [Next]_vars => PromisesKept'
<1> SUFFICES ASSUME TypeOK, TypeOK', PromisesKept, [Next]_vars PROVE PromisesKept'
  OBVIOUS
<1> USE DEF history, kept, memory, process, storeVars
<1>1. /\ NoPromise \in [domain : Domains \cup {0}, generation : Nat]
      /\ generation \in [Domains -> Nat] /\ generation' \in [Domains -> Nat]
      /\ flushed \in [Domains -> Nat] /\ flushed' \in [Domains -> Nat]
      /\ command \in [Threads -> [domain : Domains \cup {0}, generation : Nat]]
      /\ save \in [Threads -> Saves]
  BY DEF TypeOK, MemoryOK, ProcessOK, StoreOK
<1>2. ASSUME UNCHANGED <<save, up, command, generation, flushed>> PROVE PromisesKept'
  BY <1>2 DEF PromisesKept, PromiseKept
<1>3. ASSUME NEW t \in Threads, NEW d \in Domains, NEW p \in Domains \cup {0}, RegisterDomain(t, d, p)
      PROVE  PromisesKept'
  <2> DEFINE promise == [domain |-> d, generation |-> 1]
  <2>1. promise \in [domain : Domains \cup {0}, generation : Nat] OBVIOUS
  <2>2. promise.generation <= generation'[promise.domain]
        /\ \A e \in Domains : generation[e] <= generation'[e]
    BY <1>1, <1>3 DEF RegisterDomain
  <2>3. Serves(t, promise) /\ UNCHANGED <<save, up, flushed>>
    BY <1>3 DEF RegisterDomain
  <2> HIDE DEF promise
  <2>4. QED BY <1>1, <2>1, <2>2, <2>3, ServesKeeps
<1>4. ASSUME NEW t \in Threads, NEW d \in Domains, NEW g \in 1..MaxGeneration, UpdateDomain(t, d, g)
      PROVE  PromisesKept'
  <2> DEFINE promise == [domain |-> d, generation |-> g]
  <2>1. promise \in [domain : Domains \cup {0}, generation : Nat] OBVIOUS
  <2>2. promise.generation <= generation'[promise.domain]
        /\ \A e \in Domains : generation[e] <= generation'[e]
    BY <1>1, <1>4 DEF UpdateDomain
  <2>3. Serves(t, promise) /\ UNCHANGED <<save, up, flushed>>
    BY <1>4 DEF UpdateDomain
  <2> HIDE DEF promise
  <2>4. QED BY <1>1, <2>1, <2>2, <2>3, ServesKeeps
<1>5. ASSUME NEW t \in Threads, Serves(t, NoPromise), UNCHANGED <<save, up, flushed, generation>>
      PROVE  PromisesKept'
  BY <1>1, <1>5, ServesKeeps
<1>6. ASSUME NEW t \in Threads, Capture(t) PROVE PromisesKept'
  <2>1. /\ command[t] # NoCommand /\ save[t].stage = "idle"
        /\ UNCHANGED <<up, generation, command, flushed>>
        /\ \/ save' = [save EXCEPT ![t] = Failed]
           \/ save' = [save EXCEPT ![t] = [stage |-> "encoded", content |-> Snapshot, scratch |-> Nothing]]
    BY <1>6 DEF Capture, Begin
  <2>2. \A u \in Threads : u # t => save'[u] = save[u]
    BY <1>1, <2>1
  <2>3. \/ save'[t].stage = "failed"
        \/ save'[t].stage = "encoded" /\ save'[t].content.generation = generation
    BY <1>1, <2>1 DEF Snapshot
  <2>4. QED BY <2>1, <2>2, <2>3 DEF PromisesKept, PromiseKept, Begun
<1>7. ASSUME NEW t \in Threads, StoreWorks(t) PROVE PromisesKept'
  <2>1. \A d \in Domains : flushed[d] <= flushed'[d]
    <3>1. CASE Decodes(file')
      <4>1. file' \in Snapshots BY <3>1 DEF Decodes, TypeOK, StoreOK
      <4>2. QED BY <1>1, <1>7, <3>1, <4>1 DEF StoreWorks, Snapshots, Larger
    <3>2. CASE ~Decodes(file')
      BY <1>1, <1>7, <3>2 DEF StoreWorks
    <3>3. QED BY <3>1, <3>2
  <2>2. SaveStep(t) /\ UNCHANGED <<up, generation, command>>
    BY <1>7 DEF StoreWorks
  <2>3. /\ \A u \in Threads : u # t => save'[u] = save[u]
        /\ save[t].stage # "idle" /\ save'[t].stage # "idle"
        /\ save'[t].stage \in Begun => save[t].stage \in Begun /\ save'[t].content = save[t].content
        /\ save'[t].stage = "succeeded" => save[t].stage = "replaced"
        /\ save'[t].stage = "replaced" => save[t].stage \in Begun /\ file' = save[t].content
    BY <2>2, SaveStepEffect DEF TypeOK
  <2>4. save'[t].stage = "replaced" =>
          \A d \in Domains : save[t].content.generation[d] <= flushed'[d]
    <3>1. SUFFICES ASSUME save'[t].stage = "replaced", NEW d \in Domains
                   PROVE  save[t].content.generation[d] <= flushed'[d]
      OBVIOUS
    <3>2. file' = save[t].content /\ file' \in Snapshots
      BY <2>3, <3>1 DEF TypeOK, StoreOK, SaveOK
    <3>3. Decodes(file') BY <3>2, SnapshotAssumption DEF Decodes
    <3>4. flushed'[d] = Larger(flushed[d], file'.generation[d])
      BY <1>7, <3>3 DEF StoreWorks
    <3>5. QED BY <1>1, <3>2, <3>4 DEF Larger, Snapshots
  <2>5. ASSUME NEW u \in Threads, u # t PROVE PromiseKept(u)'
    BY <1>1, <2>1, <2>2, <2>3, <2>5 DEF PromisesKept, PromiseKept
  <2>6. PromiseKept(t)'
    <3>1. command[t] # NoCommand /\ PromiseKept(t) BY <2>3 DEF PromisesKept, PromiseKept
    <3>2. ASSUME command[t].domain # 0, save'[t].stage = "replaced"
          PROVE  command[t].generation <= flushed'[command[t].domain]
      <4>1. command[t].domain \in Domains /\ command[t].generation \in Nat BY <1>1, <3>2
      <4>2. save[t].content \in Snapshots BY <2>3, <3>2 DEF TypeOK, StoreOK, SaveOK
      <4>3. command[t].generation <= save[t].content.generation[command[t].domain]
        BY <2>3, <3>1, <3>2 DEF PromiseKept
      <4>4. QED BY <1>1, <2>4, <3>2, <4>1, <4>2, <4>3 DEF Snapshots
    <3>3. ASSUME command[t].domain # 0, save'[t].stage = "succeeded"
          PROVE  command[t].generation <= flushed'[command[t].domain]
      BY <1>1, <2>1, <2>3, <3>1, <3>3 DEF PromiseKept
    <3>4. QED BY <2>2, <2>3, <3>1, <3>2, <3>3 DEF PromiseKept
  <2>7. QED BY <2>2, <2>5, <2>6 DEF PromisesKept
<1>8. ASSUME NEW t \in Threads, Answer(t) PROVE PromisesKept'
  BY <1>1, <1>8 DEF Answer, Taken, PromisesKept, PromiseKept
<1>9. ASSUME Crash PROVE PromisesKept'
  BY <1>9 DEF Crash, StoreCrash, PromisesKept, PromiseKept
<1>10. ASSUME Start PROVE PromisesKept'
  BY <1>10 DEF Start, PromisesKept, PromiseKept
<1>11. QED
  BY <1>2, <1>3, <1>4, <1>5, <1>6, <1>7, <1>8, <1>9, <1>10
     DEF Next, vars, RegisterCoupling, Authorize, Persist, Shutdown, Dispatch, Ack

\* README, persistence: "An intended-durable mutation is never acknowledged before
\* the flush crosses the durability boundary" (persist_now, DurableStore::save).
THEOREM AnswersFollowFlush == Spec => []AnsweredWasFlushed
<1>1. Init => AnsweredWasFlushed
  BY DEF Init, AnsweredWasFlushed
<1>2. TypeOK /\ TypeOK' /\ PromisesKept /\ AnsweredWasFlushed /\ [Next]_vars => AnsweredWasFlushed'
  <2> SUFFICES ASSUME TypeOK, TypeOK', PromisesKept, AnsweredWasFlushed, [Next]_vars
               PROVE  AnsweredWasFlushed'
    OBVIOUS
  <2>1. /\ flushed \in [Domains -> Nat] /\ flushed' \in [Domains -> Nat]
        /\ promised \in [Domains -> Nat]
        /\ command \in [Threads -> [domain : Domains \cup {0}, generation : Nat]]
    BY DEF TypeOK, ProcessOK
  <2>2. CASE UNCHANGED <<flushed, promised>>
    BY <2>2 DEF AnsweredWasFlushed
  <2>3. ASSUME NEW t \in Threads, StoreWorks(t) PROVE AnsweredWasFlushed'
    <3>1. CASE Decodes(file')
      <4>1. file' \in Snapshots BY <3>1 DEF Decodes, TypeOK, StoreOK
      <4>2. QED BY <2>1, <2>3, <3>1, <4>1 DEF StoreWorks, Snapshots, Larger, AnsweredWasFlushed
    <3>2. CASE ~Decodes(file')
      BY <2>3, <3>2 DEF StoreWorks, AnsweredWasFlushed
    <3>3. QED BY <3>1, <3>2
  <2>4. ASSUME NEW t \in Threads, Answer(t) PROVE AnsweredWasFlushed'
    <3>1. CASE Promises(t)
      <4>1. /\ command[t].domain \in Domains
            /\ command[t].generation <= flushed[command[t].domain]
        BY <2>1, <3>1 DEF Promises, PromisesKept, PromiseKept
      <4>2. /\ UNCHANGED flushed
            /\ promised' = [promised EXCEPT ![command[t].domain] = Larger(@, command[t].generation)]
        BY <2>4, <3>1 DEF Answer
      <4>3. QED BY <2>1, <4>1, <4>2 DEF AnsweredWasFlushed, Larger
    <3>2. CASE ~Promises(t)
      BY <2>4, <3>2 DEF Answer, AnsweredWasFlushed
    <3>3. QED BY <3>1, <3>2
  <2>5. QED
    BY <2>2, <2>3, <2>4
       DEF Next, vars, history, kept, RegisterDomain, UpdateDomain, RegisterCoupling, Authorize,
           Persist, Shutdown, Capture, Dispatch, Ack, Crash, Start
<1>3. QED BY <1>1, <1>2, InitPromises, NextPromises, TypeCorrect, PTL DEF Spec

--------------------------------------------------------------------------------
(* The file is self-contained. *)

\* Whatever is captured, being saved or in the file refers only to what it holds.
AllSelfContained ==
  /\ SelfContained(Snapshot)
  /\ \A t \in Threads : save[t].stage \in Begun => SelfContained(save[t].content)
  /\ FileIsSelfContained

\* A memory is self-contained whose domains are only added to.
LEMMA MemoryGrows ==
  ASSUME TypeOK, TypeOK', SelfContained(Snapshot),
         \A d \in Domains : generation[d] # 0 => generation'[d] # 0,
         \A d \in Domains : parent'[d] = parent[d] \/ parent'[d] = 0 \/ generation[parent'[d]] # 0,
         \A edge \in couplings' : edge \in couplings \/ EndsRegistered(edge),
         \A i \in ActionIds : actions'[i].lifecycle # "PLANNED" =>
           \/ actions[i].lifecycle # "PLANNED" /\ actions'[i].domain = actions[i].domain
           \/ actions'[i].domain \in Domains /\ generation[actions'[i].domain] # 0
  PROVE  SelfContained(Snapshot)'
<1>1. \A edge \in couplings' : generation'[edge[1]] # 0 /\ generation'[edge[2]] # 0
  <2>1. TAKE edge \in couplings'
  <2>2. edge[1] \in Domains /\ edge[2] \in Domains
    BY RestartAssumption DEF TypeOK, MemoryOK
  <2>3. QED BY <2>2 DEF EndsRegistered, SelfContained, Snapshot
<1>2. \A d \in Domains : parent'[d] # 0 => generation'[parent'[d]] # 0
  BY DEF TypeOK, MemoryOK, SelfContained, Snapshot
<1>3. \A i \in ActionIds : actions'[i].lifecycle # "PLANNED" =>
        actions'[i].domain \in Domains /\ generation'[actions'[i].domain] # 0
  BY DEF SelfContained, Snapshot
<1>4. QED BY <1>1, <1>2, <1>3 DEF SelfContained, Snapshot

LEMMA SelfContainedFrame ==
  ASSUME TypeOK, AllSelfContained, UNCHANGED <<file, save>>, SelfContained(Snapshot)'
  PROVE  AllSelfContained'
BY DEF AllSelfContained, FileIsSelfContained, SelfContained, Decodes

LEMMA InitSelfContained == Init => AllSelfContained
BY DEF Init, StoreInit, AllSelfContained, FileIsSelfContained, Decodes, SelfContained, Snapshot, Begun

LEMMA NextSelfContained ==
  TypeOK /\ TypeOK' /\ AllSelfContained /\ [Next]_vars => AllSelfContained'
<1> SUFFICES ASSUME TypeOK, TypeOK', AllSelfContained, [Next]_vars PROVE AllSelfContained'
  OBVIOUS
<1> USE DEF history, kept, memory, process, storeVars
<1>0. SelfContained(Snapshot) BY DEF AllSelfContained
<1>1. ASSUME UNCHANGED memory PROVE SelfContained(Snapshot)'
  BY <1>0, <1>1 DEF SelfContained, Snapshot
<1>2. ASSUME NEW t \in Threads, NEW d \in Domains, NEW p \in Domains \cup {0}, RegisterDomain(t, d, p)
      PROVE  AllSelfContained'
  <2>1. SelfContained(Snapshot)'
    BY <1>0, <1>2, MemoryGrows DEF RegisterDomain, TypeOK, MemoryOK
  <2>2. QED BY <1>2, <2>1, SelfContainedFrame DEF RegisterDomain
<1>3. ASSUME NEW t \in Threads, NEW d \in Domains, NEW g \in 1..MaxGeneration, UpdateDomain(t, d, g)
      PROVE  AllSelfContained'
  <2>1. SelfContained(Snapshot)'
    BY <1>0, <1>3, MemoryGrows DEF UpdateDomain, TypeOK, MemoryOK
  <2>2. QED BY <1>3, <2>1, SelfContainedFrame DEF UpdateDomain
<1>4. ASSUME NEW t \in Threads, NEW edge \in PossibleCouplings, RegisterCoupling(t, edge)
      PROVE  AllSelfContained'
  <2>1. SelfContained(Snapshot)'
    BY <1>0, <1>4, MemoryGrows DEF RegisterCoupling, TypeOK, MemoryOK
  <2>2. QED BY <1>4, <2>1, SelfContainedFrame DEF RegisterCoupling
<1>5. ASSUME NEW t \in Threads, NEW d \in Domains, Authorize(t, d) PROVE AllSelfContained'
  <2>1. \A i \in ActionIds : actions'[i] = actions[i] \/ actions'[i].domain = d
    BY <1>5 DEF Authorize, TypeOK, MemoryOK
  <2>2. generation[d] # 0 /\ UNCHANGED <<generation, parent, couplings>> BY <1>5 DEF Authorize
  <2>3. SelfContained(Snapshot)'
    BY <1>0, <2>1, <2>2, MemoryGrows
  <2>4. QED BY <1>5, <2>3, SelfContainedFrame DEF Authorize
<1>6. ASSUME NEW t \in Threads, Shutdown(t) PROVE AllSelfContained'
  <2>1. \A i \in ActionIds : actions[i] \in Actions BY DEF TypeOK, MemoryOK
  <2>2. \A i \in ActionIds : actions'[i].lifecycle = Classified(actions[i].lifecycle)
                             /\ actions'[i].domain = actions[i].domain
    BY <1>6, <2>1 DEF Shutdown, Actions
  <2>3. Classified("PLANNED") = "PLANNED" BY DEF Classified, InFlight
  <2>4. \A i \in ActionIds : actions'[i].lifecycle # "PLANNED" =>
          actions[i].lifecycle # "PLANNED" /\ actions'[i].domain = actions[i].domain
    BY <2>2, <2>3
  <2>5. UNCHANGED <<generation, parent, couplings>> BY <1>6 DEF Shutdown
  <2>6. SelfContained(Snapshot)' BY <1>0, <2>4, <2>5, MemoryGrows
  <2>7. QED BY <1>6, <2>6, SelfContainedFrame DEF Shutdown
<1>7. ASSUME NEW i \in ActionIds, NEW stale \in BOOLEAN, Dispatch(i, stale) PROVE AllSelfContained'
  <2>1. \A j \in ActionIds : actions'[j].lifecycle # "PLANNED" =>
          actions[j].lifecycle # "PLANNED" /\ actions'[j].domain = actions[j].domain
    BY <1>7 DEF Dispatch, TypeOK, MemoryOK, Actions
  <2>2. UNCHANGED <<generation, parent, couplings>> BY <1>7 DEF Dispatch
  <2>3. SelfContained(Snapshot)' BY <1>0, <2>1, <2>2, MemoryGrows
  <2>4. QED BY <1>7, <2>3, SelfContainedFrame DEF Dispatch
<1>8. ASSUME NEW report \in reports, NEW accepted \in BOOLEAN, Ack(report, accepted)
      PROVE  AllSelfContained'
  <2>1. report.action \in ActionIds BY DEF TypeOK, ProcessOK, Reports
  <2>2. \A j \in ActionIds : actions'[j].lifecycle # "PLANNED" =>
          actions[j].lifecycle # "PLANNED" /\ actions'[j].domain = actions[j].domain
    BY <1>8, <2>1 DEF Ack, TypeOK, MemoryOK, Actions
  <2>3. UNCHANGED <<generation, parent, couplings>> BY <1>8 DEF Ack
  <2>4. SelfContained(Snapshot)' BY <1>0, <2>2, <2>3, MemoryGrows
  <2>5. QED BY <1>8, <2>4, SelfContainedFrame DEF Ack
<1>9. ASSUME NEW t \in Threads, Capture(t) PROVE AllSelfContained'
  <2>1. SelfContained(Snapshot)' BY <1>1, <1>9 DEF Capture
  <2>2. UNCHANGED file /\ save \in [Threads -> Saves]
        /\ \/ save' = [save EXCEPT ![t] = Failed]
           \/ save' = [save EXCEPT ![t] = [stage |-> "encoded", content |-> Snapshot, scratch |-> Nothing]]
    BY <1>9 DEF Capture, Begin, TypeOK, StoreOK
  <2>3. \A u \in Threads : save'[u].stage \in Begun =>
          save'[u].content = Snapshot \/ (save[u].stage \in Begun /\ save'[u].content = save[u].content)
    BY <2>2 DEF Begun
  <2>4. \A u \in Threads : save'[u].stage \in Begun => SelfContained(save'[u].content)
    BY <1>0, <2>3 DEF AllSelfContained
  <2>5. QED
    BY <2>1, <2>2, <2>4 DEF AllSelfContained, FileIsSelfContained, SelfContained, Decodes
<1>10. ASSUME NEW t \in Threads, StoreWorks(t) PROVE AllSelfContained'
  <2>1. SelfContained(Snapshot)' BY <1>1, <1>10 DEF StoreWorks
  <2>2. StoreOK /\ SaveStep(t) BY <1>10 DEF StoreWorks, TypeOK
  <2>3. \A u \in Threads : save'[u].stage \in Begun =>
          save[u].stage \in Begun /\ save'[u].content = save[u].content
    BY <2>2, SaveStepEffect
  <2>4. \/ file' = file
        \/ save[t].stage \in Begun /\ file' = save[t].content
    BY <2>2, SaveStepEffect
  <2>5. \A u \in Threads : save'[u].stage \in Begun => SelfContained(save'[u].content)
    BY <2>3 DEF AllSelfContained
  <2>6. Decodes(file') => SelfContained(file')
    BY <2>4 DEF AllSelfContained, FileIsSelfContained
  <2>7. QED
    BY <2>1, <2>5, <2>6 DEF AllSelfContained, FileIsSelfContained, SelfContained, Decodes
<1>11. ASSUME NEW t \in Threads, Answer(t) PROVE AllSelfContained'
  <2>1. SelfContained(Snapshot)' BY <1>1, <1>11 DEF Answer
  <2>2. UNCHANGED file /\ \A u \in Threads : save'[u].stage \in Begun => save'[u] = save[u]
    BY <1>11 DEF Answer, Taken, TypeOK, StoreOK, Begun
  <2>3. QED BY <2>1, <2>2 DEF AllSelfContained, FileIsSelfContained, SelfContained, Decodes
<1>12. ASSUME Crash PROVE AllSelfContained'
  <2>1. SelfContained(Snapshot)' BY <1>12 DEF Crash, NewMemory, SelfContained, Snapshot
  <2>2. UNCHANGED file /\ \A u \in Threads : save'[u].stage \notin Begun
    BY <1>12 DEF Crash, StoreCrash, Begun
  <2>3. QED BY <2>1, <2>2 DEF AllSelfContained, FileIsSelfContained, SelfContained, Decodes
<1>13. ASSUME Start PROVE AllSelfContained'
  <2>1. SelfContained(Snapshot)'
    <3>1. CASE file = Nothing
      BY <1>13, <3>1 DEF Start, NewMemory, SelfContained, Snapshot
    <3>2. CASE file # Nothing /\ Loadable(file)
      <4>1. SelfContained(file) /\ \A i \in ActionIds : file.actions[i] \in Actions
        BY <3>2 DEF AllSelfContained, FileIsSelfContained, Loadable, TypeOK, StoreOK, Snapshots
      <4>2. /\ generation' = file.generation /\ parent' = file.parent /\ couplings' = file.couplings
            /\ \A i \in ActionIds : actions'[i] = Restored(file.actions[i])
        BY <1>13, <3>2 DEF Start
      <4>3. \A i \in ActionIds : actions'[i].domain = file.actions[i].domain /\
              (actions'[i].lifecycle = "PLANNED" <=> file.actions[i].lifecycle = "PLANNED")
        BY <4>1, <4>2, RestoredType
      <4>4. QED BY <4>1, <4>2, <4>3 DEF SelfContained, Snapshot
    <3>3. CASE file # Nothing /\ ~Loadable(file)
      BY <1>1, <1>13, <3>3 DEF Start
    <3>4. QED BY <3>1, <3>2, <3>3
  <2>2. QED BY <1>13, <2>1, SelfContainedFrame DEF Start
<1>14. CASE UNCHANGED <<storeVars, memory>>
  BY <1>1, <1>14, SelfContainedFrame
<1>15. QED
  BY <1>2, <1>3, <1>4, <1>5, <1>6, <1>7, <1>8, <1>9, <1>10, <1>11, <1>12, <1>13, <1>14
     DEF Next, vars, Persist

\* The file refers only to what it holds, whatever commands and saves interleave, so
\* load_durable finds the ends of every coupling it restores.
THEOREM FileHangsTogether == Spec => []FileIsSelfContained
<1>1. AllSelfContained => FileIsSelfContained BY DEF AllSelfContained
<1>2. QED BY <1>1, InitSelfContained, NextSelfContained, TypeCorrect, PTL DEF Spec
===============================================================================
