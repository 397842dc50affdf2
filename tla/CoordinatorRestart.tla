-------------------------- MODULE CoordinatorRestart --------------------------
(***************************************************************************)
(* The coordinator process and its durable file (src/src/governance.cpp,   *)
(* persist and load_durable; src/tools/tg_coordinator.cpp): commands that  *)
(* change the configuration or authorise an action, persist it and answer, *)
(* the process crashing and starting again, and reports of workers that    *)
(* outlive it.                                                             *)
(*                                                                         *)
(* A command is the mutation under state_mutex, the capture of the state   *)
(* under state_mutex again, the save without it, and the answer.  Worker   *)
(* boots, devices and policies do not change here: the fences on them are  *)
(* those of MitigationActions and a worker that outlives the coordinator   *)
(* passes them.                                                            *)
(***************************************************************************)
EXTENDS DurableStore, ActionLifecycle, Naturals, FiniteSets

CONSTANTS
  Domains,        \* domain identifiers, loaded in ascending order
  InitialEpoch,   \* config.initial_epoch, the same at every start
  MaxGeneration,  \* bound: domain generations are 1..MaxGeneration
  MaxActions,     \* bound: actions authorised by one process
  MaxRuns,        \* bound: starts of the process
  MaxCommands,    \* bound: commands served, in every run
  PossibleParents,   \* bound: the <<child, parent>> pairs that can be registered
  PossibleCouplings  \* bound: the <<source, destination>> edges that can be registered

ASSUME RestartAssumption ==
  /\ Domains \subseteq Nat \ {0}
  /\ {InitialEpoch, MaxGeneration, MaxActions, MaxRuns, MaxCommands} \subseteq Nat \ {0}
  /\ PossibleParents \subseteq Domains \X Domains
  /\ PossibleCouplings \subseteq Domains \X Domains

\* The generation counter starts at 1 and names the action it is advanced for.
ActionIds == 2..(MaxActions + 1)

VARIABLES
  up,                \* the process runs
  stopping,          \* impl.stopping: shutdown has been asked for
  epoch,             \* impl.epoch
  generation,        \* impl.domains: generation of each domain, 0 while it is not registered
  parent,            \* impl.domains: parent of each domain, 0 for none
  couplings,         \* impl.couplings
  actionGeneration,  \* impl.action_generation
  actions,           \* impl.actions
  command,           \* of each thread, the command it serves
  \* Kept for the properties:
  run,               \* which start of the process this is
  served,            \* how many commands have been served, in every run
  reports,           \* acknowledgements the workers have sent
  flushed,           \* of each domain, the latest generation the file ever held
  promised           \* of each domain, the latest generation a command was answered for

process == <<up, stopping>>
memory == <<epoch, generation, parent, couplings, actionGeneration, actions>>
history == <<run, served, reports, flushed, promised>>
kept == <<run, reports, flushed, promised>>
vars == <<storeVars, process, memory, command, history>>

NoAction ==
  [lifecycle |-> "PLANNED", epoch |-> 0, domain |-> 0, domainGeneration |-> 0,
   run |-> 0, serial |-> 0, reported |-> 0]

\* What a successful answer promises: that the domain has this generation.
NoCommand == [domain |-> 0, generation |-> 0]
NoPromise == [domain |-> 0, generation |-> 1]

\* persist, under the lock
Snapshot ==
  [epoch |-> epoch, generation |-> generation, parent |-> parent, couplings |-> couplings,
   actions |-> actions]

\* The memory of a process that has not loaded anything.
NewMemory ==
  /\ actionGeneration' = 1
  /\ epoch' = InitialEpoch
  /\ generation' = [d \in Domains |-> 0]
  /\ parent' = [d \in Domains |-> 0]
  /\ couplings' = {}
  /\ actions' = [i \in ActionIds |-> NoAction]

Init ==
  /\ StoreInit
  /\ up = TRUE
  /\ stopping = FALSE
  /\ epoch = InitialEpoch
  /\ generation = [d \in Domains |-> 0]
  /\ parent = [d \in Domains |-> 0]
  /\ couplings = {}
  /\ actionGeneration = 1
  /\ actions = [i \in ActionIds |-> NoAction]
  /\ command = [t \in Threads |-> NoCommand]
  /\ run = 1
  /\ served = 0
  /\ reports = {}
  /\ flushed = [d \in Domains |-> 0]
  /\ promised = [d \in Domains |-> 0]

--------------------------------------------------------------------------------
(* Commands: the mutation *)

Serves(t, promise) ==
  /\ up
  /\ command[t] = NoCommand
  /\ served < MaxCommands
  /\ served' = served + 1
  /\ command' = [command EXCEPT ![t] = promise]

RegisterDomain(t, d, p) ==
  /\ generation[d] = 0
  /\ p # 0 => <<d, p>> \in PossibleParents /\ generation[p] # 0
  /\ Serves(t, [domain |-> d, generation |-> 1])
  /\ generation' = [generation EXCEPT ![d] = 1]
  /\ parent' = [parent EXCEPT ![d] = p]
  /\ UNCHANGED <<storeVars, process, epoch, couplings, actionGeneration, actions, kept>>

\* update_thermal_domain; bump-domain-generation asks for one more than a
\* snapshot taken earlier showed.
UpdateDomain(t, d, g) ==
  /\ generation[d] # 0 /\ g > generation[d]
  /\ Serves(t, [domain |-> d, generation |-> g])
  /\ generation' = [generation EXCEPT ![d] = g]
  /\ UNCHANGED <<storeVars, process, epoch, parent, couplings, actionGeneration, actions, kept>>

\* Mutation: the destination is not looked up.
SourceRegistered(edge) == generation[edge[1]] # 0

EndsRegistered(edge) == generation[edge[1]] # 0 /\ generation[edge[2]] # 0

RegisterCoupling(t, edge) ==
  /\ EndsRegistered(edge)
  /\ Serves(t, NoPromise)
  /\ couplings' = couplings \cup {edge}
  /\ UNCHANGED <<storeVars, process, epoch, generation, parent, actionGeneration, actions, kept>>

Authorize(t, d) ==
  /\ generation[d] # 0
  /\ actionGeneration <= MaxActions
  /\ Serves(t, NoPromise)
  /\ actionGeneration' = actionGeneration + 1
  /\ actions' = [actions EXCEPT ![actionGeneration'] =
       [lifecycle |-> "AUTHORIZED", epoch |-> epoch, domain |-> d,
        domainGeneration |-> generation[d], run |-> run, serial |-> served', reported |-> 0]]
  /\ UNCHANGED <<storeVars, process, epoch, generation, parent, couplings, kept>>

\* The verb persist.
Persist(t) ==
  /\ Serves(t, NoPromise)
  /\ UNCHANGED <<storeVars, process, memory, kept>>

\* shutdown classifies the actions before it persists; the process may then end.
\* One that finds another called before it returns at once.
Shutdown(t) ==
  /\ ~stopping /\ stopping' = TRUE
  /\ Serves(t, NoPromise)
  /\ actions' = [i \in ActionIds |-> [actions[i] EXCEPT !.lifecycle = Classified(@)]]
  /\ UNCHANGED <<storeVars, up, epoch, generation, parent, couplings, actionGeneration, kept>>

--------------------------------------------------------------------------------
(* Commands: persisting and answering *)

Capture(t) ==
  /\ command[t] # NoCommand
  /\ Begin(t, Snapshot)
  /\ UNCHANGED <<process, memory, command, history>>

\* decode_durable_state
Decodes(content) == content \notin {Nothing, Torn}

Larger(m, n) == IF m > n THEN m ELSE n

StoreWorks(t) ==
  /\ SaveStep(t)
  /\ flushed' = IF Decodes(file')
                THEN [d \in Domains |-> Larger(flushed[d], file'.generation[d])]
                ELSE flushed
  /\ UNCHANGED <<process, memory, command, run, served, reports, promised>>

\* Mutation: the answer does not look at the outcome of the save.
PromisedAnyway(t) == command[t].domain # 0

\* persist_now fails the command when the save failed.
Promises(t) == save[t].stage = "succeeded" /\ command[t].domain # 0

Answer(t) ==
  /\ Taken(t)
  /\ command' = [command EXCEPT ![t] = NoCommand]
  /\ promised' = IF Promises(t)
                 THEN [promised EXCEPT ![command[t].domain] = Larger(@, command[t].generation)]
                 ELSE promised
  /\ UNCHANGED <<process, memory, run, served, reports, flushed>>

--------------------------------------------------------------------------------
(* Actions *)

\* The domain's generation is compared, the other generations of the authority
\* may have left it behind as well (MitigationActions).
Dispatch(i, stale) ==
  /\ up
  /\ actions[i].lifecycle = "AUTHORIZED"
  /\ IF stale \/ generation[actions[i].domain] # actions[i].domainGeneration
     THEN /\ actions' = [actions EXCEPT ![i].lifecycle = "SUPERSEDED"]
          /\ UNCHANGED reports
     ELSE /\ actions' = [actions EXCEPT ![i].lifecycle = "DISPATCHED"]
          /\ reports' = reports \cup
               {[action |-> i, epoch |-> epoch, serial |-> actions[i].serial,
                 domainGeneration |-> actions[i].domainGeneration]}
  /\ UNCHANGED <<storeVars, process, epoch, generation, parent, couplings, actionGeneration, command,
                 run, served, flushed, promised>>

\* record_action_ack; the generation of an action is its identifier.
Passes(report) ==
  /\ report.epoch = epoch
  /\ report.domainGeneration = actions[report.action].domainGeneration

Ack(report, accepted) ==
  /\ up
  /\ Passes(report)
  /\ actions[report.action].lifecycle = "DISPATCHED"
  /\ actions' = [actions EXCEPT
       ![report.action].lifecycle = IF accepted THEN "ACKNOWLEDGED" ELSE "FAILED",
       ![report.action].reported = report.serial]
  /\ UNCHANGED <<storeVars, process, epoch, generation, parent, couplings, actionGeneration, command,
                 history>>

--------------------------------------------------------------------------------
(* Crash and start *)

Crash ==
  /\ up
  /\ up' = FALSE
  /\ stopping' = FALSE
  /\ StoreCrash
  /\ NewMemory
  /\ command' = [t \in Threads |-> NoCommand]
  /\ UNCHANGED history

\* Mutation: actions are restored as they were persisted.
RestoredAsTheyWere(action) == action

Restored(action) ==
  IF action.lifecycle = "PLANNED" \/ IsTerminal(action.lifecycle)
  THEN action
  ELSE [action EXCEPT !.lifecycle = "OUTCOME_UNKNOWN"]

\* Domains are added in ascending order, each after its parent or not at all.
Loadable(s) ==
  /\ Decodes(s)
  /\ \A d \in Domains : s.generation[d] # 0 /\ s.parent[d] # 0 =>
       s.parent[d] < d /\ s.generation[s.parent[d]] # 0
  /\ \A edge \in s.couplings : s.generation[edge[1]] # 0 /\ s.generation[edge[2]] # 0

\* The file is loaded over the state of a new process; its epoch is not looked at
\* and the action counter is not in it.  When it cannot be loaded the process exits.
Start ==
  /\ ~up /\ run < MaxRuns
  /\ run' = run + 1
  /\ IF file = Nothing
     THEN up' = TRUE /\ NewMemory
     ELSE IF Loadable(file)
     THEN /\ up' = TRUE
          /\ actionGeneration' = 1
          /\ epoch' = InitialEpoch + 1
          /\ generation' = file.generation
          /\ parent' = file.parent
          /\ couplings' = file.couplings
          /\ actions' = [i \in ActionIds |-> Restored(file.actions[i])]
     ELSE up' = FALSE /\ UNCHANGED memory
  /\ UNCHANGED <<storeVars, stopping, command, served, reports, flushed, promised>>

Next ==
  \/ \E t \in Threads, d \in Domains, p \in Domains \cup {0} : RegisterDomain(t, d, p)
  \/ \E t \in Threads, d \in Domains, g \in 1..MaxGeneration : UpdateDomain(t, d, g)
  \/ \E t \in Threads, edge \in PossibleCouplings : RegisterCoupling(t, edge)
  \/ \E t \in Threads, d \in Domains : Authorize(t, d)
  \/ \E t \in Threads : Persist(t) \/ Shutdown(t)
  \/ \E t \in Threads : Capture(t) \/ StoreWorks(t) \/ Answer(t)
  \/ \E i \in ActionIds, stale \in BOOLEAN : Dispatch(i, stale)
  \/ \E report \in reports, accepted \in BOOLEAN : Ack(report, accepted)
  \/ Crash
  \/ Start

Spec == Init /\ [][Next]_vars

\* The threads that serve a command are scheduled.
Fairness == \A t \in Threads : WF_vars(Capture(t) \/ StoreWorks(t) \/ Answer(t))
FairSpec == Spec /\ Fairness

--------------------------------------------------------------------------------
(* Properties *)

Actions ==
  [lifecycle : Lifecycles, epoch : Nat, domain : Domains \cup {0}, domainGeneration : Nat,
   run : Nat, serial : Nat, reported : Nat]

Snapshots ==
  [epoch : Nat, generation : [Domains -> Nat], parent : [Domains -> Domains \cup {0}],
   couplings : SUBSET PossibleCouplings, actions : [ActionIds -> Actions]]

ASSUME SnapshotAssumption == Nothing \notin Snapshots /\ Torn \notin Snapshots

\* README, "unresolved actions are recovered conservatively as OUTCOME_UNKNOWN":
\* what a process can still dispatch, acknowledge or verify it has authorised
\* itself, under its own epoch, however the file came about.
LiveAuthorityIsOfThisRun ==
  up => \A i \in ActionIds :
    actions[i].lifecycle \in Live => actions[i].run = run /\ actions[i].epoch = epoch

SelfContained(s) ==
  /\ \A edge \in s.couplings : s.generation[edge[1]] # 0 /\ s.generation[edge[2]] # 0
  /\ \A d \in Domains : s.parent[d] # 0 => s.generation[s.parent[d]] # 0
  /\ \A i \in ActionIds : s.actions[i].lifecycle # "PLANNED" =>
       s.actions[i].domain \in Domains /\ s.generation[s.actions[i].domain] # 0

\* What the file holds hangs together although commands interleave with saves:
\* couplings, parents and actions refer to domains the file holds as well.
FileIsSelfContained == Decodes(file) => SelfContained(file)

\* README, persistence: "An intended-durable mutation is never acknowledged before
\* the flush crosses the durability boundary": what a command was answered for
\* had been in the file by then.
AnsweredWasFlushed == \A d \in Domains : promised[d] <= flushed[d]

\* A command is answered, or its process ends: neither the state lock, the gate of
\* the file nor a failed save keeps a client waiting.
CommandsAreAnswered ==
  \A t \in Threads : command[t] # NoCommand ~> command[t] = NoCommand

\* README, coordinator restart: "Durable policy, domain and coupling configuration
\* ... are recovered": the file holds what a command was answered for.
AnsweredIsDurable ==
  \A d \in Domains : promised[d] # 0 =>
    Decodes(file) /\ file.generation[d] >= promised[d]

\* README, coordinator restart: "A coordinator restart advances CoordinatorEpoch ...
\* Old-epoch traffic is rejected": under an epoch that a restart advanced, an action
\* is acknowledged or failed by a report about itself, not by one about an action of
\* an earlier run.
ReportsReachTheirAction ==
  \A i \in ActionIds :
    actions[i].epoch > InitialEpoch => actions[i].reported \in {0, actions[i].serial}
===============================================================================
