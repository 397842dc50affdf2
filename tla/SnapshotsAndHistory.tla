-------------------------- MODULE SnapshotsAndHistory --------------------------
(***************************************************************************)
(* What readers of the governor see while others change it                 *)
(* (src/src/governance.cpp, src/tools/tg_coordinator.cpp): the published   *)
(* snapshot, the transition history, explanations, and the commands that   *)
(* read a snapshot first and change the governor afterwards.               *)
(*                                                                         *)
(* A mutation takes state_mutex, changes the configuration, recomputes     *)
(* domains one after the other, builds a snapshot, and swaps it in under   *)
(* snapshot_mutex before it gives state_mutex back.  Readers of the        *)
(* snapshot take snapshot_mutex only, so they come between any two of      *)
(* these steps.  What an evaluation finds is DomainEvaluation's business   *)
(* and a free choice here; what it was made under is kept.                 *)
(***************************************************************************)
EXTENDS Naturals, Sequences

CONSTANTS
  Threads,            \* session threads
  Main,               \* the thread that loads the file before sessions are served
  Nobody, Nothing,    \* no holder of state_mutex; no file
  Domains, Devices,   \* identifiers
  Labels,             \* what a definition says beside its generation
  Verdicts,           \* state and decision of an evaluation; a derating goes with its state
  BlindVerdicts,      \* those of a domain nothing has been read of
  MaxHistory,         \* config.max_history_records
  HasPath,            \* the coordinator was given a state path
  PossibleCouplings,  \* bound: the <<source, destination>> edges that can be registered
  MaxGeneration,      \* bound: generations of domains, devices and the policy
  MaxSequence,        \* bound: no command begins when this many transitions are recorded
  MaxTopology,        \* bound: likewise for structural changes
  MaxRuns             \* bound: starts of the process

ASSUME NamesAssumption ==
  /\ Main \notin Threads
  /\ Nobody \notin Threads \cup {Main}
  /\ BlindVerdicts \subseteq Verdicts

ASSUME LimitsAssumption ==
  /\ Domains \subseteq Nat \ {0}
  /\ PossibleCouplings \subseteq Domains \X Domains
  /\ HasPath \in BOOLEAN
  /\ {MaxHistory, MaxGeneration, MaxSequence, MaxTopology, MaxRuns} \subseteq Nat \ {0}

VARIABLES
  process,           \* "down", "loading" or "serving"
  stateLock,         \* the holder of state_mutex, while a mutation is under way
  todo, again,       \* domains the holder has yet to recompute, and to recompute after those
  structural,        \* the holder has yet to advance the topology generation
  policy,            \* generation of the policy; it stands for its thresholds
  policyGeneration,  \* impl.policy_generation
  topology,          \* impl.topology_generation
  domains, devices,  \* impl.domains, impl.devices
  couplings,         \* impl.couplings
  evaluations,       \* impl.evaluations
  transitions,       \* impl.history
  sequence,          \* impl.sequence
  published,         \* impl.published
  session,           \* of each thread, where it is in a command and what it carries
  file,              \* the durable file
  run                \* which start of the process this is, for the properties

lockVars == <<stateLock, todo, again, structural>>
configuration == <<policy, policyGeneration, topology, domains, devices, couplings>>
record == <<evaluations, transitions, sequence>>
memory == <<configuration, record>>
vars == <<process, lockVars, memory, published, session, file, run>>

Agents == Threads \cup {Main}
NotThere == [generation |-> 0, label |-> Nothing]
NotEvaluated ==
  [state |-> "UNKNOWN", decision |-> "UNKNOWN", policy |-> 0, generation |-> 0]
Idle == [stage |-> "idle", next |-> "idle", carries |-> Nothing]

Registered == {d \in Domains : domains[d].generation # 0}

\* build_snapshot
Snapshot ==
  [policy |-> policy, policyGeneration |-> policyGeneration, topology |-> topology,
   domains |-> domains, devices |-> devices, couplings |-> couplings,
   evaluations |-> evaluations, transitions |-> Len(transitions)]

\* persist, under the lock
Durable ==
  [policy |-> policy, policyGeneration |-> policyGeneration, topology |-> topology,
   domains |-> domains, devices |-> devices, couplings |-> couplings,
   transitions |-> transitions, sequence |-> sequence]

\* The governor of a process that has loaded nothing; the default policy is always there.
Fresh ==
  [policy |-> 1, policyGeneration |-> 1, topology |-> 1,
   domains |-> [d \in Domains |-> NotThere], devices |-> [v \in Devices |-> NotThere],
   couplings |-> {}, transitions |-> <<>>, sequence |-> 0]

FreshSnapshot ==
  [policy |-> 1, policyGeneration |-> 1, topology |-> 1,
   domains |-> Fresh.domains, devices |-> Fresh.devices, couplings |-> {},
   evaluations |-> [d \in Domains |-> NotEvaluated], transitions |-> 0]

\* The memory of a process that has evaluated nothing yet.
Configured(state) ==
  /\ policy' = state.policy /\ policyGeneration' = state.policyGeneration
  /\ topology' = state.topology
  /\ domains' = state.domains /\ devices' = state.devices /\ couplings' = state.couplings
  /\ evaluations' = FreshSnapshot.evaluations
  /\ transitions' = state.transitions /\ sequence' = state.sequence

Init ==
  /\ process = "serving" /\ run = 1 /\ file = Nothing
  /\ stateLock = Nobody /\ todo = {} /\ again = {} /\ structural = FALSE
  /\ policy = Fresh.policy /\ policyGeneration = Fresh.policyGeneration
  /\ topology = Fresh.topology
  /\ domains = Fresh.domains /\ devices = Fresh.devices /\ couplings = {}
  /\ evaluations = FreshSnapshot.evaluations
  /\ transitions = <<>> /\ sequence = 0
  /\ published = FreshSnapshot
  /\ session = [t \in Agents |-> Idle]

--------------------------------------------------------------------------------
(* record_transition *)

Changed(old, new) ==
  old = NotEvaluated \/ old.state # new.state \/ old.decision # new.decision

\* Mutation: the state before is read after the evaluation has been stored.
TransitionOfItself(d, old, new) ==
  [domain |-> d, from |-> new.state, to |-> new.state, decision |-> new.decision,
   policy |-> policyGeneration, run |-> run, sequence |-> sequence + 1]

Transition(d, old, new) ==
  [domain |-> d, from |-> old.state, to |-> new.state, decision |-> new.decision,
   policy |-> policyGeneration, run |-> run, sequence |-> sequence + 1]

\* What is left of the history when it has made room for one more record.
WithRoom(h) == IF Len(h) < MaxHistory THEN h ELSE SubSeq(h, Len(h) - MaxHistory + 2, Len(h))

\* The evaluation is stored in any case, and recorded when it says something new.
Records(d, new) ==
  /\ evaluations' = [evaluations EXCEPT ![d] = new]
  /\ IF Changed(evaluations[d], new)
     THEN /\ transitions' = Append(WithRoom(transitions), Transition(d, evaluations[d], new))
          /\ sequence' = sequence + 1
     ELSE UNCHANGED <<transitions, sequence>>

\* evaluate_locked: the verdict, and what it was reached under.
Evaluation(d, verdict) ==
  [state |-> verdict.state, decision |-> verdict.decision, policy |-> policy,
   generation |-> domains[d].generation]

--------------------------------------------------------------------------------
(* A mutation: lock, change, recompute, build, swap, unlock *)

Least(S) == CHOOSE d \in S : \A e \in S : d <= e

Enters(t, affected, neighbours, advances, next) ==
  /\ stateLock = Nobody
  /\ stateLock' = t
  /\ todo' = affected /\ again' = neighbours /\ structural' = advances
  /\ session' = [session EXCEPT ![t] = [stage |-> "changing", next |-> next, carries |-> Nothing]]

\* recompute_domain, for the next domain.  The loops run in ascending order; a
\* publication recomputes the affected domains and then the neighbours.
Recompute(t) ==
  /\ stateLock = t /\ todo # {}
  /\ LET d == Least(todo) IN
       /\ \E verdict \in IF process = "loading" THEN BlindVerdicts ELSE Verdicts :
            Records(d, Evaluation(d, verdict))
       /\ todo' = IF todo = {d} THEN again ELSE todo \ {d}
       /\ again' = IF todo = {d} THEN {} ELSE again
  /\ UNCHANGED <<process, stateLock, structural, configuration, published, session, file, run>>

\* Mutation: state_mutex is given back before the snapshot is swapped in.
BuildAndUnlock(t) ==
  /\ stateLock = t /\ session[t].stage = "changing" /\ todo = {}
  /\ topology' = IF structural THEN topology + 1 ELSE topology
  /\ structural' = FALSE
  /\ session' = [session EXCEPT ![t] =
       [stage |-> "publishing", next |-> @.next, carries |-> [Snapshot EXCEPT !.topology = topology']]]
  /\ stateLock' = Nobody
  /\ UNCHANGED <<process, todo, again, policy, policyGeneration, domains, devices,
                 couplings, record, published, file, run>>

\* The topology generation is advanced after the recomputation; publish_locked.
Build(t) ==
  /\ stateLock = t /\ session[t].stage = "changing" /\ todo = {}
  /\ topology' = IF structural THEN topology + 1 ELSE topology
  /\ structural' = FALSE
  /\ session' = [session EXCEPT ![t] =
       [stage |-> "publishing", next |-> @.next, carries |-> [Snapshot EXCEPT !.topology = topology']]]
  /\ UNCHANGED <<process, stateLock, todo, again, policy, policyGeneration, domains, devices,
                 couplings, record, published, file, run>>

Swap(t) ==
  /\ session[t].stage = "publishing"
  /\ published' = session[t].carries
  /\ stateLock' = IF stateLock = t THEN Nobody ELSE stateLock
  /\ session' = [session EXCEPT ![t] = [Idle EXCEPT !.stage = session[t].next]]
  /\ process' = IF t = Main THEN "serving" ELSE process
  /\ UNCHANGED <<todo, again, structural, memory, file, run>>

--------------------------------------------------------------------------------
(* Commands that change the governor *)

Begins(t) ==
  /\ process = "serving" /\ session[t].stage = "idle"
  /\ sequence < MaxSequence

\* persist_now
AfterChange == IF HasPath THEN "changed" ELSE "idle"

Structures(t) == Begins(t) /\ topology < MaxTopology

\* Mutation: only domains whose evaluation is restrictive are recomputed.
RecomputedFew == {d \in Registered : evaluations[d].decision # "ALLOW"}

\* recompute_all_domains, after the policy has changed.
RecomputedForPolicy == Registered

\* set-thresholds: set_policy, with a generation the client chooses.
SetPolicy(t, g) ==
  /\ Begins(t)
  /\ g > policy
  /\ policy' = g
  /\ policyGeneration' = policyGeneration + 1
  /\ Enters(t, RecomputedForPolicy, {}, FALSE, AfterChange)
  /\ UNCHANGED <<process, topology, domains, devices, couplings, record, published, file, run>>

\* register_thermal_domain recomputes the new domain alone.
RegisterDomain(t, d, g, label) ==
  /\ Structures(t)
  /\ domains[d].generation = 0
  /\ domains' = [domains EXCEPT ![d] = [generation |-> g, label |-> label]]
  /\ Enters(t, {d}, {}, TRUE, AfterChange)
  /\ UNCHANGED <<process, policy, policyGeneration, topology, devices, couplings, record,
                 published, file, run>>

\* Mutation: update accepts the generation that is in place.
AcceptsAgain(d, g) == domains[d].generation # 0 /\ g >= domains[d].generation

\* DomainRegistry::update
Accepts(d, g) == domains[d].generation # 0 /\ g > domains[d].generation

\* update_thermal_domain recomputes the domain alone.
Updates(t, d, definition) ==
  /\ domains' = [domains EXCEPT ![d] = definition]
  /\ Enters(t, {d}, {}, TRUE, AfterChange)
  /\ UNCHANGED <<process, policy, policyGeneration, topology, devices, couplings, record,
                 published, file, run>>

UpdateDomain(t, d, g, label) ==
  /\ Structures(t)
  /\ Accepts(d, g)
  /\ Updates(t, d, [generation |-> g, label |-> label])

\* register_device accepts the generation that is in place, with whatever it says.
Registers(t, v, registration) ==
  /\ devices' = [devices EXCEPT ![v] = registration]
  /\ Enters(t, Registered, {}, FALSE, AfterChange)
  /\ UNCHANGED <<process, policy, policyGeneration, topology, domains, couplings, record,
                 published, file, run>>

RegisterDevice(t, v, g, label) ==
  /\ Begins(t)
  /\ g >= devices[v].generation
  /\ Registers(t, v, [generation |-> g, label |-> label])

RegisterCoupling(t, edge) ==
  /\ Structures(t)
  /\ edge[1] \in Registered /\ edge[2] \in Registered
  /\ couplings' = couplings \cup {edge}
  /\ Enters(t, Registered, {}, TRUE, AfterChange)
  /\ UNCHANGED <<process, policy, policyGeneration, topology, domains, devices, record,
                 published, file, run>>

\* An operation of the library, which no verb asks for: nothing is saved.
RemoveCoupling(t, edge) ==
  /\ Structures(t)
  /\ edge \in couplings
  /\ couplings' = couplings \ {edge}
  /\ Enters(t, Registered, {}, TRUE, "idle")
  /\ UNCHANGED <<process, policy, policyGeneration, topology, domains, devices, record,
                 published, file, run>>

\* publish_temperature: the domains of the subject, then those that a coupling ties to
\* them; one that is both is recomputed twice.  Nothing is saved.
Publish(t, affected, neighbours) ==
  /\ Begins(t)
  /\ affected = {} \/ couplings = {} => neighbours = {}
  /\ Enters(t, affected, neighbours, FALSE, "idle")
  /\ UNCHANGED <<process, memory, published, file, run>>

--------------------------------------------------------------------------------
(* bump-domain-generation, bump-device-generation: the snapshot is read, its copy
   of the definition changed, and the copy registered. *)

CopyDomain(t, d) ==
  /\ Structures(t)
  /\ published.domains[d].generation \in 1..(MaxGeneration - 1)
  /\ session' = [session EXCEPT ![t] =
       [stage |-> "copied domain", next |-> "idle", carries |-> [id |-> d, copy |-> published.domains[d]]]]
  /\ UNCHANGED <<process, lockVars, memory, published, file, run>>

CopyDevice(t, v) ==
  /\ Begins(t)
  /\ published.devices[v].generation \in 1..(MaxGeneration - 1)
  /\ session' = [session EXCEPT ![t] =
       [stage |-> "copied device", next |-> "idle", carries |-> [id |-> v, copy |-> published.devices[v]]]]
  /\ UNCHANGED <<process, lockVars, memory, published, file, run>>

Advanced(definition) == [definition EXCEPT !.generation = @ + 1]

Refuse(t) ==
  /\ stateLock = Nobody
  /\ session' = [session EXCEPT ![t] = Idle]
  /\ UNCHANGED <<process, lockVars, memory, published, file, run>>

BumpDomain(t) ==
  /\ session[t].stage = "copied domain"
  /\ LET d == session[t].carries.id
         definition == Advanced(session[t].carries.copy)
     IN IF Accepts(d, definition.generation) THEN Updates(t, d, definition) ELSE Refuse(t)

BumpDevice(t) ==
  /\ session[t].stage = "copied device"
  /\ LET v == session[t].carries.id
         registration == Advanced(session[t].carries.copy)
     IN IF registration.generation >= devices[v].generation
        THEN Registers(t, v, registration) ELSE Refuse(t)

--------------------------------------------------------------------------------
(* Evaluation and explanation on request *)

\* evaluate_domain stores and records, and publishes nothing.
Evaluate(t, d) ==
  /\ Begins(t) /\ stateLock = Nobody
  /\ d \in Registered
  /\ \E verdict \in Verdicts : Records(d, Evaluation(d, verdict))
  /\ UNCHANGED <<process, lockVars, configuration, published, session, file, run>>

\* explain is three critical sections: evaluate_domain, ...
ExplainEvaluate(t, d) ==
  /\ Begins(t) /\ stateLock = Nobody
  /\ d \in Registered
  /\ \E verdict \in Verdicts :
       /\ Records(d, Evaluation(d, verdict))
       /\ session' = [session EXCEPT ![t] =
            [stage |-> "evaluated", next |-> "idle",
             carries |-> [evaluatedUnder |-> policy, printed |-> 0]]]
  /\ UNCHANGED <<process, lockVars, configuration, published, file, run>>

\* ... query_envelope, whose result the explanation does not use, ...
ExplainEnvelope(t) ==
  /\ session[t].stage = "evaluated" /\ stateLock = Nobody
  /\ session' = [session EXCEPT ![t] =
       [stage |-> "enveloped", next |-> "idle", carries |-> @.carries]]
  /\ UNCHANGED <<process, lockVars, memory, published, file, run>>

\* ... and build_explanation with the policy as it is now.
ExplainBuild(t) ==
  /\ session[t].stage = "enveloped" /\ stateLock = Nobody
  /\ session' = [session EXCEPT ![t] =
       [stage |-> "explained", next |-> "idle", carries |-> [@.carries EXCEPT !.printed = policy]]]
  /\ UNCHANGED <<process, lockVars, memory, published, file, run>>

ExplainAnswer(t) ==
  /\ session[t].stage = "explained"
  /\ session' = [session EXCEPT ![t] = Idle]
  /\ UNCHANGED <<process, lockVars, memory, published, file, run>>

--------------------------------------------------------------------------------
(* Persisting, crash and start *)

\* The state is saved after each change, and by a verb of its own.
Capture(t) ==
  /\ HasPath
  /\ process = "serving" /\ stateLock = Nobody
  /\ session[t].stage \in {"idle", "changed"}
  /\ session' = [session EXCEPT ![t] = [stage |-> "saving", next |-> "idle", carries |-> Durable]]
  /\ UNCHANGED <<process, lockVars, memory, published, file, run>>

\* The save replaces the file or leaves it (DurableStore).
Save(t) ==
  /\ session[t].stage = "saving"
  /\ file' \in {file, session[t].carries}
  /\ session' = [session EXCEPT ![t] = Idle]
  /\ UNCHANGED <<process, lockVars, memory, published, run>>

Crash ==
  /\ process # "down"
  /\ process' = "down"
  /\ stateLock' = Nobody /\ todo' = {} /\ again' = {} /\ structural' = FALSE
  /\ session' = [t \in Agents |-> Idle]
  /\ Configured(Fresh)
  /\ published' = FreshSnapshot
  /\ UNCHANGED <<file, run>>

Larger(m, n) == IF m > n THEN m ELSE n

\* load_durable up to the recomputation: counters are observed, the topology advances.
Restored(durable) ==
  [durable EXCEPT !.policyGeneration = Larger(Fresh.policyGeneration, @),
                  !.topology = Larger(Fresh.topology, @) + 1,
                  !.sequence = Larger(Fresh.sequence, @)]

Start ==
  /\ process = "down" /\ run < MaxRuns
  /\ run' = run + 1
  /\ IF file = Nothing
     THEN process' = "serving" /\ UNCHANGED <<lockVars, memory, session>>
     ELSE /\ process' = "loading"
          /\ Configured(Restored(file))
          /\ Enters(Main, {d \in Domains : file.domains[d].generation # 0}, {}, FALSE, "idle")
  /\ UNCHANGED <<published, file>>

Next ==
  \/ \E t \in Agents : Recompute(t) \/ Build(t) \/ Swap(t)
  \/ \E t \in Threads, g \in 1..MaxGeneration : SetPolicy(t, g)
  \/ \E t \in Threads, d \in Domains, g \in 1..MaxGeneration, label \in Labels :
       RegisterDomain(t, d, g, label) \/ UpdateDomain(t, d, g, label)
  \/ \E t \in Threads, v \in Devices, g \in 1..MaxGeneration, label \in Labels :
       RegisterDevice(t, v, g, label)
  \/ \E t \in Threads, edge \in PossibleCouplings :
       RegisterCoupling(t, edge) \/ RemoveCoupling(t, edge)
  \/ \E t \in Threads, affected, neighbours \in SUBSET Registered :
       Publish(t, affected, neighbours)
  \/ \E t \in Threads, d \in Domains : CopyDomain(t, d) \/ Evaluate(t, d) \/ ExplainEvaluate(t, d)
  \/ \E t \in Threads, v \in Devices : CopyDevice(t, v)
  \/ \E t \in Threads : BumpDomain(t) \/ BumpDevice(t)
  \/ \E t \in Threads : ExplainEnvelope(t) \/ ExplainBuild(t) \/ ExplainAnswer(t)
  \/ \E t \in Threads : Capture(t) \/ Save(t)
  \/ Crash
  \/ Start

Spec == Init /\ [][Next]_vars

--------------------------------------------------------------------------------
(* Properties *)

Definitions == [generation : Nat, label : Labels \cup {Nothing}]
States == {verdict.state : verdict \in Verdicts} \cup {"UNKNOWN"}
Decisions == {verdict.decision : verdict \in Verdicts} \cup {"UNKNOWN"}
Evaluations == [state : States, decision : Decisions, policy : Nat, generation : Nat]
Transitions ==
  [domain : Domains, from : States, to : States, decision : Decisions, policy : Nat, run : Nat,
   sequence : Nat]
Snapshots ==
  [policy : Nat, policyGeneration : Nat, topology : Nat, domains : [Domains -> Definitions],
   devices : [Devices -> Definitions], couplings : SUBSET PossibleCouplings,
   evaluations : [Domains -> Evaluations], transitions : Nat]
DurableStates ==
  [policy : Nat, policyGeneration : Nat, topology : Nat, domains : [Domains -> Definitions],
   devices : [Devices -> Definitions], couplings : SUBSET PossibleCouplings,
   transitions : Seq(Transitions), sequence : Nat]

Stages ==
  {"idle", "changing", "publishing", "changed", "copied domain", "copied device", "evaluated",
   "enveloped", "explained", "saving"}

\* What a thread carries at each stage.
Carried(stage) ==
  CASE stage = "publishing" -> Snapshots
    [] stage = "saving" -> DurableStates
    [] stage = "copied domain" -> [id : Domains, copy : Definitions]
    [] stage = "copied device" -> [id : Devices, copy : Definitions]
    [] stage \in {"evaluated", "enveloped", "explained"} -> [evaluatedUnder : Nat, printed : Nat]
    [] OTHER -> {Nothing}

TypeOK ==
  /\ process \in {"down", "loading", "serving"}
  /\ stateLock \in Agents \cup {Nobody}
  /\ todo \subseteq Domains /\ again \subseteq Domains /\ structural \in BOOLEAN
  /\ policy \in Nat /\ policyGeneration \in Nat /\ topology \in Nat
  /\ domains \in [Domains -> Definitions] /\ devices \in [Devices -> Definitions]
  /\ couplings \subseteq PossibleCouplings
  /\ evaluations \in [Domains -> Evaluations]
  /\ transitions \in Seq(Transitions) /\ sequence \in Nat
  /\ published \in Snapshots
  /\ DOMAIN session = Agents
  /\ \A t \in Agents :
       session[t] \in [stage : Stages, next : {"idle", "changed"}, carries : Carried(session[t].stage)]
  /\ file \in DurableStates \cup {Nothing}
  /\ run \in Nat

Serving == process = "serving" /\ stateLock = Nobody

\* README, concurrency model: readers "never observe a partially mutated generation
\* set", "a single observed snapshot is internally consistent": every evaluation in a
\* snapshot was made under the policy and the definition the snapshot shows, although
\* several domains were recomputed one by one and the verdicts stored in between.
SnapshotIsCoherent ==
  \A d \in Domains :
    LET evaluation == published.evaluations[d] IN
    evaluation # NotEvaluated =>
      /\ evaluation.policy = published.policy
      /\ evaluation.generation = published.domains[d].generation

\* Whenever no mutation is under way, a reader of the snapshot and a reader of the
\* governor see the same configuration: no command that changes it leaves without
\* publishing.  (Verdicts may differ: evaluate_domain does not publish.)
SnapshotIsCurrent ==
  Serving =>
    /\ published.policy = policy /\ published.policyGeneration = policyGeneration
    /\ published.topology = topology /\ published.couplings = couplings
    /\ published.domains = domains /\ published.devices = devices
    /\ \A d \in Domains : published.evaluations[d].policy = evaluations[d].policy

\* What readers of the snapshot rely on.
SnapshotIsSound == SnapshotIsCoherent /\ SnapshotIsCurrent

\* A reader that looks twice does not see an older configuration the second time:
\* snapshots are swapped in in the order of the mutations, whichever threads make
\* them; and an explanation, which evaluates first and reads the policy two critical
\* sections later, prints no policy older than the one it was evaluated under.
ReadersNeverGoBack ==
  [][/\ process' = "serving" /\ process = "serving" =>
         /\ published.policyGeneration <= published'.policyGeneration
         /\ published.topology <= published'.topology
         /\ published.transitions <= published'.transitions
         /\ \A d \in Domains : published.domains[d].generation <= published'.domains[d].generation
         /\ \A v \in Devices : published.devices[v].generation <= published'.devices[v].generation
     /\ \A t \in Threads : session'[t].stage = "explained" =>
         session'[t].carries.evaluatedUnder <= session'[t].carries.printed]_vars

\* bump-domain-generation registers a copy that it took from a snapshot earlier, without
\* a lock in between: when it is accepted, nothing another client has changed meanwhile
\* is undone.  (bump-device-generation does not have this property.)
BumpsKeepTheDefinition ==
  [][\A t \in Threads :
       session[t].stage = "copied domain" /\ session'[t].stage = "changing" =>
         LET d == session[t].carries.id IN
         domains'[d] = [domains[d] EXCEPT !.generation = @ + 1]]_vars

\* The records that are left of the history are the last ones, without a gap and in the
\* order of policies and runs, in memory and in the file, and the next one follows on.
Unbroken(h, last, latestPolicy) ==
  /\ Len(h) <= MaxHistory
  /\ last > 0 => h # <<>>
  /\ \A i \in 1..Len(h) :
       /\ h[i].sequence = last - Len(h) + i
       /\ h[i].policy <= latestPolicy
       /\ i > 1 => h[i - 1].policy <= h[i].policy /\ h[i - 1].run <= h[i].run

HistoryIsUnbroken ==
  /\ Unbroken(transitions, sequence, policyGeneration)
  /\ file # Nothing => Unbroken(file.transitions, file.sequence, file.policyGeneration)

FollowsInDomain(h, i, j) ==
  /\ i < j /\ h[i].domain = h[j].domain
  /\ \A k \in (i + 1)..(j - 1) : h[k].domain # h[i].domain

\* Each transition of a domain begins where the one before it ended, or at UNKNOWN when
\* the process was started in between: none was lost, recorded twice or out of order.
HistoryIsChained ==
  \A i, j \in 1..Len(transitions) :
    FollowsInDomain(transitions, i, j) =>
      transitions[j].from =
        IF transitions[i].run = transitions[j].run THEN transitions[i].to ELSE "UNKNOWN"

\* README: "history is appended under the same lock that produced the state change":
\* the last transition of a domain in this run, while it is kept, tells its verdict.
HistoryTellsTheState ==
  \A d \in Domains, i \in 1..Len(transitions) :
    /\ evaluations[d] # NotEvaluated
    /\ transitions[i].domain = d /\ transitions[i].run = run
    /\ \A j \in (i + 1)..Len(transitions) : transitions[j].domain # d
    => transitions[i].to = evaluations[d].state /\ transitions[i].decision = evaluations[d].decision

\* The history tells what happened: complete, chained, and in agreement with the state.
HistoryIsFaithful == HistoryIsUnbroken /\ HistoryIsChained /\ HistoryTellsTheState
================================================================================
