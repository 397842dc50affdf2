----------------------- MODULE SnapshotsAndHistoryProofs -----------------------
(***************************************************************************)
(* For any number of threads, domains and devices, any history, and any    *)
(* number of starts: what a reader of the snapshot sees is of one moment,  *)
(* current and never older than before, a bump undoes nothing, and the     *)
(* history has no gap, chains by domain and tells the state.               *)
(***************************************************************************)
EXTENDS SnapshotsAndHistory, SequenceTheorems, WellFoundedInduction, TLAPS

ConfigurationOK ==
  /\ policy \in Nat /\ policyGeneration \in Nat /\ topology \in Nat
  /\ domains \in [Domains -> Definitions] /\ devices \in [Devices -> Definitions]
  /\ couplings \subseteq PossibleCouplings

RecordOK ==
  /\ evaluations \in [Domains -> Evaluations]
  /\ transitions \in Seq(Transitions) /\ sequence \in Nat

LockOK ==
  /\ stateLock \in Agents \cup {Nobody}
  /\ todo \subseteq Domains /\ again \subseteq Domains /\ structural \in BOOLEAN

SessionOK(s) == s \in [stage : Stages, next : {"idle", "changed"}, carries : Carried(s.stage)]
SessionsOK == DOMAIN session = Agents /\ \A t \in Agents : SessionOK(session[t])

OutsideOK ==
  /\ process \in {"down", "loading", "serving"}
  /\ published \in Snapshots /\ file \in DurableStates \cup {Nothing} /\ run \in Nat

LEMMA TypeParts ==
  /\ TypeOK <=> ConfigurationOK /\ RecordOK /\ LockOK /\ SessionsOK /\ OutsideOK
  /\ TypeOK' <=> ConfigurationOK' /\ RecordOK' /\ LockOK' /\ SessionsOK' /\ OutsideOK'
BY DEF TypeOK, ConfigurationOK, RecordOK, LockOK, SessionsOK, SessionOK, OutsideOK

--------------------------------------------------------------------------------
(* Values *)

LEMMA LimitsAreNumbers ==
  /\ MaxHistory \in Nat \ {0} /\ MaxGeneration \in Nat \ {0} /\ Domains \subseteq Nat \ {0}
  /\ HasPath \in BOOLEAN /\ PossibleCouplings \subseteq Domains \X Domains
BY LimitsAssumption

LEMMA SomeAreLeast ==
  ASSUME NEW S \in SUBSET Nat, S # {}
  PROVE  Least(S) \in S
<1> DEFINE R == OpToRel(<, Nat)
<1>1. IsWellFoundedOn(R, Nat)
  BY NatLessThanWellFounded
<1> HIDE DEF R
<1>2. PICK x \in S : \A y \in S : ~ (<<y, x>> \in R)
  BY <1>1, WFMin
<1>3. \A y \in S : ~ (y < x)
  BY <1>2 DEF R, OpToRel
<1>4. \A y \in S : x <= y
  BY <1>3
<1>5. QED
  BY <1>4 DEF Least

Underlying == [evaluatedUnder : Nat, printed : Nat]
Copies(S) == [id : S, copy : Definitions]

LEMMA WhatIsCarried ==
  /\ Carried("publishing") = Snapshots /\ Carried("saving") = DurableStates
  /\ Carried("copied domain") = Copies(Domains) /\ Carried("copied device") = Copies(Devices)
  /\ Carried("evaluated") = Underlying
  /\ Carried("enveloped") = Carried("evaluated") /\ Carried("explained") = Carried("evaluated")
  /\ Carried("idle") = {Nothing}
  /\ Carried("changing") = {Nothing} /\ Carried("changed") = {Nothing}
BY DEF Carried, Copies, Underlying

LEMMA IdleIsSession == SessionOK(Idle) /\ \A stage \in {"idle", "changed"} : SessionOK([Idle EXCEPT !.stage = stage])
BY WhatIsCarried DEF SessionOK, Idle, Stages

\* A thread that moves in its command leaves the others where they are.
LEMMA OneSessionMoves ==
  ASSUME SessionsOK, NEW t \in Agents, NEW s, SessionOK(s), session' = [session EXCEPT ![t] = s]
  PROVE  SessionsOK'
BY DEF SessionsOK

LEMMA NothingIsTyped ==
  /\ NotThere \in Definitions /\ NotEvaluated \in Evaluations
  /\ Fresh \in DurableStates /\ FreshSnapshot \in Snapshots
<1>1. NotThere \in Definitions
  BY DEF NotThere, Definitions
<1>2. NotEvaluated \in Evaluations
  BY DEF NotEvaluated, Evaluations, States, Decisions
<1>3. <<>> \in Seq(Transitions)
  BY EmptySeq
<1>4. QED
  BY <1>1, <1>2, <1>3 DEF Fresh, FreshSnapshot, DurableStates, Snapshots

\* What is left of a full history is its newer part, one record shorter than it may be.
LEMMA RoomIsMade ==
  ASSUME NEW h \in Seq(Transitions)
  PROVE  /\ WithRoom(h) \in Seq(Transitions)
         /\ Len(WithRoom(h)) = IF Len(h) < MaxHistory THEN Len(h) ELSE MaxHistory - 1
         /\ \A i \in 1..Len(WithRoom(h)) : WithRoom(h)[i] = h[Len(h) - Len(WithRoom(h)) + i]
<1>1. Len(h) \in Nat /\ MaxHistory \in Nat \ {0}
  BY LenProperties, LimitsAreNumbers
<1>2. CASE Len(h) < MaxHistory
  BY <1>1, <1>2 DEF WithRoom
<1>3. CASE ~(Len(h) < MaxHistory)
  <2>1. WithRoom(h) = SubSeq(h, Len(h) - MaxHistory + 2, Len(h))
    BY <1>3 DEF WithRoom
  <2>2. \A i \in (Len(h) - MaxHistory + 2)..Len(h) : h[i] \in Transitions
    BY <1>1, <1>3, ElementOfSeq
  <2>3. /\ WithRoom(h) \in Seq(Transitions)
        /\ Len(WithRoom(h)) = IF Len(h) - MaxHistory + 2 <= Len(h) THEN MaxHistory - 1 ELSE 0
        /\ \A i \in 1..(MaxHistory - 1) : WithRoom(h)[i] = h[Len(h) - MaxHistory + 2 + i - 1]
    BY <1>1, <2>1, <2>2, SubSeqProperties
  <2>4. QED
    BY <1>1, <1>3, <2>3
<1>4. QED
  BY <1>2, <1>3

\* The history with one more record.
LEMMA HistoryGrows ==
  ASSUME NEW h \in Seq(Transitions), NEW r \in Transitions
  PROVE  Append(WithRoom(h), r) \in Seq(Transitions)
BY RoomIsMade, AppendProperties

--------------------------------------------------------------------------------
(* Types *)

LEMMA RecordTypes ==
  ASSUME TypeOK, NEW d \in Domains, NEW verdict \in Verdicts, Records(d, Evaluation(d, verdict))
  PROVE  RecordOK' /\ Evaluation(d, verdict) \in Evaluations
<1>1. RecordOK /\ ConfigurationOK /\ run \in Nat
  BY TypeParts DEF OutsideOK
<1>2. Evaluation(d, verdict) \in Evaluations
  BY <1>1 DEF Evaluation, Evaluations, States, Decisions, ConfigurationOK, Definitions
<1>3. Transition(d, evaluations[d], Evaluation(d, verdict)) \in Transitions
  <2>1. evaluations[d] \in Evaluations
    BY <1>1 DEF RecordOK
  <2>2. QED
    BY <1>1, <1>2, <2>1 DEF Transition, Transitions, Evaluations, RecordOK, ConfigurationOK
<1>4. Append(WithRoom(transitions), Transition(d, evaluations[d], Evaluation(d, verdict)))
        \in Seq(Transitions)
  BY <1>1, <1>3, HistoryGrows DEF RecordOK
<1>5. transitions' \in Seq(Transitions) /\ sequence' \in Nat
  BY <1>1, <1>4 DEF Records, RecordOK
<1>6. evaluations' \in [Domains -> Evaluations]
  BY <1>1, <1>2 DEF Records, RecordOK
<1>7. QED
  BY <1>2, <1>5, <1>6 DEF RecordOK

\* What a thread does with state_mutex while it changes the configuration.
LEMMA EnterTypes ==
  ASSUME TypeOK, NEW t \in Agents, NEW A \in SUBSET Domains, NEW N \in SUBSET Domains,
         NEW advances \in BOOLEAN, NEW next \in {"idle", "changed"}, Enters(t, A, N, advances, next)
  PROVE  LockOK' /\ SessionsOK'
<1>1. SessionsOK
  BY TypeParts
<1> DEFINE s == [stage |-> "changing", next |-> next, carries |-> Nothing]
<1>2. SessionOK(s)
  BY WhatIsCarried DEF SessionOK, Stages
<1>3. session' = [session EXCEPT ![t] = s]
  BY DEF Enters
<1>4. SessionsOK'
  BY <1>1, <1>2, <1>3, OneSessionMoves
<1>5. QED
  BY <1>4 DEF Enters, LockOK

LEMMA RecomputeTypes == ASSUME TypeOK, NEW t \in Agents, Recompute(t) PROVE TypeOK'
<1>1. ConfigurationOK /\ LockOK /\ SessionsOK /\ OutsideOK
  BY TypeParts
<1> DEFINE d == Least(todo)
<1>2. d \in Domains /\ d \in todo
  BY <1>1, LimitsAreNumbers, SomeAreLeast DEF LockOK, Recompute
<1>3. PICK verdict \in Verdicts : Records(d, Evaluation(d, verdict))
  BY NamesAssumption DEF Recompute
<1>4. RecordOK'
  BY <1>2, <1>3, RecordTypes
<1>5. LockOK'
  BY <1>1 DEF Recompute, LockOK
<1>6. ConfigurationOK' /\ SessionsOK' /\ OutsideOK'
  BY <1>1 DEF Recompute, configuration, ConfigurationOK, SessionsOK, SessionOK, OutsideOK
<1>7. QED
  BY <1>4, <1>5, <1>6, TypeParts

LEMMA SnapshotTypes == ASSUME TypeOK PROVE Snapshot \in Snapshots /\ Durable \in DurableStates
BY LenProperties DEF TypeOK, Snapshot, Snapshots, Durable, DurableStates

LEMMA BuildTypes == ASSUME TypeOK, NEW t \in Agents, Build(t) PROVE TypeOK'
<1>1. ConfigurationOK /\ RecordOK /\ LockOK /\ SessionsOK /\ OutsideOK
  BY TypeParts
<1>2. topology' \in Nat /\ structural' \in BOOLEAN
  <2>1. topology' = (IF structural THEN topology + 1 ELSE topology) /\ structural' = FALSE
    BY DEF Build
  <2>2. topology' \in {topology, topology + 1} /\ structural' \in BOOLEAN
    BY <2>1, Zenon
  <2>3. QED
    BY <1>1, <2>2 DEF ConfigurationOK
<1> DEFINE s == [stage |-> "publishing", next |-> session[t].next,
                 carries |-> [Snapshot EXCEPT !.topology = topology']]
<1>3. [Snapshot EXCEPT !.topology = topology'] \in Snapshots
  BY <1>2, SnapshotTypes DEF Snapshots
<1>4. session[t] \in [stage : Stages, next : {"idle", "changed"}, carries : Carried(session[t].stage)]
  BY <1>1 DEF SessionsOK, SessionOK
<1>5. SessionOK(s)
  BY <1>3, <1>4, WhatIsCarried DEF SessionOK, Stages
<1>6. session' = [session EXCEPT ![t] = s]
  BY DEF Build
<1>7. SessionsOK'
  BY <1>1, <1>5, <1>6, OneSessionMoves
<1>8. ConfigurationOK' /\ RecordOK' /\ LockOK' /\ OutsideOK'
  BY <1>1, <1>2 DEF Build, record, ConfigurationOK, RecordOK, LockOK, OutsideOK
<1>9. QED
  BY <1>7, <1>8, TypeParts

LEMMA SwapTypes == ASSUME TypeOK, NEW t \in Agents, Swap(t) PROVE TypeOK'
<1>1. ConfigurationOK /\ RecordOK /\ LockOK /\ SessionsOK /\ OutsideOK
  BY TypeParts
<1>2. session[t] \in [stage : Stages, next : {"idle", "changed"}, carries : Carried(session[t].stage)]
  BY <1>1 DEF SessionsOK, SessionOK
<1>3. session[t].carries \in Snapshots
  BY <1>2, WhatIsCarried DEF Swap
<1>4. SessionOK([Idle EXCEPT !.stage = session[t].next])
  BY <1>2, IdleIsSession
<1>5. session' = [session EXCEPT ![t] = [Idle EXCEPT !.stage = session[t].next]]
  BY DEF Swap
<1>6. SessionsOK'
  BY <1>1, <1>4, <1>5, OneSessionMoves
<1>7. ConfigurationOK' /\ RecordOK' /\ LockOK' /\ OutsideOK'
  BY <1>1, <1>3 DEF Swap, memory, configuration, record, ConfigurationOK, RecordOK, LockOK, OutsideOK
<1>8. QED
  BY <1>6, <1>7, TypeParts

--------------------------------------------------------------------------------
(* Kinds of steps *)

\* A definition that a reader holds is the one in place, or of an earlier generation.
Reaches(old, new) ==
  /\ old.generation <= new.generation
  /\ old.generation # 0 /\ old.generation = new.generation => old = new

\* A thread is where a command can take state_mutex.
Takes(t) == Begins(t) \/ session[t].stage \in {"copied domain", "copied device"}

\* A bump registers its copy with the next generation, over a definition that is there.
Bumps(t) ==
  session[t].stage = "copied domain" =>
    LET d == session[t].carries.id IN
    /\ domains'[d] = Advanced(session[t].carries.copy)
    /\ domains'[d].generation > domains[d].generation
    /\ domains[d].generation # 0

\* A command changes the configuration as it takes state_mutex: nothing goes back,
\* and what it changes for a domain it has that domain recomputed for.
Changes(t) ==
  /\ stateLock = Nobody
  /\ Takes(t) /\ Bumps(t)
  /\ policy <= policy' /\ policyGeneration <= policyGeneration'
  /\ \A d \in Domains : Reaches(domains[d], domains'[d])
  /\ \A v \in Devices : devices[v].generation <= devices'[v].generation
  /\ \E A, N \in SUBSET Domains, advances \in BOOLEAN, next \in {"idle", "changed"} :
       /\ Enters(t, A, N, advances, next)
       /\ A = {} => N = {}
       /\ A \cup N \subseteq Registered'
       /\ \A d \in Domains \ A : domains'[d] = domains[d]
       /\ policy' = policy \/ Registered' \subseteq A
  /\ ConfigurationOK'
  /\ UNCHANGED <<process, topology, record, published, file, run>>

\* A thread reads, prints, captures or saves.
Talks(t) ==
  /\ session[t].stage = "idle" => process = "serving"
  /\ session[t].stage \notin {"changing", "publishing"}
  /\ \E s :
       /\ SessionOK(s) /\ session' = [session EXCEPT ![t] = s]
       /\ s.stage \notin {"changing", "publishing", "changed", "evaluated"}
       /\ s.stage = "copied domain" => s.carries.copy = published.domains[s.carries.id]
       /\ s.stage = "saving" => s.carries = Durable
       /\ s.stage = "enveloped" =>
            session[t].stage = "evaluated" /\ s.carries = session[t].carries
       /\ s.stage = "explained" =>
            /\ session[t].stage = "enveloped" /\ s.carries.printed = policy
            /\ s.carries.evaluatedUnder = session[t].carries.evaluatedUnder
  /\ file' = file \/ (session[t].stage = "saving" /\ file' = session[t].carries)
  /\ UNCHANGED <<process, lockVars, memory, published, run>>

\* A thread has a domain evaluated on request.
Judges(t) ==
  /\ Begins(t) /\ stateLock = Nobody
  /\ \E d \in Registered, verdict \in Verdicts : Records(d, Evaluation(d, verdict))
  /\ session' \in {session, [session EXCEPT ![t] =
       [stage |-> "evaluated", next |-> "idle",
        carries |-> [evaluatedUnder |-> policy, printed |-> 0]]]}
  /\ UNCHANGED <<process, lockVars, configuration, published, file, run>>

LEMMA BeginsWithoutCopy == ASSUME NEW t, Begins(t) PROVE Takes(t) /\ Bumps(t)
BY DEF Begins, Takes, Bumps

LEMMA AfterChangeIsStage == AfterChange \in {"idle", "changed"}
BY DEF AfterChange

LEMMA NoGenerationGoesBack ==
  ASSUME TypeOK
  PROVE  /\ \A d \in Domains : Reaches(domains[d], domains[d]) /\ domains[d].generation \in Nat
         /\ \A v \in Devices : devices[v].generation <= devices[v].generation /\ devices[v].generation \in Nat
         /\ policy <= policy /\ policyGeneration <= policyGeneration /\ policy \in Nat /\ policyGeneration \in Nat
BY DEF TypeOK, Reaches, Definitions

LEMMA SetPolicyChanges ==
  ASSUME TypeOK, NEW t \in Threads, NEW g \in 1..MaxGeneration, SetPolicy(t, g)
  PROVE  Changes(t)
<1>1. policy' = g /\ g > policy /\ policyGeneration' = policyGeneration + 1
      /\ UNCHANGED <<topology, domains, devices, couplings>>
  BY DEF SetPolicy
<1>2. ConfigurationOK' /\ policy <= policy' /\ policyGeneration <= policyGeneration'
  BY <1>1, NoGenerationGoesBack, LimitsAreNumbers DEF TypeOK, ConfigurationOK
<1>3. /\ Enters(t, Registered, {}, FALSE, AfterChange)
      /\ Registered \in SUBSET Domains /\ Registered' = Registered
  BY <1>1 DEF SetPolicy, RecomputedForPolicy, Registered
<1>4. QED
  BY <1>1, <1>2, <1>3, NoGenerationGoesBack, AfterChangeIsStage, BeginsWithoutCopy DEF SetPolicy, Changes, Enters

LEMMA RegisterDomainChanges ==
  ASSUME TypeOK, NEW t \in Threads, NEW d \in Domains, NEW g \in 1..MaxGeneration,
         NEW label \in Labels, RegisterDomain(t, d, g, label)
  PROVE  Changes(t)
<1> DEFINE definition == [generation |-> g, label |-> label]
<1>1. domains' = [domains EXCEPT ![d] = definition] /\ domains[d].generation = 0
      /\ UNCHANGED <<policy, policyGeneration, topology, devices, couplings>>
  BY DEF RegisterDomain
<1>2. definition \in Definitions /\ g \in Nat \ {0}
  BY LimitsAreNumbers DEF Definitions
<1>3. ConfigurationOK' /\ domains'[d] = definition /\ \A e \in Domains \ {d} : domains'[e] = domains[e]
  BY <1>1, <1>2 DEF TypeOK, ConfigurationOK
<1>4. \A e \in Domains : Reaches(domains[e], domains'[e])
  BY <1>1, <1>2, <1>3, NoGenerationGoesBack DEF Reaches
<1>5. {d} \cup {} \subseteq Registered'
  BY <1>2, <1>3 DEF Registered
<1>6. Enters(t, {d}, {}, TRUE, AfterChange)
  BY DEF RegisterDomain
<1>7. QED
  BY <1>1, <1>3, <1>4, <1>5, <1>6, NoGenerationGoesBack, AfterChangeIsStage, BeginsWithoutCopy
     DEF RegisterDomain, Structures, Changes, Enters

LEMMA UpdateChanges ==
  ASSUME TypeOK, NEW t \in Threads, NEW d \in Domains, NEW definition \in Definitions,
         definition.generation > domains[d].generation, Updates(t, d, definition),
         Takes(t), Bumps(t)
  PROVE  Changes(t)
<1>1. domains' = [domains EXCEPT ![d] = definition]
      /\ UNCHANGED <<policy, policyGeneration, topology, devices, couplings>>
  BY DEF Updates
<1>2. definition.generation \in Nat /\ definition.generation > domains[d].generation
  BY DEF Definitions
<1>3. ConfigurationOK' /\ domains'[d] = definition /\ \A e \in Domains \ {d} : domains'[e] = domains[e]
  BY <1>1 DEF TypeOK, ConfigurationOK
<1>4. \A e \in Domains : Reaches(domains[e], domains'[e])
  <2>1. Reaches(domains[d], domains'[d])
    BY <1>2, <1>3, NoGenerationGoesBack DEF Reaches
  <2> QED
    BY <2>1, <1>3, NoGenerationGoesBack
<1>5. {d} \cup {} \subseteq Registered'
  <2>1. domains[d].generation \in Nat
    BY NoGenerationGoesBack
  <2>2. definition.generation # 0
    BY <2>1, <1>2
  <2> QED
    BY <2>2, <1>3 DEF Registered
<1>6. Enters(t, {d}, {}, TRUE, AfterChange)
  BY DEF Updates
<1>7. QED
  BY <1>1, <1>3, <1>4, <1>5, <1>6, NoGenerationGoesBack, AfterChangeIsStage DEF Updates, Changes, Enters

LEMMA RegistersChanges ==
  ASSUME TypeOK, NEW t \in Threads, NEW v \in Devices, NEW registration \in Definitions,
         registration.generation >= devices[v].generation, Registers(t, v, registration),
         Takes(t), Bumps(t)
  PROVE  Changes(t)
<1>1. devices' = [devices EXCEPT ![v] = registration]
      /\ UNCHANGED <<policy, policyGeneration, topology, domains, couplings>>
  BY DEF Registers
<1>2. ConfigurationOK' /\ devices'[v] = registration /\ \A w \in Devices \ {v} : devices'[w] = devices[w]
  BY <1>1 DEF TypeOK, ConfigurationOK
<1>3. \A w \in Devices : devices[w].generation <= devices'[w].generation
  BY <1>2, NoGenerationGoesBack DEF Definitions
<1>4. /\ Enters(t, Registered, {}, FALSE, AfterChange)
      /\ Registered \in SUBSET Domains /\ Registered' = Registered
  BY <1>1 DEF Registers, Registered
<1>5. QED
  BY <1>1, <1>2, <1>3, <1>4, NoGenerationGoesBack, AfterChangeIsStage DEF Registers, Changes, Enters

LEMMA CouplingChanges ==
  ASSUME TypeOK, NEW t \in Threads, NEW edge \in PossibleCouplings,
         RegisterCoupling(t, edge) \/ RemoveCoupling(t, edge)
  PROVE  Changes(t)
<1>1. couplings' \subseteq PossibleCouplings
      /\ UNCHANGED <<policy, policyGeneration, topology, domains, devices>>
  BY DEF RegisterCoupling, RemoveCoupling, TypeOK
<1>2. ConfigurationOK' /\ Registered' = Registered /\ Registered \in SUBSET Domains
  BY <1>1 DEF TypeOK, ConfigurationOK, Registered
<1>3. \E next \in {"idle", "changed"} : Enters(t, Registered, {}, TRUE, next)
  BY AfterChangeIsStage DEF RegisterCoupling, RemoveCoupling
<1>4. Begins(t) /\ UNCHANGED <<process, record, published, file, run>>
  BY DEF RegisterCoupling, RemoveCoupling, Structures
<1>5. QED
  BY <1>1, <1>2, <1>3, <1>4, NoGenerationGoesBack, BeginsWithoutCopy DEF Changes, Enters

LEMMA PublishChanges ==
  ASSUME TypeOK, NEW t \in Threads, NEW A \in SUBSET Registered, NEW N \in SUBSET Registered,
         Publish(t, A, N)
  PROVE  Changes(t)
<1>1. UNCHANGED <<policy, policyGeneration, topology, domains, devices, couplings>>
  BY DEF Publish, memory, configuration
<1>2. ConfigurationOK' /\ Registered' = Registered /\ Registered \in SUBSET Domains
  BY <1>1 DEF TypeOK, ConfigurationOK, Registered
<1>3. Enters(t, A, N, FALSE, "idle") /\ (A = {} => N = {}) /\ Begins(t)
      /\ UNCHANGED <<process, record, published, file, run>>
  BY DEF Publish, memory
<1>4. QED
  BY <1>1, <1>2, <1>3, NoGenerationGoesBack, BeginsWithoutCopy DEF Changes, Enters

LEMMA UpdateDomainChanges ==
  ASSUME TypeOK, NEW t \in Threads, NEW d \in Domains, NEW g \in 1..MaxGeneration,
         NEW label \in Labels, UpdateDomain(t, d, g, label)
  PROVE  Changes(t)
<1> DEFINE definition == [generation |-> g, label |-> label]
<1>1. definition \in Definitions
  BY LimitsAreNumbers DEF Definitions
<1>2. definition.generation > domains[d].generation /\ Updates(t, d, definition)
  BY DEF UpdateDomain, Accepts
<1>3. Takes(t) /\ Bumps(t)
  BY BeginsWithoutCopy DEF UpdateDomain, Structures
<1> HIDE DEF definition
<1>4. QED
  BY <1>1, <1>2, <1>3, UpdateChanges

LEMMA RegisterDeviceChanges ==
  ASSUME TypeOK, NEW t \in Threads, NEW v \in Devices, NEW g \in 1..MaxGeneration,
         NEW label \in Labels, RegisterDevice(t, v, g, label)
  PROVE  Changes(t)
<1> DEFINE registration == [generation |-> g, label |-> label]
<1>1. registration \in Definitions
  BY LimitsAreNumbers DEF Definitions
<1>2. registration.generation >= devices[v].generation /\ Registers(t, v, registration)
  BY DEF RegisterDevice
<1>3. Takes(t) /\ Bumps(t)
  BY BeginsWithoutCopy DEF RegisterDevice
<1> HIDE DEF registration
<1>4. QED
  BY <1>1, <1>2, <1>3, RegistersChanges

LEMMA SessionsAreTyped ==
  ASSUME TypeOK, NEW t \in Agents
  PROVE  /\ session[t].stage \in Stages /\ session[t].next \in {"idle", "changed"}
         /\ session[t].carries \in Carried(session[t].stage)
         /\ DOMAIN session = Agents
BY DEF TypeOK

LEMMA AdvancedIsDefinition ==
  ASSUME NEW definition \in Definitions
  PROVE  /\ Advanced(definition) \in Definitions
         /\ Advanced(definition).generation = definition.generation + 1
         /\ Advanced(definition).label = definition.label
BY DEF Advanced, Definitions

LEMMA RefuseTalks ==
  ASSUME TypeOK, NEW t \in Threads, Refuse(t),
         session[t].stage \in {"copied domain", "copied device"}
  PROVE  Talks(t)
<1>1. SessionOK(Idle) /\ session' = [session EXCEPT ![t] = Idle] /\ Idle.stage = "idle"
  BY IdleIsSession DEF Refuse, Idle
<1>2. UNCHANGED <<process, lockVars, memory, published, file, run>>
  BY DEF Refuse
<1>3. QED
  BY <1>1, <1>2 DEF Talks

LEMMA BumpDomainKinds ==
  ASSUME TypeOK, NEW t \in Threads, BumpDomain(t)
  PROVE  Changes(t) \/ Talks(t)
<1> DEFINE d == session[t].carries.id  definition == Advanced(session[t].carries.copy)
<1>1. session[t].stage = "copied domain" /\ t \in Agents
  BY DEF BumpDomain, Agents
<1>2. session[t].carries \in Copies(Domains)
  BY <1>1, SessionsAreTyped, WhatIsCarried
<1>3. d \in Domains /\ definition \in Definitions
  BY <1>2, AdvancedIsDefinition DEF Copies
<1>4. IF Accepts(d, definition.generation) THEN Updates(t, d, definition) ELSE Refuse(t)
  BY DEF BumpDomain
<1>5. Takes(t)
  BY <1>1 DEF Takes
<1> HIDE DEF d, definition
<1>6. CASE Accepts(d, definition.generation)
  <2>1. definition.generation > domains[d].generation
    BY <1>6 DEF Accepts
  <2>2. Updates(t, d, definition)
    BY <1>4, <1>6
  <2>3. domains'[d] = definition /\ domains[d].generation # 0
    BY <1>3, <1>6, <2>2 DEF Updates, Accepts, TypeOK
  <2>4. Bumps(t)
    BY <2>1, <2>3 DEF Bumps, d, definition
  <2>5. QED
    BY <1>3, <1>5, <2>1, <2>2, <2>4, UpdateChanges
<1>7. CASE ~Accepts(d, definition.generation)
  BY <1>1, <1>4, <1>7, RefuseTalks
<1>8. QED
  BY <1>6, <1>7

LEMMA BumpDeviceKinds ==
  ASSUME TypeOK, NEW t \in Threads, BumpDevice(t)
  PROVE  Changes(t) \/ Talks(t)
<1> DEFINE v == session[t].carries.id  registration == Advanced(session[t].carries.copy)
<1>1. session[t].stage = "copied device" /\ t \in Agents
  BY DEF BumpDevice, Agents
<1>2. session[t].carries \in Copies(Devices)
  BY <1>1, SessionsAreTyped, WhatIsCarried
<1>3. v \in Devices /\ registration \in Definitions
  BY <1>2, AdvancedIsDefinition DEF Copies
<1>4. IF registration.generation >= devices[v].generation
      THEN Registers(t, v, registration) ELSE Refuse(t)
  BY DEF BumpDevice
<1>5. Takes(t) /\ Bumps(t)
  BY <1>1 DEF Takes, Bumps
<1> HIDE DEF v, registration
<1>6. CASE registration.generation >= devices[v].generation
  <2>1. Registers(t, v, registration)
    BY <1>4, <1>6
  <2>2. QED
    BY <1>3, <1>5, <1>6, <2>1, RegistersChanges
<1>7. CASE ~(registration.generation >= devices[v].generation)
  BY <1>1, <1>4, <1>7, RefuseTalks
<1>8. QED
  BY <1>6, <1>7

LEMMA CopyTalks ==
  ASSUME TypeOK, NEW t \in Threads,
         (\E d \in Domains : CopyDomain(t, d)) \/ (\E v \in Devices : CopyDevice(t, v))
  PROVE  Talks(t)
<1>0. session[t].stage = "idle" /\ process = "serving"
      /\ UNCHANGED <<process, lockVars, memory, published, file, run>>
  BY DEF CopyDomain, CopyDevice, Structures, Begins
<1>1. ASSUME NEW d \in Domains, CopyDomain(t, d) PROVE Talks(t)
  <2> DEFINE s == [stage |-> "copied domain", next |-> "idle",
                   carries |-> [id |-> d, copy |-> published.domains[d]]]
  <2>1. published.domains[d] \in Definitions
    BY DEF TypeOK, Snapshots
  <2>2. SessionOK(s)
    BY <2>1, WhatIsCarried DEF SessionOK, Stages, Copies
  <2>3. session' = [session EXCEPT ![t] = s]
    BY <1>1 DEF CopyDomain
  <2>4. s.stage = "copied domain" /\ s.carries.copy = published.domains[s.carries.id]
    OBVIOUS
  <2> HIDE DEF s
  <2>5. QED
    BY <1>0, <2>2, <2>3, <2>4 DEF Talks
<1>2. ASSUME NEW v \in Devices, CopyDevice(t, v) PROVE Talks(t)
  <2> DEFINE s == [stage |-> "copied device", next |-> "idle",
                   carries |-> [id |-> v, copy |-> published.devices[v]]]
  <2>1. published.devices[v] \in Definitions
    BY DEF TypeOK, Snapshots
  <2>2. SessionOK(s)
    BY <2>1, WhatIsCarried DEF SessionOK, Stages, Copies
  <2>3. session' = [session EXCEPT ![t] = s]
    BY <1>2 DEF CopyDevice
  <2>4. s.stage = "copied device"
    OBVIOUS
  <2> HIDE DEF s
  <2>5. QED
    BY <1>0, <2>2, <2>3, <2>4 DEF Talks
<1>3. QED
  BY <1>1, <1>2

LEMMA ExplainTalks ==
  ASSUME TypeOK, NEW t \in Threads, ExplainEnvelope(t) \/ ExplainBuild(t) \/ ExplainAnswer(t)
  PROVE  Talks(t)
<1>0. UNCHANGED <<process, lockVars, memory, published, file, run>> /\ t \in Agents
      /\ session[t].stage \in {"evaluated", "enveloped", "explained"}
  BY DEF ExplainEnvelope, ExplainBuild, ExplainAnswer, Agents
<1>c. session[t].carries \in Underlying
  BY <1>0, SessionsAreTyped, WhatIsCarried
<1>1. CASE ExplainEnvelope(t)
  <2> DEFINE s == [stage |-> "enveloped", next |-> "idle", carries |-> session[t].carries]
  <2>1. SessionOK(s)
    BY <1>c, WhatIsCarried DEF SessionOK, Stages, Underlying
  <2>2. session' = [session EXCEPT ![t] = s] /\ session[t].stage = "evaluated"
    BY <1>1 DEF ExplainEnvelope
  <2>3. s.stage = "enveloped" /\ s.carries = session[t].carries
    OBVIOUS
  <2> HIDE DEF s
  <2>4. QED
    BY <1>0, <2>1, <2>2, <2>3 DEF Talks
<1>2. CASE ExplainBuild(t)
  <2> DEFINE c == [session[t].carries EXCEPT !.printed = policy]
             s == [stage |-> "explained", next |-> "idle", carries |-> c]
  <2>1. c \in Underlying /\ c.printed = policy
        /\ c.evaluatedUnder = session[t].carries.evaluatedUnder
    BY <1>c, NoGenerationGoesBack DEF Underlying
  <2>2. session' = [session EXCEPT ![t] = s] /\ session[t].stage = "enveloped"
    BY <1>2 DEF ExplainBuild
  <2> HIDE DEF c
  <2>3. SessionOK(s) /\ s.stage = "explained" /\ s.carries = c
    BY <2>1, WhatIsCarried DEF SessionOK, Stages
  <2> HIDE DEF s
  <2>4. QED
    BY <1>0, <2>1, <2>2, <2>3 DEF Talks
<1>3. CASE ExplainAnswer(t)
  <2>1. SessionOK(Idle) /\ session' = [session EXCEPT ![t] = Idle] /\ Idle.stage = "idle"
    BY <1>3, IdleIsSession DEF ExplainAnswer, Idle
  <2>2. QED
    BY <1>0, <2>1 DEF Talks
<1>4. QED
  BY <1>1, <1>2, <1>3

LEMMA SaveTalks ==
  ASSUME TypeOK, NEW t \in Threads, Capture(t) \/ Save(t)
  PROVE  Talks(t)
<1>1. CASE Capture(t)
  <2> DEFINE s == [stage |-> "saving", next |-> "idle", carries |-> Durable]
  <2>1. SessionOK(s)
    BY SnapshotTypes, WhatIsCarried DEF SessionOK, Stages
  <2>2. session' = [session EXCEPT ![t] = s] /\ process = "serving"
        /\ session[t].stage \in {"idle", "changed"}
        /\ UNCHANGED <<process, lockVars, memory, published, file, run>>
    BY <1>1 DEF Capture
  <2>3. s.stage = "saving" /\ s.carries = Durable
    OBVIOUS
  <2> HIDE DEF s
  <2>4. QED
    BY <2>1, <2>2, <2>3 DEF Talks
<1>2. CASE Save(t)
  <2>1. SessionOK(Idle) /\ session' = [session EXCEPT ![t] = Idle] /\ Idle.stage = "idle"
    BY <1>2, IdleIsSession DEF Save, Idle
  <2>2. session[t].stage = "saving" /\ file' \in {file, session[t].carries}
        /\ UNCHANGED <<process, lockVars, memory, published, run>>
    BY <1>2 DEF Save
  <2>3. QED
    BY <2>1, <2>2 DEF Talks
<1>3. QED
  BY <1>1, <1>2

LEMMA EvaluateJudges ==
  ASSUME NEW t \in Threads, NEW d \in Domains, Evaluate(t, d) \/ ExplainEvaluate(t, d)
  PROVE  Judges(t)
<1>1. CASE Evaluate(t, d)
  BY <1>1 DEF Evaluate, Judges
<1>2. CASE ExplainEvaluate(t, d)
  BY <1>2 DEF ExplainEvaluate, Judges
<1>3. QED
  BY <1>1, <1>2

LEMMA StepKinds ==
  ASSUME TypeOK, Next
  PROVE  \/ \E t \in Agents : Recompute(t) \/ Build(t) \/ Swap(t)
         \/ \E t \in Threads : Changes(t) \/ Talks(t) \/ Judges(t)
         \/ Crash
         \/ Start
BY SetPolicyChanges, RegisterDomainChanges, UpdateDomainChanges, RegisterDeviceChanges,
   CouplingChanges, PublishChanges, CopyTalks, EvaluateJudges, BumpDomainKinds, BumpDeviceKinds,
   ExplainTalks, SaveTalks DEF Next

--------------------------------------------------------------------------------
(* Type correctness *)

LEMMA ThreadsAreAgents == Threads \subseteq Agents /\ Main \in Agents
BY DEF Agents

LEMMA ChangesTypes == ASSUME TypeOK, NEW t \in Threads, Changes(t) PROVE TypeOK'
<1>1. PICK A \in SUBSET Domains, N \in SUBSET Domains, advances \in BOOLEAN,
           next \in {"idle", "changed"} : Enters(t, A, N, advances, next)
  BY DEF Changes
<1>2. LockOK' /\ SessionsOK'
  BY <1>1, EnterTypes, ThreadsAreAgents
<1>3. RecordOK' /\ OutsideOK'
  BY TypeParts DEF Changes, record, RecordOK, OutsideOK
<1>4. ConfigurationOK'
  BY DEF Changes
<1>5. QED
  BY <1>2, <1>3, <1>4, TypeParts

LEMMA TalksTypes == ASSUME TypeOK, NEW t \in Threads, Talks(t) PROVE TypeOK'
<1>1. PICK s : SessionOK(s) /\ session' = [session EXCEPT ![t] = s]
  BY DEF Talks
<1>2. SessionsOK'
  BY <1>1, OneSessionMoves, ThreadsAreAgents, TypeParts
<1>3. file' \in DurableStates \cup {Nothing}
  <2>1. CASE file' = file
    BY <2>1 DEF TypeOK
  <2>2. CASE session[t].stage = "saving" /\ file' = session[t].carries
    BY <2>2, SessionsAreTyped, ThreadsAreAgents, WhatIsCarried
  <2>3. QED
    BY <2>1, <2>2 DEF Talks
<1>4. UNCHANGED <<process, lockVars, memory, published, run>>
  BY DEF Talks
<1>5. ConfigurationOK' /\ RecordOK' /\ LockOK'
  BY <1>4, TypeParts DEF lockVars, memory, configuration, record, ConfigurationOK, RecordOK, LockOK
<1>6. OutsideOK'
  BY <1>3, <1>4 DEF TypeOK, OutsideOK
<1>7. QED
  BY <1>2, <1>5, <1>6, TypeParts

LEMMA JudgesTypes == ASSUME TypeOK, NEW t \in Threads, Judges(t) PROVE TypeOK'
<1>1. PICK d \in Registered, verdict \in Verdicts : Records(d, Evaluation(d, verdict))
  BY DEF Judges
<1>2. RecordOK'
  BY <1>1, RecordTypes DEF Registered
<1> DEFINE s == [stage |-> "evaluated", next |-> "idle",
                 carries |-> [evaluatedUnder |-> policy, printed |-> 0]]
<1>3. SessionOK(s)
  BY NoGenerationGoesBack, WhatIsCarried DEF SessionOK, Stages, Underlying
<1>4. session' = session \/ session' = [session EXCEPT ![t] = s]
  BY DEF Judges
<1> HIDE DEF s
<1>5. SessionsOK'
  <2>1. CASE session' = session
    BY <2>1, TypeParts DEF SessionsOK, SessionOK
  <2>2. CASE session' = [session EXCEPT ![t] = s]
    BY <2>2, <1>3, OneSessionMoves, ThreadsAreAgents, TypeParts
  <2>3. QED
    BY <1>4, <2>1, <2>2
<1>6. ConfigurationOK' /\ LockOK' /\ OutsideOK'
  BY TypeParts DEF Judges, lockVars, configuration, ConfigurationOK, LockOK, OutsideOK
<1>7. QED
  BY <1>2, <1>5, <1>6, TypeParts

LEMMA ConfiguredTypes ==
  ASSUME NEW state \in DurableStates, Configured(state)
  PROVE  ConfigurationOK' /\ RecordOK'
<1>1. FreshSnapshot.evaluations \in [Domains -> Evaluations]
  BY NothingIsTyped DEF FreshSnapshot
<1>2. QED
  BY <1>1 DEF Configured, DurableStates, ConfigurationOK, RecordOK

LEMMA CrashTypes == ASSUME TypeOK, Crash PROVE TypeOK'
<1>1. ConfigurationOK' /\ RecordOK'
  BY NothingIsTyped, ConfiguredTypes DEF Crash
<1>2. SessionsOK'
  BY IdleIsSession DEF Crash, SessionsOK
<1>3. LockOK' /\ OutsideOK'
  BY NothingIsTyped DEF Crash, TypeOK, LockOK, OutsideOK
<1>4. QED
  BY <1>1, <1>2, <1>3, TypeParts

LEMMA RestoredIsDurable ==
  ASSUME NEW durable \in DurableStates
  PROVE  /\ Restored(durable) \in DurableStates
         /\ Restored(durable).policy = durable.policy
         /\ Restored(durable).policyGeneration = Larger(1, durable.policyGeneration)
         /\ Restored(durable).topology = Larger(1, durable.topology) + 1
         /\ Restored(durable).domains = durable.domains
         /\ Restored(durable).devices = durable.devices
         /\ Restored(durable).transitions = durable.transitions
         /\ Restored(durable).sequence = durable.sequence
<1>1. \A n \in Nat : Larger(1, n) \in Nat /\ Larger(0, n) = n /\ Larger(1, n) >= n
  BY DEF Larger
<1>2. Fresh.policyGeneration = 1 /\ Fresh.topology = 1 /\ Fresh.sequence = 0
  BY DEF Fresh
<1>3. durable.policyGeneration \in Nat /\ durable.topology \in Nat /\ durable.sequence \in Nat
  BY DEF DurableStates
<1> DEFINE p == Larger(Fresh.policyGeneration, durable.policyGeneration)
           g == Larger(Fresh.topology, durable.topology) + 1
           n == Larger(Fresh.sequence, durable.sequence)
<1>4. p \in Nat /\ g \in Nat /\ n \in Nat
  BY <1>1, <1>2, <1>3
<1>5. p = Larger(1, durable.policyGeneration) /\ g = Larger(1, durable.topology) + 1
      /\ n = durable.sequence
  BY <1>1, <1>2, <1>3
<1>6. Restored(durable) =
        [durable EXCEPT !.policyGeneration = p, !.topology = g, !.sequence = n]
  BY DEF Restored
<1> HIDE DEF p, g, n
<1>7. QED
  BY <1>4, <1>5, <1>6 DEF DurableStates

LEMMA StartTypes == ASSUME TypeOK, Start PROVE TypeOK'
<1>1. run' \in Nat /\ UNCHANGED <<published, file>>
  BY DEF Start, TypeOK
<1>2. CASE file = Nothing
  <2>1. process' = "serving" /\ UNCHANGED <<lockVars, memory, session>>
    BY <1>2 DEF Start
  <2>2. QED
    BY <1>1, <2>1, TypeParts DEF lockVars, memory, configuration, record,
       ConfigurationOK, RecordOK, LockOK, SessionsOK, SessionOK, OutsideOK
<1>3. CASE file # Nothing
  <2> DEFINE A == {d \in Domains : file.domains[d].generation # 0}
  <2>1. /\ process' = "loading" /\ Configured(Restored(file))
        /\ Enters(Main, A, {}, FALSE, "idle")
    BY <1>3 DEF Start
  <2>2. A \in SUBSET Domains
    OBVIOUS
  <2> HIDE DEF A
  <2>3. LockOK' /\ SessionsOK'
    BY <2>1, <2>2, EnterTypes, ThreadsAreAgents
  <2>4. ConfigurationOK' /\ RecordOK'
    BY <1>3, <2>1, RestoredIsDurable, ConfiguredTypes DEF TypeOK
  <2>5. OutsideOK'
    BY <1>1, <2>1 DEF TypeOK, OutsideOK
  <2>6. QED
    BY <2>3, <2>4, <2>5, TypeParts
<1>4. QED
  BY <1>2, <1>3

LEMMA TypeOKInitially == ASSUME Init PROVE TypeOK
<1>1. ConfigurationOK /\ RecordOK
  BY NothingIsTyped DEF Init, Fresh, FreshSnapshot, DurableStates, Snapshots, ConfigurationOK, RecordOK
<1>2. SessionsOK
  BY IdleIsSession DEF Init, SessionsOK
<1>3. LockOK /\ OutsideOK
  BY NothingIsTyped DEF Init, LockOK, OutsideOK
<1>4. QED
  BY <1>1, <1>2, <1>3, TypeParts

LEMMA TypeOKStep == ASSUME TypeOK, [Next]_vars PROVE TypeOK'
<1>1. CASE Next
  <2>1. ASSUME NEW t \in Agents, Recompute(t) \/ Build(t) \/ Swap(t) PROVE TypeOK'
    BY <2>1, RecomputeTypes, BuildTypes, SwapTypes
  <2>2. ASSUME NEW t \in Threads, Changes(t) \/ Talks(t) \/ Judges(t) PROVE TypeOK'
    BY <2>2, ChangesTypes, TalksTypes, JudgesTypes
  <2>3. QED
    BY <1>1, <2>1, <2>2, StepKinds, CrashTypes, StartTypes
<1>2. CASE UNCHANGED vars
  BY <1>2, TypeParts DEF vars, lockVars, memory, configuration, record,
     ConfigurationOK, RecordOK, LockOK, SessionsOK, SessionOK, OutsideOK
<1>3. QED
  BY <1>1, <1>2

\* Every thread carries what its stage says, and the history and the file are made of
\* records, for any number of threads, domains and starts.
THEOREM TypeCorrect == Spec => []TypeOK
<1>1. Init => TypeOK
  BY TypeOKInitially
<1>2. TypeOK /\ [Next]_vars => TypeOK'
  BY TypeOKStep
<1>3. QED
  BY <1>1, <1>2, PTL DEF Spec

--------------------------------------------------------------------------------
(* What holds between the steps of a mutation *)

\* A mutation holds state_mutex from its change to the end of its publication, and
\* recomputes what is left before it builds the snapshot.
MutationsHoldTheLock ==
  /\ \A t \in Agents : session[t].stage \in {"changing", "publishing"} <=> stateLock = t
  /\ \A t \in Agents : session[t].stage = "publishing" => todo = {}
  /\ stateLock = Nobody => todo = {}
  /\ todo = {} => again = {}
  /\ todo \cup again \subseteq Registered

\* A process that is down has nothing in memory; until it serves, Main alone works, and
\* nothing has been published.
NothingBeforeServing ==
  /\ process = "loading" <=> stateLock = Main
  /\ process = "down" =>
       /\ stateLock = Nobody
       /\ \A t \in Agents : session[t] = Idle
  /\ process # "serving" => published = FreshSnapshot

\* The evaluation of a domain that is not waiting to be recomputed is of now.
EvaluationsAreCurrent ==
  \A d \in Domains :
    IF d \in Registered
    THEN d \notin todo \cup again =>
           evaluations[d].policy = policy /\ evaluations[d].generation = domains[d].generation
    ELSE evaluations[d] = NotEvaluated

\* A snapshot shows the configuration as it is, and the verdicts of that configuration.
Agrees(snapshot) ==
  /\ snapshot.policy = policy /\ snapshot.policyGeneration = policyGeneration
  /\ snapshot.topology = topology /\ snapshot.couplings = couplings
  /\ snapshot.domains = domains /\ snapshot.devices = devices
  /\ \A d \in Domains : snapshot.evaluations[d].policy = evaluations[d].policy

Coherent(snapshot) ==
  \A d \in Domains :
    LET evaluation == snapshot.evaluations[d] IN
    evaluation # NotEvaluated =>
      /\ evaluation.policy = snapshot.policy
      /\ evaluation.generation = snapshot.domains[d].generation

SnapshotsAgree ==
  /\ Coherent(published)
  /\ stateLock = Nobody => Agrees(published)
  /\ \A t \in Agents : session[t].stage = "publishing" =>
       /\ Coherent(session[t].carries) /\ Agrees(session[t].carries)
       /\ session[t].carries.transitions = Len(transitions)

\* What readers hold is not ahead of the governor.
Behind(snapshot, policies, structures, records, definitions, registrations) ==
  /\ snapshot.policyGeneration <= policies /\ snapshot.topology <= structures
  /\ snapshot.transitions <= records
  /\ \A d \in Domains : Reaches(snapshot.domains[d], definitions[d])
  /\ \A v \in Devices : snapshot.devices[v].generation <= registrations[v].generation

CopyIsBehind(s, definitions) ==
  s.stage = "copied domain" => Reaches(s.carries.copy, definitions[s.carries.id])

ReadingIsBehind(s, current) ==
  /\ s.stage \in {"evaluated", "enveloped"} => s.carries.evaluatedUnder <= current
  /\ s.stage = "explained" => s.carries.evaluatedUnder <= s.carries.printed

ReadersAreBehind ==
  /\ process # "down" =>
       Behind(published, policyGeneration, topology, Len(transitions), domains, devices)
  /\ \A t \in Agents : CopyIsBehind(session[t], domains) /\ ReadingIsBehind(session[t], policy)

\* A history is unbroken, of runs that have been, and chained by domain.
Chained(h) ==
  \A i, j \in 1..Len(h) :
    FollowsInDomain(h, i, j) =>
      h[j].from = IF h[i].run = h[j].run THEN h[i].to ELSE "UNKNOWN"

Sound(h, last, latestPolicy, latestRun) ==
  /\ Unbroken(h, last, latestPolicy)
  /\ \A i \in 1..Len(h) : h[i].run <= latestRun
  /\ Chained(h)

LastOf(h, i, d) == h[i].domain = d /\ \A j \in (i + 1)..Len(h) : h[j].domain # d

\* The last record of a domain tells its evaluation, or is of an earlier run.
Tells(transition, evaluation, latestRun) ==
  IF evaluation = NotEvaluated THEN transition.run < latestRun
  ELSE /\ transition.run = latestRun /\ transition.to = evaluation.state
       /\ transition.decision = evaluation.decision

MemoryIsSound ==
  /\ Sound(transitions, sequence, policyGeneration, run)
  /\ \A d \in Domains, i \in 1..Len(transitions) :
       LastOf(transitions, i, d) => Tells(transitions[i], evaluations[d], run)

SoundDurable(durable) ==
  Sound(durable.transitions, durable.sequence, durable.policyGeneration, run)

HistoriesAreSound ==
  /\ MemoryIsSound
  /\ process = "down" => transitions = <<>>
  /\ file # Nothing => SoundDurable(file)
  /\ \A t \in Agents : session[t].stage = "saving" => SoundDurable(session[t].carries)

Locked == TypeOK /\ MutationsHoldTheLock /\ NothingBeforeServing

LEMMA SessionAfter ==
  ASSUME TypeOK, NEW t \in Agents, NEW s, session' = [session EXCEPT ![t] = s]
  PROVE  session'[t] = s /\ \A u \in Agents \ {t} : session'[u] = session[u]
BY DEF TypeOK

LEMMA NobodyIsNoAgent == Nobody \notin Agents
BY NamesAssumption DEF Agents

LEMMA RecomputeLeaves ==
  ASSUME TypeOK, NEW t \in Agents, Recompute(t)
  PROVE  \E d \in todo, verdict \in Verdicts :
           /\ d \in Domains
           /\ Records(d, Evaluation(d, verdict))
           /\ todo' \cup again' \subseteq todo \cup again
           /\ todo \cup again \subseteq todo' \cup again' \cup {d}
           /\ (todo = {} => again = {}) => (todo' = {} => again' = {})
<1> DEFINE d == Least(todo)
<1>1. d \in Domains /\ d \in todo
  BY LimitsAreNumbers, SomeAreLeast DEF TypeOK, Recompute
<1>2. PICK verdict \in Verdicts : Records(d, Evaluation(d, verdict))
  BY NamesAssumption DEF Recompute
<1>3. /\ todo' = IF todo = {d} THEN again ELSE todo \ {d}
      /\ again' = IF todo = {d} THEN {} ELSE again
  BY DEF Recompute
<1> HIDE DEF d
<1>4. CASE todo = {d}
  BY <1>1, <1>2, <1>3, <1>4
<1>5. CASE todo # {d}
  <2>1. todo' = todo \ {d} /\ again' = again
    BY <1>3, <1>5
  <2>2. todo' # {}
    BY <1>1, <1>5, <2>1
  <2>3. QED
    BY <1>1, <1>2, <2>1, <2>2
<1>6. QED
  BY <1>4, <1>5

LEMMA RecomputeHolds == ASSUME Locked, NEW t \in Agents, Recompute(t) PROVE Locked'
<1>1. TypeOK'
  BY RecomputeTypes DEF Locked
<1>2. /\ UNCHANGED <<process, stateLock, session, published, domains>>
      /\ stateLock = t /\ todo # {}
  BY DEF Recompute, configuration
<1>3. todo' \cup again' \subseteq todo \cup again /\ (todo' = {} => again' = {})
  BY RecomputeLeaves DEF Locked, MutationsHoldTheLock
<1>4. Registered' = Registered
  BY <1>2 DEF Registered
<1>5. stateLock # Nobody /\ \A u \in Agents : session[u].stage # "publishing"
  BY <1>2, NobodyIsNoAgent DEF Locked, MutationsHoldTheLock
<1>6. MutationsHoldTheLock'
  BY <1>2, <1>3, <1>4, <1>5 DEF Locked, MutationsHoldTheLock
<1>7. NothingBeforeServing'
  BY <1>2 DEF Locked, NothingBeforeServing
<1>8. QED
  BY <1>1, <1>6, <1>7 DEF Locked

LEMMA BuildHolds == ASSUME Locked, NEW t \in Agents, Build(t) PROVE Locked'
<1>1. TypeOK'
  BY BuildTypes DEF Locked
<1>2. /\ UNCHANGED <<process, stateLock, todo, again, published, domains>>
      /\ stateLock = t /\ todo = {} /\ t # Nobody
  BY NobodyIsNoAgent DEF Build
<1>3. session'[t].stage = "publishing" /\ \A u \in Agents \ {t} : session'[u] = session[u]
  <2> DEFINE s == [stage |-> "publishing", next |-> session[t].next,
                   carries |-> [Snapshot EXCEPT !.topology = topology']]
  <2>1. session' = [session EXCEPT ![t] = s] /\ s.stage = "publishing"
    BY DEF Build
  <2> HIDE DEF s
  <2>2. QED
    BY <2>1, SessionAfter DEF Locked
<1>4. Registered' = Registered
  BY <1>2 DEF Registered
<1>5. MutationsHoldTheLock'
  BY <1>2, <1>3, <1>4 DEF Locked, MutationsHoldTheLock
<1>6. NothingBeforeServing'
  BY <1>2 DEF Locked, NothingBeforeServing
<1>7. QED
  BY <1>1, <1>5, <1>6 DEF Locked

LEMMA SwapHolds == ASSUME Locked, NEW t \in Agents, Swap(t) PROVE Locked'
<1>1. TypeOK'
  BY SwapTypes DEF Locked
<1>2. stateLock = t /\ todo = {} /\ t # Nobody
  BY NobodyIsNoAgent DEF Swap, Locked, MutationsHoldTheLock
<1>3. stateLock' = Nobody /\ UNCHANGED <<todo, again, domains>>
  BY <1>2 DEF Swap, memory, configuration
<1>4. session'[t] = [Idle EXCEPT !.stage = session[t].next]
      /\ \A u \in Agents \ {t} : session'[u] = session[u]
  BY SessionAfter DEF Swap, Locked
<1>5. session'[t].stage \in {"idle", "changed"}
  BY <1>4, SessionsAreTyped DEF Idle, Locked
<1>6. Registered' = Registered
  BY <1>3 DEF Registered
<1>7. MutationsHoldTheLock'
  BY <1>2, <1>3, <1>4, <1>5, <1>6, NobodyIsNoAgent DEF Locked, MutationsHoldTheLock
<1>8. process' = "serving" /\ Main # Nobody
  BY <1>2, NobodyIsNoAgent, ThreadsAreAgents DEF Swap, Locked, NothingBeforeServing, TypeOK
<1>9. NothingBeforeServing'
  BY <1>3, <1>8 DEF Locked, NothingBeforeServing
<1>10. QED
  BY <1>1, <1>7, <1>9 DEF Locked

LEMMA ChangesHold == ASSUME Locked, NEW t \in Threads, Changes(t) PROVE Locked'
<1>1. TypeOK'
  BY ChangesTypes DEF Locked
<1>2. PICK A \in SUBSET Domains, N \in SUBSET Domains, advances \in BOOLEAN,
           next \in {"idle", "changed"} :
        Enters(t, A, N, advances, next) /\ (A = {} => N = {}) /\ A \cup N \subseteq Registered'
  BY DEF Changes
<1>3. stateLock = Nobody /\ stateLock' = t /\ todo' = A /\ again' = N
      /\ t \in Agents /\ t # Nobody /\ t # Main
  BY <1>2, NobodyIsNoAgent, ThreadsAreAgents, NamesAssumption DEF Enters
<1>4. session'[t].stage = "changing" /\ \A u \in Agents \ {t} : session'[u] = session[u]
  <2> DEFINE s == [stage |-> "changing", next |-> next, carries |-> Nothing]
  <2>1. session' = [session EXCEPT ![t] = s] /\ s.stage = "changing"
    BY <1>2 DEF Enters
  <2> HIDE DEF s
  <2>2. QED
    BY <1>3, <2>1, SessionAfter DEF Locked
<1>5. MutationsHoldTheLock'
  <2>1. \A u \in Agents : session[u].stage \notin {"changing", "publishing"}
    BY <1>3, NobodyIsNoAgent DEF Locked, MutationsHoldTheLock
  <2>2. \A u \in Agents : session'[u].stage \in {"changing", "publishing"} <=> stateLock' = u
    BY <1>3, <1>4, <2>1
  <2>3. \A u \in Agents : session'[u].stage # "publishing"
    BY <1>4, <2>1
  <2>4. stateLock' # Nobody
    BY <1>3
  <2>5. (todo' = {} => again' = {}) /\ todo' \cup again' \subseteq Registered'
    BY <1>2, <1>3
  <2> QED
    BY <2>2, <2>3, <2>4, <2>5 DEF MutationsHoldTheLock
<1>6. process # "down" /\ process # "loading" /\ UNCHANGED <<process, published>>
  <2>1. session[t].stage # "idle" \/ process = "serving"
    BY DEF Changes, Takes, Begins
  <2>2. UNCHANGED <<process, published>>
    BY DEF Changes
  <2>3. process = "down" => session[t].stage = "idle"
    BY <1>3 DEF Locked, NothingBeforeServing, Idle
  <2>4. process # "loading"
    BY <1>3, NobodyIsNoAgent, ThreadsAreAgents DEF Locked, NothingBeforeServing
  <2>5. QED
    BY <2>1, <2>2, <2>3, <2>4
<1>7. NothingBeforeServing'
  BY <1>3, <1>6 DEF Locked, NothingBeforeServing
<1>8. QED
  BY <1>1, <1>5, <1>7 DEF Locked

LEMMA TalksHold == ASSUME Locked, NEW t \in Threads, Talks(t) PROVE Locked'
<1>1. TypeOK'
  BY TalksTypes DEF Locked
<1>2. PICK s : session' = [session EXCEPT ![t] = s] /\ s.stage \notin {"changing", "publishing"}
  BY DEF Talks
<1>3. session'[t] = s /\ \A u \in Agents \ {t} : session'[u] = session[u]
  BY <1>2, SessionAfter, ThreadsAreAgents DEF Locked
<1>4. UNCHANGED <<process, stateLock, todo, again, domains, published>>
  BY DEF Talks, lockVars, memory, configuration
<1>5. Registered' = Registered
  BY <1>4 DEF Registered
<1>6. stateLock # t /\ t \in Agents
  BY ThreadsAreAgents DEF Talks, Locked, MutationsHoldTheLock
<1>7. MutationsHoldTheLock'
  BY <1>2, <1>3, <1>4, <1>5, <1>6 DEF Locked, MutationsHoldTheLock
<1>8. process # "down"
  <2>1. session[t].stage = "idle" => process = "serving"
    BY DEF Talks
  <2>2. process = "down" => session[t] = Idle
    BY <1>6 DEF Locked, NothingBeforeServing
  <2>3. QED
    BY <2>1, <2>2 DEF Idle
<1>9. NothingBeforeServing'
  BY <1>4, <1>8 DEF Locked, NothingBeforeServing
<1>10. QED
  BY <1>1, <1>7, <1>9 DEF Locked

LEMMA JudgesHold == ASSUME Locked, NEW t \in Threads, Judges(t) PROVE Locked'
<1>1. TypeOK'
  BY JudgesTypes DEF Locked
<1> DEFINE s == [stage |-> "evaluated", next |-> "idle",
                 carries |-> [evaluatedUnder |-> policy, printed |-> 0]]
<1>2. session' = session \/ session' = [session EXCEPT ![t] = s]
  BY DEF Judges
<1>3. s.stage = "evaluated"
  OBVIOUS
<1> HIDE DEF s
<1>4. session'[t].stage = session[t].stage \/ session'[t].stage = "evaluated"
  BY <1>2, <1>3, SessionAfter, ThreadsAreAgents DEF Locked
<1>5. \A u \in Agents \ {t} : session'[u] = session[u]
  BY <1>2, SessionAfter, ThreadsAreAgents DEF Locked
<1>6. UNCHANGED <<process, stateLock, todo, again, domains, published>>
  BY DEF Judges, lockVars, configuration
<1>7. Registered' = Registered
  BY <1>6 DEF Registered
<1>8. stateLock = Nobody /\ process = "serving"
  BY DEF Judges, Begins
<1>9. MutationsHoldTheLock'
  <2>1. \A u \in Agents : session[u].stage \notin {"changing", "publishing"}
    BY <1>8, NobodyIsNoAgent DEF Locked, MutationsHoldTheLock
  <2>2. \A u \in Agents : session'[u].stage \notin {"changing", "publishing"}
    BY <1>4, <1>5, <2>1
  <2>3. QED
    BY <1>6, <1>7, <1>8, <2>2, NobodyIsNoAgent DEF Locked, MutationsHoldTheLock
<1>10. NothingBeforeServing'
  BY <1>6, <1>8, NobodyIsNoAgent, ThreadsAreAgents DEF Locked, NothingBeforeServing
<1>11. QED
  BY <1>1, <1>9, <1>10 DEF Locked

LEMMA CrashHolds == ASSUME Locked, Crash PROVE Locked'
<1>1. TypeOK'
  BY CrashTypes DEF Locked
<1>2. /\ process' = "down" /\ stateLock' = Nobody /\ todo' = {} /\ again' = {}
      /\ published' = FreshSnapshot /\ session' = [u \in Agents |-> Idle]
  BY DEF Crash
<1>3. MutationsHoldTheLock'
  BY <1>2, NobodyIsNoAgent DEF MutationsHoldTheLock, Idle
<1>4. NothingBeforeServing'
  BY <1>2, NobodyIsNoAgent, ThreadsAreAgents DEF NothingBeforeServing
<1>5. QED
  BY <1>1, <1>3, <1>4 DEF Locked

LEMMA StartHolds == ASSUME Locked, Start PROVE Locked'
<1>1. TypeOK'
  BY StartTypes DEF Locked
<1>2. /\ process = "down" /\ stateLock = Nobody /\ published = FreshSnapshot
      /\ published' = published /\ \A u \in Agents : session[u] = Idle
  BY DEF Start, Locked, NothingBeforeServing
<1>3. CASE file = Nothing
  <2>1. process' = "serving" /\ UNCHANGED <<stateLock, todo, again, domains, session>>
    BY <1>3 DEF Start, lockVars, memory, configuration
  <2>2. Registered' = Registered
    BY <2>1 DEF Registered
  <2>3. MutationsHoldTheLock'
    BY <2>1, <2>2 DEF Locked, MutationsHoldTheLock
  <2>4. NothingBeforeServing'
    BY <1>2, <2>1, NobodyIsNoAgent, ThreadsAreAgents DEF NothingBeforeServing
  <2>5. QED
    BY <1>1, <2>3, <2>4 DEF Locked
<1>4. CASE file # Nothing
  <2> DEFINE A == {d \in Domains : file.domains[d].generation # 0}
  <2>1. /\ process' = "loading" /\ Configured(Restored(file))
        /\ Enters(Main, A, {}, FALSE, "idle")
    BY <1>4 DEF Start
  <2>2. domains' = file.domains
    BY <1>4, <2>1, RestoredIsDurable DEF Configured, Locked, TypeOK
  <2>3. A = Registered'
    BY <2>2 DEF Registered
  <2> HIDE DEF A
  <2>4. stateLock' = Main /\ todo' = A /\ again' = {}
    BY <2>1 DEF Enters
  <2>5. session'[Main].stage = "changing" /\ \A u \in Agents \ {Main} : session'[u] = Idle
    <3> DEFINE s == [stage |-> "changing", next |-> "idle", carries |-> Nothing]
    <3>1. session' = [session EXCEPT ![Main] = s] /\ s.stage = "changing"
      BY <2>1 DEF Enters
    <3> HIDE DEF s
    <3>2. QED
      BY <1>2, <3>1, SessionAfter, ThreadsAreAgents DEF Locked
  <2>6. \A u \in Agents \ {Main} : session'[u].stage = "idle"
    BY <2>5 DEF Idle
  <2>7. MutationsHoldTheLock'
    <3>1. \A u \in Agents : session'[u].stage \in {"changing", "publishing"} <=> stateLock' = u
      BY <2>4, <2>5, <2>6
    <3>2. \A u \in Agents : session'[u].stage # "publishing"
      BY <2>5, <2>6
    <3>3. QED
      BY <2>3, <2>4, <3>1, <3>2, NobodyIsNoAgent, ThreadsAreAgents DEF MutationsHoldTheLock
  <2>8. NothingBeforeServing'
    BY <1>2, <2>1, <2>4 DEF NothingBeforeServing
  <2>9. QED
    BY <1>1, <2>7, <2>8 DEF Locked
<1>5. QED
  BY <1>3, <1>4

LEMMA LockedInitially == ASSUME Init PROVE Locked
<1>1. TypeOK
  BY TypeOKInitially
<1>2. /\ process = "serving" /\ stateLock = Nobody /\ todo = {} /\ again = {}
      /\ session = [u \in Agents |-> Idle]
  BY DEF Init
<1>3. MutationsHoldTheLock
  BY <1>2, NobodyIsNoAgent DEF MutationsHoldTheLock, Idle
<1>4. NothingBeforeServing
  BY <1>2, NobodyIsNoAgent, ThreadsAreAgents DEF NothingBeforeServing
<1>5. QED
  BY <1>1, <1>3, <1>4 DEF Locked

--------------------------------------------------------------------------------
(* Evaluations are current, and snapshots show the configuration *)

InStep == Locked /\ EvaluationsAreCurrent /\ SnapshotsAgree
InStepNext == EvaluationsAreCurrent' /\ SnapshotsAgree'

LEMMA RecordsWrites ==
  ASSUME TypeOK, NEW d \in Domains, NEW verdict \in Verdicts, Records(d, Evaluation(d, verdict))
  PROVE  /\ evaluations'[d] = Evaluation(d, verdict)
         /\ evaluations'[d].policy = policy /\ evaluations'[d].generation = domains[d].generation
         /\ d \in Registered => evaluations'[d] # NotEvaluated
         /\ \A e \in Domains \ {d} : evaluations'[e] = evaluations[e]
<1>1. evaluations' = [evaluations EXCEPT ![d] = Evaluation(d, verdict)]
  BY DEF Records
<1>2. evaluations'[d] = Evaluation(d, verdict)
      /\ \A e \in Domains \ {d} : evaluations'[e] = evaluations[e]
  BY <1>1 DEF TypeOK
<1>3. Evaluation(d, verdict).policy = policy
      /\ Evaluation(d, verdict).generation = domains[d].generation
  BY DEF Evaluation
<1>4. d \in Registered => Evaluation(d, verdict).generation # NotEvaluated.generation
  BY <1>3 DEF Registered, NotEvaluated
<1>5. QED
  BY <1>2, <1>3, <1>4

LEMMA NobodyPublishes ==
  ASSUME Locked, stateLock = Nobody \/ todo # {}
  PROVE  \A u \in Agents : session[u].stage # "publishing"
BY NobodyIsNoAgent DEF Locked, MutationsHoldTheLock

LEMMA RecomputeInStep == ASSUME InStep, NEW t \in Agents, Recompute(t) PROVE InStepNext
<1>1. PICK d \in todo, verdict \in Verdicts :
        d \in Domains /\ Records(d, Evaluation(d, verdict))
        /\ todo \cup again \subseteq todo' \cup again' \cup {d}
  BY RecomputeLeaves DEF InStep, Locked
<1>2. UNCHANGED <<stateLock, policy, domains, session, published>> /\ stateLock # Nobody /\ todo # {}
  BY NobodyIsNoAgent DEF Recompute, configuration
<1>3. Registered' = Registered /\ d \in Registered
  BY <1>2 DEF Registered, InStep, Locked, MutationsHoldTheLock
<1>4. EvaluationsAreCurrent'
  BY <1>1, <1>2, <1>3, RecordsWrites DEF InStep, Locked, EvaluationsAreCurrent
<1>5. \A u \in Agents : session[u].stage # "publishing"
  BY <1>2, NobodyPublishes DEF InStep
<1>6. SnapshotsAgree'
  BY <1>2, <1>5 DEF InStep, SnapshotsAgree, Coherent
<1>7. QED
  BY <1>4, <1>6 DEF InStepNext

LEMMA BuildInStep == ASSUME InStep, NEW t \in Agents, Build(t) PROVE InStepNext
<1> DEFINE new == [Snapshot EXCEPT !.topology = topology']
           s == [stage |-> "publishing", next |-> session[t].next, carries |-> new]
<1>1. /\ UNCHANGED <<stateLock, todo, again, policy, policyGeneration, domains, devices, couplings,
                     evaluations, transitions, published>>
      /\ stateLock = t /\ todo = {} /\ session' = [session EXCEPT ![t] = s]
  BY DEF Build, record
<1>2. s.stage = "publishing" /\ s.carries = new
  OBVIOUS
<1>3. /\ new.policy = policy /\ new.policyGeneration = policyGeneration
      /\ new.topology = topology' /\ new.couplings = couplings /\ new.domains = domains
      /\ new.devices = devices /\ new.evaluations = evaluations
      /\ new.transitions = Len(transitions)
  BY DEF Snapshot
<1> HIDE DEF new, s
<1>4. again = {} /\ stateLock # Nobody /\ Registered' = Registered
  BY <1>1, NobodyIsNoAgent DEF InStep, Locked, MutationsHoldTheLock, Registered
<1>5. EvaluationsAreCurrent'
  BY <1>1, <1>4 DEF InStep, EvaluationsAreCurrent
<1>6. Coherent(new)
  BY <1>1, <1>3, <1>4 DEF InStep, EvaluationsAreCurrent, Coherent
<1>7. session'[t] = s /\ \A u \in Agents \ {t} : session'[u] = session[u]
  BY <1>1, SessionAfter DEF InStep, Locked
<1>8. \A u \in Agents \ {t} : session'[u].stage # "publishing"
  BY <1>1, <1>7 DEF InStep, Locked, MutationsHoldTheLock
<1>9. session'[t].carries = new /\ Coherent(session'[t].carries)
  BY <1>2, <1>6, <1>7 DEF Coherent
<1>10. Agrees(session[t].carries)' /\ session'[t].carries.transitions = Len(transitions')
  BY <1>1, <1>3, <1>9 DEF Agrees
<1>11. Coherent(published')
  BY <1>1 DEF InStep, SnapshotsAgree, Coherent
<1>12. SnapshotsAgree'
  BY <1>1, <1>4, <1>8, <1>9, <1>10, <1>11 DEF SnapshotsAgree
<1>13. QED
  BY <1>5, <1>12 DEF InStepNext

LEMMA SwapInStep == ASSUME InStep, NEW t \in Agents, Swap(t) PROVE InStepNext
<1>1. /\ UNCHANGED <<todo, again, policy, policyGeneration, topology, domains, devices, couplings,
                     evaluations, transitions>>
      /\ session[t].stage = "publishing" /\ published' = session[t].carries
  BY DEF Swap, memory, configuration, record
<1>2. Registered' = Registered
  BY <1>1 DEF Registered
<1>3. EvaluationsAreCurrent'
  BY <1>1, <1>2 DEF InStep, EvaluationsAreCurrent
<1>4. Coherent(session[t].carries) /\ Agrees(session[t].carries)
  BY <1>1 DEF InStep, SnapshotsAgree
<1>5. Coherent(published') /\ Agrees(published)'
  BY <1>1, <1>4 DEF Coherent, Agrees
<1>6. Locked'
  BY SwapHolds DEF InStep
<1>7. stateLock' = Nobody
  BY <1>1 DEF Swap, InStep, Locked, MutationsHoldTheLock
<1>8. \A u \in Agents : session'[u].stage # "publishing"
  BY <1>6, <1>7, NobodyIsNoAgent DEF Locked, MutationsHoldTheLock
<1>9. SnapshotsAgree'
  BY <1>5, <1>8 DEF SnapshotsAgree
<1>10. QED
  BY <1>3, <1>9 DEF InStepNext

LEMMA ChangesInStep == ASSUME InStep, NEW t \in Threads, Changes(t) PROVE InStepNext
<1>1. PICK A \in SUBSET Domains, N \in SUBSET Domains, advances \in BOOLEAN,
           next \in {"idle", "changed"} :
        /\ Enters(t, A, N, advances, next)
        /\ A \cup N \subseteq Registered'
        /\ \A d \in Domains \ A : domains'[d] = domains[d]
        /\ policy' = policy \/ Registered' \subseteq A
  BY DEF Changes
<1>2. stateLock = Nobody /\ stateLock' = t /\ todo' = A /\ again' = N /\ t # Nobody
  BY <1>1, NobodyIsNoAgent, ThreadsAreAgents DEF Enters
<1>3. todo = {} /\ again = {} /\ UNCHANGED <<evaluations, transitions, published>>
  BY <1>2 DEF InStep, Locked, MutationsHoldTheLock, Changes, record
<1>4. EvaluationsAreCurrent'
  <2> SUFFICES ASSUME NEW d \in Domains
               PROVE  IF d \in Registered'
                      THEN d \notin A \cup N =>
                             /\ evaluations[d].policy = policy'
                             /\ evaluations[d].generation = domains'[d].generation
                      ELSE evaluations[d] = NotEvaluated
    BY <1>2, <1>3 DEF EvaluationsAreCurrent
  <2>1. CASE d \in Registered' /\ d \notin A \cup N
    <3>1. domains'[d] = domains[d] /\ policy' = policy /\ d \in Registered
      BY <1>1, <2>1 DEF Registered
    <3>2. QED
      BY <1>3, <2>1, <3>1 DEF InStep, EvaluationsAreCurrent
  <2>2. CASE d \notin Registered'
    <3>1. domains'[d] = domains[d]
      BY <1>1, <2>2
    <3>2. d \notin Registered
      BY <2>2, <3>1 DEF Registered
    <3>3. QED
      BY <2>2, <3>2 DEF InStep, EvaluationsAreCurrent
  <2>3. QED
    BY <2>1, <2>2
<1>5. Locked'
  BY ChangesHold DEF InStep
<1>6. \A u \in Agents : session'[u].stage # "publishing"
  <2>1. \A u \in Agents : session[u].stage \notin {"changing", "publishing"}
    BY <1>2, NobodyIsNoAgent DEF InStep, Locked, MutationsHoldTheLock
  <2> DEFINE s == [stage |-> "changing", next |-> next, carries |-> Nothing]
  <2>2. session' = [session EXCEPT ![t] = s] /\ s.stage = "changing"
    BY <1>1 DEF Enters
  <2> HIDE DEF s
  <2>3. session'[t] = s /\ \A u \in Agents \ {t} : session'[u] = session[u]
    BY <2>2, SessionAfter, ThreadsAreAgents DEF InStep, Locked
  <2>4. QED
    BY <2>1, <2>2, <2>3
<1>7. SnapshotsAgree'
  BY <1>2, <1>3, <1>6 DEF InStep, SnapshotsAgree, Coherent
<1>8. QED
  BY <1>4, <1>7 DEF InStepNext

LEMMA TalksInStep == ASSUME InStep, NEW t \in Threads, Talks(t) PROVE InStepNext
<1>1. UNCHANGED <<stateLock, todo, again, policy, policyGeneration, topology, domains, devices,
                  couplings, evaluations, transitions, published>>
  BY DEF Talks, lockVars, memory, configuration, record
<1>2. Registered' = Registered
  BY <1>1 DEF Registered
<1>3. EvaluationsAreCurrent'
  BY <1>1, <1>2 DEF InStep, EvaluationsAreCurrent
<1>4. PICK s : session' = [session EXCEPT ![t] = s] /\ s.stage \notin {"changing", "publishing"}
  BY DEF Talks
<1>5. session'[t] = s /\ \A u \in Agents \ {t} : session'[u] = session[u]
  BY <1>4, SessionAfter, ThreadsAreAgents DEF InStep, Locked
<1>6. Coherent(published') /\ (stateLock' = Nobody => Agrees(published)')
  BY <1>1 DEF InStep, SnapshotsAgree, Coherent, Agrees
<1>7. ASSUME NEW u \in Agents, session'[u].stage = "publishing"
      PROVE  /\ Coherent(session'[u].carries) /\ Agrees(session[u].carries)'
             /\ session'[u].carries.transitions = Len(transitions')
  <2>1. session'[u] = session[u]
    BY <1>4, <1>5, <1>7
  <2>2. Coherent(session[u].carries) /\ Agrees(session[u].carries)
        /\ session[u].carries.transitions = Len(transitions)
    BY <1>7, <2>1 DEF InStep, SnapshotsAgree
  <2>3. QED
    BY <1>1, <2>1, <2>2 DEF Coherent, Agrees
<1>8. SnapshotsAgree'
  BY <1>6, <1>7 DEF SnapshotsAgree
<1>9. QED
  BY <1>3, <1>8 DEF InStepNext

LEMMA JudgesInStep == ASSUME InStep, NEW t \in Threads, Judges(t) PROVE InStepNext
<1>1. PICK d \in Registered, verdict \in Verdicts : Records(d, Evaluation(d, verdict))
  BY DEF Judges
<1>2. /\ UNCHANGED <<stateLock, todo, again, policy, policyGeneration, topology, domains, devices,
                     couplings, published>>
      /\ stateLock = Nobody
  BY DEF Judges, lockVars, configuration
<1>3. todo = {} /\ again = {} /\ d \in Domains /\ Registered' = Registered
  BY <1>2 DEF InStep, Locked, MutationsHoldTheLock, Registered
<1>4. /\ evaluations'[d].policy = policy /\ evaluations'[d].generation = domains[d].generation
      /\ \A e \in Domains \ {d} : evaluations'[e] = evaluations[e]
  BY <1>1, <1>3, RecordsWrites DEF InStep, Locked
<1>5. EvaluationsAreCurrent'
  BY <1>2, <1>3, <1>4 DEF InStep, EvaluationsAreCurrent
<1>6. evaluations[d].policy = policy
  BY <1>3 DEF InStep, EvaluationsAreCurrent
<1>7. Coherent(published') /\ Agrees(published)'
  <2>1. Coherent(published) /\ Agrees(published)
    BY <1>2 DEF InStep, SnapshotsAgree
  <2>2. \A e \in Domains : published.evaluations[e].policy = evaluations'[e].policy
    BY <1>4, <1>6, <2>1 DEF Agrees
  <2>3. QED
    BY <1>2, <2>1, <2>2 DEF Coherent, Agrees
<1>8. Locked'
  BY JudgesHold DEF InStep
<1>9. \A u \in Agents : session'[u].stage # "publishing"
  BY <1>2, <1>8, NobodyIsNoAgent DEF Locked, MutationsHoldTheLock
<1>10. SnapshotsAgree'
  BY <1>7, <1>9 DEF SnapshotsAgree
<1>11. QED
  BY <1>5, <1>10 DEF InStepNext

LEMMA FreshValues ==
  /\ Fresh.policy = 1 /\ Fresh.policyGeneration = 1 /\ Fresh.topology = 1
  /\ Fresh.couplings = {} /\ Fresh.domains = FreshSnapshot.domains
  /\ Fresh.devices = FreshSnapshot.devices /\ Fresh.transitions = <<>> /\ Fresh.sequence = 0
  /\ FreshSnapshot.policy = 1 /\ FreshSnapshot.policyGeneration = 1 /\ FreshSnapshot.topology = 1
  /\ FreshSnapshot.couplings = {} /\ FreshSnapshot.transitions = 0
  /\ \A d \in Domains :
       /\ FreshSnapshot.domains[d].generation = 0 /\ FreshSnapshot.evaluations[d] = NotEvaluated
  /\ \A v \in Devices : FreshSnapshot.devices[v].generation = 0
BY DEF Fresh, FreshSnapshot, NotThere

LEMMA CrashInStep == ASSUME InStep, Crash PROVE InStepNext
<1>1. /\ published' = FreshSnapshot /\ stateLock' = Nobody /\ Configured(Fresh)
  BY DEF Crash
<1>2. /\ policy' = 1 /\ policyGeneration' = 1 /\ topology' = 1 /\ couplings' = {}
      /\ domains' = FreshSnapshot.domains /\ devices' = FreshSnapshot.devices
      /\ evaluations' = FreshSnapshot.evaluations
  BY <1>1, FreshValues DEF Configured
<1>3. EvaluationsAreCurrent'
  BY <1>2, FreshValues DEF EvaluationsAreCurrent, Registered
<1>4. Coherent(published')
  BY <1>1, FreshValues DEF Coherent
<1>5. Agrees(published)'
  BY <1>1, <1>2, FreshValues DEF Agrees
<1>6. Locked'
  BY CrashHolds DEF InStep
<1>7. \A u \in Agents : session'[u].stage # "publishing"
  BY <1>1, <1>6, NobodyIsNoAgent DEF Locked, MutationsHoldTheLock
<1>8. SnapshotsAgree'
  BY <1>4, <1>5, <1>7 DEF SnapshotsAgree
<1>9. QED
  BY <1>3, <1>8 DEF InStepNext

LEMMA StartInStep == ASSUME InStep, Start PROVE InStepNext
<1>1. process = "down" /\ stateLock = Nobody /\ published' = published
      /\ \A u \in Agents : session[u].stage = "idle"
  BY DEF Start, InStep, Locked, NothingBeforeServing, Idle
<1>2. Coherent(published')
  BY <1>1 DEF InStep, SnapshotsAgree, Coherent
<1>3. CASE file = Nothing
  <2>1. UNCHANGED <<stateLock, todo, again, policy, policyGeneration, topology, domains, devices,
                    couplings, evaluations, session>>
    BY <1>3 DEF Start, lockVars, memory, configuration, record
  <2>2. Registered' = Registered
    BY <2>1 DEF Registered
  <2>3. EvaluationsAreCurrent'
    BY <2>1, <2>2 DEF InStep, EvaluationsAreCurrent
  <2>4. Agrees(published)'
    BY <1>1, <2>1 DEF InStep, SnapshotsAgree, Agrees
  <2>5. SnapshotsAgree'
    BY <1>1, <1>2, <2>1, <2>4 DEF SnapshotsAgree
  <2>6. QED
    BY <2>3, <2>5 DEF InStepNext
<1>4. CASE file # Nothing
  <2> DEFINE A == {d \in Domains : file.domains[d].generation # 0}
  <2>1. Configured(Restored(file)) /\ Enters(Main, A, {}, FALSE, "idle")
    BY <1>4 DEF Start
  <2>2. domains' = file.domains /\ evaluations' = FreshSnapshot.evaluations
    BY <1>4, <2>1, RestoredIsDurable DEF Configured, InStep, Locked, TypeOK
  <2>3. A = Registered'
    BY <2>2 DEF Registered
  <2> HIDE DEF A
  <2>4. stateLock' = Main /\ todo' = Registered' /\ Main # Nobody
    BY <2>1, <2>3, NobodyIsNoAgent, ThreadsAreAgents DEF Enters
  <2>5. EvaluationsAreCurrent'
    BY <2>2, <2>4, FreshValues DEF EvaluationsAreCurrent
  <2> DEFINE s == [stage |-> "changing", next |-> "idle", carries |-> Nothing]
  <2>6. session' = [session EXCEPT ![Main] = s] /\ s.stage = "changing"
    BY <2>1 DEF Enters
  <2> HIDE DEF s
  <2>7. \A u \in Agents : session'[u].stage # "publishing"
    BY <1>1, <2>6, SessionAfter, ThreadsAreAgents DEF InStep, Locked
  <2>8. SnapshotsAgree'
    BY <1>2, <2>4, <2>7 DEF SnapshotsAgree
  <2>9. QED
    BY <2>5, <2>8 DEF InStepNext
<1>5. QED
  BY <1>3, <1>4

LEMMA InStepInitially == ASSUME Init PROVE InStep
<1>1. Locked
  BY LockedInitially
<1>2. /\ published = FreshSnapshot /\ policy = 1 /\ policyGeneration = 1 /\ topology = 1
      /\ couplings = {} /\ domains = FreshSnapshot.domains /\ devices = FreshSnapshot.devices
      /\ evaluations = FreshSnapshot.evaluations /\ stateLock = Nobody
  BY FreshValues DEF Init
<1>3. EvaluationsAreCurrent
  BY <1>2, FreshValues DEF EvaluationsAreCurrent, Registered
<1>4. Coherent(published) /\ Agrees(published)
  BY <1>2, FreshValues DEF Coherent, Agrees
<1>5. SnapshotsAgree
  BY <1>1, <1>2, <1>4, NobodyPublishes DEF SnapshotsAgree
<1>6. QED
  BY <1>1, <1>3, <1>5 DEF InStep

LEMMA LockedStep == ASSUME Locked, Next PROVE Locked'
<1>1. ASSUME NEW t \in Agents, Recompute(t) \/ Build(t) \/ Swap(t) PROVE Locked'
  BY <1>1, RecomputeHolds, BuildHolds, SwapHolds
<1>2. ASSUME NEW t \in Threads, Changes(t) \/ Talks(t) \/ Judges(t) PROVE Locked'
  BY <1>2, ChangesHold, TalksHold, JudgesHold
<1>3. QED
  BY <1>1, <1>2, StepKinds, CrashHolds, StartHolds DEF Locked

LEMMA InStepKept == ASSUME InStep, Next PROVE InStep'
<1>1. Locked'
  BY LockedStep DEF InStep
<1>2. ASSUME NEW t \in Agents, Recompute(t) \/ Build(t) \/ Swap(t) PROVE InStepNext
  BY <1>2, RecomputeInStep, BuildInStep, SwapInStep
<1>3. ASSUME NEW t \in Threads, Changes(t) \/ Talks(t) \/ Judges(t) PROVE InStepNext
  BY <1>3, ChangesInStep, TalksInStep, JudgesInStep
<1>4. InStepNext
  BY <1>2, <1>3, StepKinds, CrashInStep, StartInStep DEF InStep, Locked
<1>5. QED
  BY <1>1, <1>4 DEF InStep, InStepNext

LEMMA RegisteredStays == ASSUME UNCHANGED vars PROVE Registered' = Registered
BY DEF vars, memory, configuration, Registered

LEMMA InStepStutters == ASSUME InStep, UNCHANGED vars PROVE InStep'
<1>1. Locked'
  <2>1. TypeOK'
    BY TypeOKStep DEF InStep, Locked
  <2>2. MutationsHoldTheLock' /\ NothingBeforeServing'
    BY RegisteredStays DEF InStep, Locked, MutationsHoldTheLock, NothingBeforeServing, vars, lockVars
  <2>3. QED
    BY <2>1, <2>2 DEF Locked
<1>2. EvaluationsAreCurrent'
  BY RegisteredStays
     DEF InStep, EvaluationsAreCurrent, vars, lockVars, memory, configuration, record
<1>3. SnapshotsAgree'
  BY DEF InStep, SnapshotsAgree, Coherent, Agrees, vars, lockVars, memory, configuration, record
<1>4. QED
  BY <1>1, <1>2, <1>3 DEF InStep

LEMMA InStepGives == ASSUME InStep PROVE SnapshotIsSound
<1>1. SnapshotIsCoherent
  BY DEF InStep, SnapshotsAgree, Coherent, SnapshotIsCoherent
<1>2. SnapshotIsCurrent
  BY DEF InStep, SnapshotsAgree, Agrees, SnapshotIsCurrent, Serving
<1>3. QED
  BY <1>1, <1>2 DEF SnapshotIsSound

LEMMA AlwaysInStep == Spec => []InStep
<1>1. Init => InStep
  BY InStepInitially
<1>2. InStep /\ [Next]_vars => InStep'
  BY InStepKept, InStepStutters
<1>3. QED
  BY <1>1, <1>2, PTL DEF Spec

\* A snapshot is of one moment, and when no mutation is under way it is of now: a
\* mutation holds state_mutex until its snapshot is swapped in, and recomputes every
\* domain whose policy or definition it has changed before the snapshot is built.
THEOREM SnapshotAlwaysSound == Spec => []SnapshotIsSound
<1>1. InStep => SnapshotIsSound
  BY InStepGives
<1>2. QED
  BY <1>1, AlwaysInStep, PTL

--------------------------------------------------------------------------------
(* The history *)

LEMMA Elements ==
  ASSUME NEW h \in Seq(Transitions), NEW i \in 1..Len(h)
  PROVE  h[i] \in Transitions /\ h[i].sequence \in Nat /\ h[i].policy \in Nat /\ h[i].run \in Nat
<1>1. h[i] \in Transitions
  BY ElementOfSeq
<1>2. QED
  BY <1>1 DEF Transitions

LEMMA SoundLater ==
  ASSUME NEW h \in Seq(Transitions), NEW last, NEW p \in Nat, NEW q \in Nat, p <= q,
         NEW r \in Nat, NEW n \in Nat, r <= n, Sound(h, last, p, r)
  PROVE  Sound(h, last, q, n)
<1>1. \A i \in 1..Len(h) : h[i].policy <= q /\ h[i].run <= n
  BY Elements DEF Sound, Unbroken
<1>2. Unbroken(h, last, q)
  BY <1>1 DEF Sound, Unbroken
<1>3. QED
  BY <1>1, <1>2 DEF Sound

LEMMA NothingIsSound == ASSUME NEW p, NEW r PROVE Sound(<<>>, 0, p, r)
<1>1. Len(<<>>) = 0 /\ MaxHistory \in Nat
  BY EmptySeq, LimitsAreNumbers
<1>2. QED
  BY <1>1 DEF Sound, Unbroken, Chained

FollowsOn(h, new) ==
  \A i \in 1..Len(h) : LastOf(h, i, new.domain) =>
    new.from = IF h[i].run = new.run THEN h[i].to ELSE "UNKNOWN"

IsGrown(g, h, new, k) ==
  /\ Len(g) - 1 + k = Len(h)
  /\ g \in Seq(Transitions) /\ g[Len(g)] = new
  /\ Len(g) \in 1..MaxHistory /\ Len(h) <= Len(g)
  /\ \A i \in 1..(Len(g) - 1) : g[i] = h[k + i] /\ k + i \in 1..Len(h)

\* Where the records of a history are when one more has been appended.
LEMMA RecordsMove ==
  ASSUME NEW h \in Seq(Transitions), NEW new \in Transitions, Len(h) <= MaxHistory
  PROVE  \E k \in Nat : IsGrown(Append(WithRoom(h), new), h, new, k)
<1> DEFINE w == WithRoom(h)
           g == Append(w, new)
<1>1. /\ w \in Seq(Transitions)
      /\ Len(w) = IF Len(h) < MaxHistory THEN Len(h) ELSE MaxHistory - 1
      /\ \A i \in 1..Len(w) : w[i] = h[Len(h) - Len(w) + i]
  BY RoomIsMade
<1>2. g = Append(w, new)
  OBVIOUS
<1> HIDE DEF w, g
<1>3. /\ g \in Seq(Transitions) /\ Len(g) = Len(w) + 1
      /\ \A i \in 1..Len(w) : g[i] = w[i]
      /\ g[Len(w) + 1] = new
  BY <1>1, <1>2, AppendProperties
<1>4. Len(h) \in Nat /\ Len(w) \in Nat /\ MaxHistory \in Nat \ {0}
  BY <1>1, LenProperties, LimitsAreNumbers
<1>5. Len(w) <= Len(h) /\ Len(g) \in 1..MaxHistory /\ Len(h) <= Len(g)
  <2>1. CASE Len(h) < MaxHistory
    BY <1>1, <1>3, <1>4, <2>1
  <2>2. CASE ~(Len(h) < MaxHistory)
    BY <1>1, <1>3, <1>4, <2>2
  <2>3. QED
    BY <2>1, <2>2
<1>6. Len(g) - 1 = Len(w)
  BY <1>3, <1>4
<1> DEFINE k == Len(h) - Len(w)
<1>7. k \in Nat /\ Len(w) + k = Len(h)
  BY <1>4, <1>5
<1>8. \A i \in 1..Len(w) : g[i] = h[k + i]
  BY <1>1, <1>3
<1> HIDE DEF k
<1>9. \A i \in 1..Len(w) : k + i \in 1..Len(h)
  BY <1>4, <1>7
<1>10. IsGrown(g, h, new, k)
  BY <1>3, <1>5, <1>6, <1>7, <1>8, <1>9 DEF IsGrown
<1>11. QED
  BY <1>7, <1>10 DEF g, w

IsSoundlyGrown(g, next, p, r, h, new) ==
  /\ Sound(g, next, p, r)
  /\ Len(h) <= Len(g)
  /\ \A e \in Domains, i \in 1..Len(g) : LastOf(g, i, e) =>
       IF e = new.domain THEN g[i] = new
       ELSE \E j \in 1..Len(h) : LastOf(h, j, e) /\ g[i] = h[j]

\* A record that follows on the last one of its domain may be appended.
LEMMA SoundGrows ==
  ASSUME NEW h \in Seq(Transitions), NEW last \in Nat, NEW p \in Nat, NEW r \in Nat,
         Sound(h, last, p, r),
         NEW new \in Transitions, NEW next \in Nat, next = last + 1, new.sequence = next,
         new.policy = p, new.run = r,
         FollowsOn(h, new), NEW g, g = Append(WithRoom(h), new)
  PROVE  IsSoundlyGrown(g, next, p, r, h, new)
<1>1. Len(h) \in Nat /\ MaxHistory \in Nat \ {0} /\ Len(h) <= MaxHistory
  BY LenProperties, LimitsAreNumbers DEF Sound, Unbroken
<1>0. PICK k \in Nat : IsGrown(g, h, new, k)
  BY <1>1, RecordsMove
<1>2. /\ Len(g) - 1 + k = Len(h)
      /\ g \in Seq(Transitions) /\ g[Len(g)] = new
      /\ Len(g) \in 1..MaxHistory /\ Len(h) <= Len(g)
      /\ \A i \in 1..(Len(g) - 1) : g[i] = h[k + i] /\ k + i \in 1..Len(h)
  BY <1>0 DEF IsGrown
<1>3. Len(g) \in Nat /\ k \in Nat /\ Len(g) - 1 + k = Len(h) /\ Len(g) <= MaxHistory
      /\ Len(g) >= 1 /\ Len(h) <= Len(g)
  BY <1>1, <1>2
<1>4. \A i \in 1..(Len(g) - 1) : g[i] = h[k + i] /\ k + i \in 1..Len(h)
  BY <1>2
<1>5. \A i \in 1..Len(g) : i = Len(g) \/ i \in 1..(Len(g) - 1)
  BY <1>3
<1>6. Unbroken(g, next, p) /\ \A i \in 1..Len(g) : g[i].run <= r
  <2>1. \A i \in 1..(Len(g) - 1) :
          /\ g[i].sequence = next - Len(g) + i /\ g[i].policy <= p /\ g[i].run <= r
    <3> SUFFICES ASSUME NEW i \in 1..(Len(g) - 1)
                 PROVE  /\ g[i].sequence = next - Len(g) + i
                        /\ g[i].policy <= p /\ g[i].run <= r
      OBVIOUS
    <3>1. g[i] = h[k + i] /\ k + i \in 1..Len(h)
      BY <1>4
    <3>2. h[k + i].sequence = last - Len(h) + (k + i)
          /\ h[k + i].policy <= p /\ h[k + i].run <= r
      BY <3>1 DEF Sound, Unbroken
    <3>3. last - Len(h) + (k + i) = next - Len(g) + i
      BY <1>1, <1>3
    <3>4. QED
      BY <3>1, <3>2, <3>3
  <2>2. \A i \in 1..Len(g) :
          /\ g[i].sequence = next - Len(g) + i /\ g[i].policy <= p /\ g[i].run <= r
    BY <1>2, <1>3, <1>5, <2>1
  <2>3. \A i \in 1..Len(g) : i > 1 => g[i - 1].policy <= g[i].policy /\ g[i - 1].run <= g[i].run
    <3> SUFFICES ASSUME NEW i \in 1..Len(g), i > 1
                 PROVE  g[i - 1].policy <= g[i].policy /\ g[i - 1].run <= g[i].run
      OBVIOUS
    <3>1. i - 1 \in 1..(Len(g) - 1) /\ i - 1 \in 1..Len(g)
      BY <1>3
    <3>2. CASE i = Len(g)
      BY <1>2, <2>2, <3>1, <3>2
    <3>3. CASE i \in 1..(Len(g) - 1)
      <4>1. g[i] = h[k + i] /\ g[i - 1] = h[k + (i - 1)] /\ k + i \in 1..Len(h)
        BY <1>4, <3>1, <3>3
      <4>2. k + (i - 1) = (k + i) - 1 /\ k + i > 1
        BY <1>3, <3>3, <3>1
      <4>3. QED
        BY <4>1, <4>2 DEF Sound, Unbroken
    <3>4. QED
      BY <1>5, <3>2, <3>3
  <2>4. g # <<>>
    BY <1>3, EmptySeq
  <2>5. QED
    BY <1>3, <2>2, <2>3, <2>4 DEF Unbroken
<1>7. ASSUME NEW i \in 1..(Len(g) - 1), NEW e, LastOf(g, i, e)
      PROVE  LastOf(h, k + i, e) /\ new.domain # e
  <2>1. h[k + i].domain = e
    BY <1>4, <1>7 DEF LastOf
  <2>2. ASSUME NEW j \in (k + i + 1)..Len(h) PROVE h[j].domain # e
    <3>1. j - k \in (i + 1)..Len(g) /\ j - k \in 1..(Len(g) - 1) /\ k + (j - k) = j
      BY <1>1, <1>3
    <3>2. g[j - k] = h[j]
      BY <1>4, <3>1
    <3>3. QED
      BY <1>7, <3>1, <3>2 DEF LastOf
  <2>3. Len(g) \in (i + 1)..Len(g)
    BY <1>3
  <2>4. QED
    BY <1>2, <1>7, <2>1, <2>2, <2>3 DEF LastOf
<1>8. Chained(g)
  <2> SUFFICES ASSUME NEW i \in 1..Len(g), NEW j \in 1..Len(g), FollowsInDomain(g, i, j)
               PROVE  g[j].from = IF g[i].run = g[j].run THEN g[i].to ELSE "UNKNOWN"
    BY DEF Chained
  <2>1. i < j /\ i \in 1..(Len(g) - 1) /\ g[i].domain = g[j].domain
        /\ \A m \in (i + 1)..(j - 1) : g[m].domain # g[i].domain
    <3>1. i < j /\ g[i].domain = g[j].domain
          /\ \A m \in (i + 1)..(j - 1) : g[m].domain # g[i].domain
      BY Zenon DEF FollowsInDomain
    <3>2. i \in 1..(Len(g) - 1)
      BY <1>3, <3>1
    <3>3. QED
      BY <3>1, <3>2
  <2>2. CASE j = Len(g)
    <3> DEFINE e == new.domain
    <3>1. g[i] = h[k + i] /\ k + i \in 1..Len(h) /\ g[j] = new
      BY <1>2, <1>4, <2>1, <2>2
    <3>2. h[k + i].domain = e
      BY <2>1, <3>1
    <3>3. ASSUME NEW m \in (k + i + 1)..Len(h) PROVE h[m].domain # e
      <4>1. m - k \in (i + 1)..(j - 1) /\ m - k \in 1..(Len(g) - 1) /\ k + (m - k) = m
        BY <1>1, <1>3, <2>1, <2>2
      <4>2. g[m - k] = h[m]
        BY <1>4, <4>1
      <4>3. QED
        BY <2>1, <3>1, <3>2, <4>1, <4>2
    <3>4. LastOf(h, k + i, e)
      BY <3>2, <3>3 DEF LastOf
    <3>5. QED
      BY <3>1, <3>4 DEF FollowsOn
  <2>3. CASE j \in 1..(Len(g) - 1)
    <3>1. g[i] = h[k + i] /\ k + i \in 1..Len(h) /\ g[j] = h[k + j] /\ k + j \in 1..Len(h)
      BY <1>4, <2>1, <2>3
    <3>2. ASSUME NEW m \in (k + i + 1)..(k + j - 1) PROVE h[m].domain # h[k + i].domain
      <4>1. m - k \in (i + 1)..(j - 1) /\ m - k \in 1..(Len(g) - 1) /\ k + (m - k) = m
        BY <1>1, <1>3, <2>1, <2>3
      <4>2. g[m - k] = h[m]
        BY <1>4, <4>1
      <4>3. QED
        BY <2>1, <3>1, <4>1, <4>2
    <3>3. k + i < k + j
      BY <1>3, <2>1
    <3>4. h[k + i].domain = h[k + j].domain
      BY <2>1, <3>1
    <3> DEFINE a == k + i  b == k + j
    <3>7. a < b /\ h[a].domain = h[b].domain
      BY <3>3, <3>4
    <3>9. \A m \in (a + 1)..(b - 1) : h[m].domain # h[a].domain
      BY <3>2
    <3> HIDE DEF a, b
    <3>8. FollowsInDomain(h, a, b)
      BY <3>7, <3>9 DEF FollowsInDomain
    <3>5. FollowsInDomain(h, k + i, k + j)
      BY <3>8 DEF a, b
    <3>6. QED
      BY <3>1, <3>5 DEF Sound, Chained
  <2>4. QED
    BY <1>5, <2>2, <2>3
<1>9. \A e \in Domains, i \in 1..Len(g) : LastOf(g, i, e) =>
        IF e = new.domain THEN g[i] = new
        ELSE \E j \in 1..Len(h) : LastOf(h, j, e) /\ g[i] = h[j]
  <2> SUFFICES ASSUME NEW e \in Domains, NEW i \in 1..Len(g), LastOf(g, i, e)
               PROVE  IF e = new.domain THEN g[i] = new
                      ELSE \E j \in 1..Len(h) : LastOf(h, j, e) /\ g[i] = h[j]
    OBVIOUS
  <2>1. CASE i = Len(g)
    BY <1>2, <2>1 DEF LastOf
  <2>2. CASE i \in 1..(Len(g) - 1)
    BY <1>4, <1>7, <2>2
  <2>3. QED
    BY <1>5, <2>1, <2>2
<1>10. QED
  BY <1>3, <1>6, <1>8, <1>9 DEF Sound, IsSoundlyGrown

LEMMA RecordsFollowOn ==
  ASSUME TypeOK, MemoryIsSound, NEW d \in Domains, NEW new \in Evaluations
  PROVE  FollowsOn(transitions, Transition(d, evaluations[d], new))
<1> DEFINE old == evaluations[d]  entry == Transition(d, old, new)
<1>1. entry.domain = d /\ entry.from = old.state /\ entry.run = run
  BY DEF Transition
<1> HIDE DEF entry
<1>2. ASSUME NEW i \in 1..Len(transitions), LastOf(transitions, i, d)
      PROVE  old.state = IF transitions[i].run = run THEN transitions[i].to ELSE "UNKNOWN"
  <2>1. Tells(transitions[i], old, run)
    BY <1>2 DEF MemoryIsSound
  <2>2. transitions[i].run \in Nat /\ run \in Nat
    BY Elements DEF TypeOK
  <2>3. CASE old = NotEvaluated
    <3>1. transitions[i].run < run
      BY <2>1, <2>3 DEF Tells
    <3>2. transitions[i].run # run
      BY <2>2, <3>1
    <3>3. old.state = "UNKNOWN"
      BY <2>3 DEF NotEvaluated
    <3>4. QED
      BY <3>2, <3>3
  <2>4. CASE old # NotEvaluated
    BY <2>1, <2>4 DEF Tells
  <2>5. QED
    BY <2>3, <2>4
<1>3. FollowsOn(transitions, entry)
  BY <1>1, <1>2 DEF FollowsOn
<1>4. QED
  BY <1>3 DEF entry

LEMMA RecordsKeepMemory ==
  ASSUME TypeOK, MemoryIsSound, NEW d \in Registered, NEW verdict \in Verdicts,
         Records(d, Evaluation(d, verdict)), UNCHANGED <<run, policyGeneration>>
  PROVE  MemoryIsSound' /\ Len(transitions) <= Len(transitions')
<1> DEFINE old == evaluations[d]  new == Evaluation(d, verdict)
           entry == Transition(d, old, new)
<1>0. d \in Domains
  BY DEF Registered
<1>1. /\ new \in Evaluations /\ RecordOK'
      /\ evaluations'[d] = new /\ new # NotEvaluated
      /\ \A e \in Domains \ {d} : evaluations'[e] = evaluations[e]
  BY <1>0, RecordTypes, RecordsWrites
<1>2. /\ transitions \in Seq(Transitions) /\ sequence \in Nat /\ policyGeneration \in Nat
      /\ run \in Nat /\ old \in Evaluations
  BY <1>0 DEF TypeOK
<1>3. Sound(transitions, sequence, policyGeneration, run)
  BY DEF MemoryIsSound
<1>4. IF Changed(old, new)
      THEN transitions' = Append(WithRoom(transitions), entry) /\ sequence' = sequence + 1
      ELSE UNCHANGED <<transitions, sequence>>
  BY DEF Records
<1>5. CASE Changed(old, new)
  <2>1. transitions' = Append(WithRoom(transitions), entry) /\ sequence' = sequence + 1
    BY <1>4, <1>5
  <2>2. /\ entry.sequence = sequence + 1 /\ entry.policy = policyGeneration
        /\ entry.run = run /\ entry.domain = d
        /\ entry.to = new.state /\ entry.decision = new.decision
    BY DEF Transition
  <2>3. entry \in Transitions
    BY <1>0, <1>1, <1>2 DEF Transition, Transitions, Evaluations
  <2>4. FollowsOn(transitions, entry)
    BY <1>0, <1>1, RecordsFollowOn
  <2> HIDE DEF old, new, entry
  <2>5. sequence' \in Nat
    BY <1>2, <2>1
  <2>6. /\ Sound(transitions', sequence', policyGeneration, run)
        /\ Len(transitions) <= Len(transitions')
        /\ \A e \in Domains, i \in 1..Len(transitions') : LastOf(transitions', i, e) =>
             IF e = entry.domain THEN transitions'[i] = entry
             ELSE \E j \in 1..Len(transitions) :
                    LastOf(transitions, j, e) /\ transitions'[i] = transitions[j]
    <3>1. IsSoundlyGrown(transitions', sequence', policyGeneration, run, transitions, entry)
      BY <1>2, <1>3, <2>1, <2>2, <2>3, <2>4, <2>5, SoundGrows
    <3>2. QED
      BY <3>1 DEF IsSoundlyGrown
  <2>7. ASSUME NEW e \in Domains, NEW i \in 1..Len(transitions'), LastOf(transitions', i, e)
        PROVE  Tells(transitions'[i], evaluations'[e], run)
    <3>1. CASE e = d
      <4>1. transitions'[i] = entry
        BY <2>2, <2>6, <2>7, <3>1
      <4>2. QED
        BY <1>1, <2>2, <3>1, <4>1 DEF Tells
    <3>2. CASE e # d
      <4>1. PICK j \in 1..Len(transitions) :
              LastOf(transitions, j, e) /\ transitions'[i] = transitions[j]
        BY <2>2, <2>6, <2>7, <3>2
      <4>2. Tells(transitions[j], evaluations[e], run)
        BY <4>1 DEF MemoryIsSound
      <4>3. evaluations'[e] = evaluations[e]
        BY <1>1, <3>2
      <4>4. QED
        BY <4>1, <4>2, <4>3
    <3>3. QED
      BY <3>1, <3>2
  <2>8. QED
    BY <2>6, <2>7 DEF MemoryIsSound
<1>6. CASE ~Changed(old, new)
  <2>1. UNCHANGED <<transitions, sequence>>
    BY <1>4, <1>6
  <2>2. old # NotEvaluated /\ old.state = new.state /\ old.decision = new.decision
    BY <1>6 DEF Changed
  <2> HIDE DEF new
  <2>3. ASSUME NEW e \in Domains, NEW i \in 1..Len(transitions), LastOf(transitions, i, e)
        PROVE  Tells(transitions[i], evaluations'[e], run)
    <3>1. Tells(transitions[i], evaluations[e], run)
      BY <2>3 DEF MemoryIsSound
    <3>2. CASE e = d
      BY <1>1, <2>2, <3>1, <3>2 DEF Tells
    <3>3. CASE e # d
      BY <1>1, <3>1, <3>3
    <3>4. QED
      BY <3>2, <3>3
  <2>4. Len(transitions) <= Len(transitions')
    BY <1>2, <2>1, LenProperties
  <2>5. QED
    BY <1>3, <2>1, <2>3, <2>4 DEF MemoryIsSound
<1>7. QED
  BY <1>5, <1>6

Faithful == InStep /\ HistoriesAreSound

\* A step that begins no save keeps what is saved and what is being saved.
LEMMA SavedKept ==
  ASSUME HistoriesAreSound, UNCHANGED <<file, run>>, MemoryIsSound', process' # "down",
         \A u \in Agents : session'[u].stage = "saving" => session'[u] = session[u]
  PROVE  HistoriesAreSound'
BY DEF HistoriesAreSound, SoundDurable

LEMMA MemoryUntouched ==
  ASSUME TypeOK, MemoryIsSound, UNCHANGED <<record, run>>,
         policyGeneration <= policyGeneration', policyGeneration' \in Nat
  PROVE  MemoryIsSound'
<1>1. Sound(transitions, sequence, policyGeneration', run)
  BY SoundLater DEF TypeOK, MemoryIsSound
<1>2. QED
  BY <1>1 DEF MemoryIsSound, record

LEMMA WorkingIsUp ==
  ASSUME Locked, stateLock # Nobody \/ process = "serving"
  PROVE  process # "down"
BY DEF Locked, NothingBeforeServing

LEMMA RecomputeFaithful == ASSUME Faithful, NEW t \in Agents, Recompute(t) PROVE HistoriesAreSound'
<1>1. PICK d \in todo, verdict \in Verdicts : d \in Domains /\ Records(d, Evaluation(d, verdict))
  BY RecomputeLeaves DEF Faithful, InStep, Locked
<1>2. UNCHANGED <<process, policyGeneration, session, file, run>> /\ stateLock # Nobody
  BY NobodyIsNoAgent DEF Recompute, configuration
<1>3. d \in Registered
  BY <1>1 DEF Faithful, InStep, Locked, MutationsHoldTheLock
<1>4. MemoryIsSound'
  BY <1>1, <1>2, <1>3, RecordsKeepMemory DEF Faithful, InStep, Locked, HistoriesAreSound
<1>5. QED
  BY <1>2, <1>4, SavedKept, WorkingIsUp DEF Faithful, InStep

LEMMA JudgesFaithful == ASSUME Faithful, NEW t \in Threads, Judges(t) PROVE HistoriesAreSound'
<1>1. PICK d \in Registered, verdict \in Verdicts : Records(d, Evaluation(d, verdict))
  BY DEF Judges
<1>2. UNCHANGED <<process, policyGeneration, file, run>> /\ process = "serving"
  BY DEF Judges, Begins, configuration
<1>3. MemoryIsSound'
  BY <1>1, <1>2, RecordsKeepMemory DEF Faithful, InStep, Locked, HistoriesAreSound
<1> DEFINE s == [stage |-> "evaluated", next |-> "idle",
                 carries |-> [evaluatedUnder |-> policy, printed |-> 0]]
<1>4. (session' = session \/ session' = [session EXCEPT ![t] = s]) /\ s.stage # "saving"
  BY DEF Judges
<1> HIDE DEF s
<1>5. \A u \in Agents : session'[u].stage = "saving" => session'[u] = session[u]
  BY <1>4, SessionAfter, ThreadsAreAgents DEF Faithful, InStep, Locked
<1>6. QED
  BY <1>2, <1>3, <1>5, SavedKept DEF Faithful

LEMMA BuildFaithful == ASSUME Faithful, NEW t \in Agents, Build(t) PROVE HistoriesAreSound'
<1>1. UNCHANGED <<process, policyGeneration, record, file, run>> /\ stateLock # Nobody
  BY NobodyIsNoAgent DEF Build
<1>2. MemoryIsSound'
  BY <1>1, MemoryUntouched, NoGenerationGoesBack
     DEF Faithful, InStep, Locked, HistoriesAreSound
<1> DEFINE s == [stage |-> "publishing", next |-> session[t].next,
                 carries |-> [Snapshot EXCEPT !.topology = topology']]
<1>3. session' = [session EXCEPT ![t] = s] /\ s.stage # "saving"
  BY DEF Build
<1> HIDE DEF s
<1>4. \A u \in Agents : session'[u].stage = "saving" => session'[u] = session[u]
  BY <1>3, SessionAfter DEF Faithful, InStep, Locked
<1>5. QED
  BY <1>1, <1>2, <1>4, SavedKept, WorkingIsUp DEF Faithful, InStep

LEMMA SwapFaithful == ASSUME Faithful, NEW t \in Agents, Swap(t) PROVE HistoriesAreSound'
<1>1. UNCHANGED <<policyGeneration, record, file, run>>
  BY DEF Swap, memory, configuration
<1>2. MemoryIsSound'
  BY <1>1, MemoryUntouched, NoGenerationGoesBack
     DEF Faithful, InStep, Locked, HistoriesAreSound
<1>3. process' # "down"
  <2>1. stateLock # Nobody
    BY NobodyIsNoAgent DEF Swap, Faithful, InStep, Locked, MutationsHoldTheLock
  <2>2. process' = process \/ process' = "serving"
    BY DEF Swap
  <2>3. QED
    BY <2>1, <2>2, WorkingIsUp DEF Faithful, InStep
<1> DEFINE s == [Idle EXCEPT !.stage = session[t].next]
<1>4. session' = [session EXCEPT ![t] = s] /\ s.stage # "saving"
  BY SessionsAreTyped DEF Swap, Idle, Faithful, InStep, Locked
<1> HIDE DEF s
<1>5. \A u \in Agents : session'[u].stage = "saving" => session'[u] = session[u]
  BY <1>4, SessionAfter DEF Faithful, InStep, Locked
<1>6. QED
  BY <1>1, <1>2, <1>3, <1>5, SavedKept DEF Faithful

LEMMA ChangesFaithful == ASSUME Faithful, NEW t \in Threads, Changes(t) PROVE HistoriesAreSound'
<1>1. UNCHANGED <<process, record, file, run>> /\ policyGeneration <= policyGeneration'
      /\ policyGeneration' \in Nat
  BY DEF Changes, ConfigurationOK
<1>2. MemoryIsSound'
  BY <1>1, MemoryUntouched DEF Faithful, InStep, Locked, HistoriesAreSound
<1>3. PICK A \in SUBSET Domains, N \in SUBSET Domains, advances \in BOOLEAN,
           next \in {"idle", "changed"} : Enters(t, A, N, advances, next)
  BY DEF Changes
<1>4. process' # "down"
  <2>1. Locked'
    BY ChangesHold DEF Faithful, InStep
  <2>2. stateLock' # Nobody
    BY <1>3, NobodyIsNoAgent, ThreadsAreAgents DEF Enters
  <2>3. QED
    BY <2>1, <2>2 DEF Locked, NothingBeforeServing
<1> DEFINE s == [stage |-> "changing", next |-> next, carries |-> Nothing]
<1>5. session' = [session EXCEPT ![t] = s] /\ s.stage # "saving"
  BY <1>3 DEF Enters
<1> HIDE DEF s
<1>6. \A u \in Agents : session'[u].stage = "saving" => session'[u] = session[u]
  BY <1>5, SessionAfter, ThreadsAreAgents DEF Faithful, InStep, Locked
<1>7. QED
  BY <1>1, <1>2, <1>4, <1>6, SavedKept DEF Faithful

LEMMA TalksFaithful == ASSUME Faithful, NEW t \in Threads, Talks(t) PROVE HistoriesAreSound'
<1>1. UNCHANGED <<process, transitions, sequence, policyGeneration, evaluations, run>>
  BY DEF Talks, memory, configuration, record
<1>2. MemoryIsSound' /\ (process' = "down" => transitions' = <<>>)
  BY <1>1 DEF Faithful, HistoriesAreSound, MemoryIsSound
<1>3. SoundDurable(Durable)
  BY DEF Faithful, HistoriesAreSound, MemoryIsSound, SoundDurable, Durable
<1>4. PICK s : session' = [session EXCEPT ![t] = s] /\ (s.stage = "saving" => s.carries = Durable)
  BY DEF Talks
<1>5. session'[t] = s /\ \A u \in Agents \ {t} : session'[u] = session[u]
  BY <1>4, SessionAfter, ThreadsAreAgents DEF Faithful, InStep, Locked
<1>6. ASSUME NEW u \in Agents, session'[u].stage = "saving"
      PROVE  SoundDurable(session[u].carries)'
  <2>1. SoundDurable(session'[u].carries)
    BY <1>3, <1>4, <1>5, <1>6 DEF Faithful, HistoriesAreSound
  <2>2. QED
    BY <1>1, <2>1 DEF SoundDurable
<1>7. file' # Nothing => SoundDurable(file)'
  <2>1. file' = file \/ (session[t].stage = "saving" /\ file' = session[t].carries)
    BY DEF Talks
  <2>2. file' # Nothing => SoundDurable(file')
    BY <2>1, ThreadsAreAgents DEF Faithful, HistoriesAreSound
  <2>3. QED
    BY <1>1, <2>2 DEF SoundDurable
<1>8. QED
  BY <1>2, <1>6, <1>7 DEF HistoriesAreSound

LEMMA EmptyMemoryIsSound ==
  ASSUME transitions' = <<>>, Sound(<<>>, sequence', policyGeneration', run')
  PROVE  MemoryIsSound'
<1>1. Len(<<>>) = 0
  BY EmptySeq
<1>2. QED
  BY <1>1 DEF MemoryIsSound

LEMMA CrashFaithful == ASSUME Faithful, Crash PROVE HistoriesAreSound'
<1>1. UNCHANGED <<file, run>> /\ session' = [u \in Agents |-> Idle] /\ Configured(Fresh)
  BY DEF Crash
<1>2. transitions' = <<>> /\ sequence' = 0
  BY <1>1, FreshValues DEF Configured
<1>3. MemoryIsSound'
  BY <1>2, NothingIsSound, EmptyMemoryIsSound
<1>4. \A u \in Agents : session'[u].stage # "saving"
  BY <1>1 DEF Idle
<1>5. file' # Nothing => SoundDurable(file)'
  BY <1>1 DEF Faithful, HistoriesAreSound, SoundDurable
<1>6. QED
  BY <1>2, <1>3, <1>4, <1>5 DEF HistoriesAreSound

LEMMA StartFaithful == ASSUME Faithful, Start PROVE HistoriesAreSound'
<1>1. /\ process = "down" /\ transitions = <<>> /\ run' = run + 1 /\ file' = file
      /\ \A u \in Agents : session[u].stage = "idle"
  BY DEF Start, Faithful, InStep, Locked, NothingBeforeServing, HistoriesAreSound, Idle
<1>2. run \in Nat /\ run' \in Nat /\ run <= run' /\ policyGeneration \in Nat
  BY <1>1 DEF Faithful, InStep, Locked, TypeOK
<1>3. file # Nothing =>
        /\ file.transitions \in Seq(Transitions) /\ file.policyGeneration \in Nat
        /\ Sound(file.transitions, file.sequence, file.policyGeneration, run)
  BY DEF Faithful, InStep, Locked, TypeOK, DurableStates, HistoriesAreSound, SoundDurable
<1>4. file' # Nothing => SoundDurable(file)'
  <2>1. file # Nothing => Sound(file.transitions, file.sequence, file.policyGeneration, run')
    BY <1>2, <1>3, SoundLater
  <2>2. QED
    BY <1>1, <2>1 DEF SoundDurable
<1>5. CASE file = Nothing
  <2>1. /\ UNCHANGED <<transitions, sequence, policyGeneration, session>> /\ process' = "serving"
    BY <1>5 DEF Start, memory, configuration, record
  <2>2. <<>> \in Seq(Transitions) /\ policyGeneration <= policyGeneration
    BY <1>2, EmptySeq
  <2>3. Sound(<<>>, sequence, policyGeneration, run)
    BY <1>1 DEF Faithful, HistoriesAreSound, MemoryIsSound
  <2>4. Sound(<<>>, sequence, policyGeneration, run')
    BY <1>2, <2>2, <2>3, SoundLater
  <2>5. MemoryIsSound'
    BY <1>1, <2>1, <2>4, EmptyMemoryIsSound
  <2>6. QED
    BY <1>1, <1>4, <2>1, <2>5 DEF HistoriesAreSound
<1>6. CASE file # Nothing
  <2> DEFINE A == {d \in Domains : file.domains[d].generation # 0}
             s == [stage |-> "changing", next |-> "idle", carries |-> Nothing]
  <2>1. /\ process' = "loading" /\ Configured(Restored(file))
        /\ session' = [session EXCEPT ![Main] = s] /\ s.stage # "saving"
    BY <1>6 DEF Start, Enters
  <2> HIDE DEF s
  <2>2. \A u \in Agents : session'[u].stage # "saving"
    BY <1>1, <2>1, SessionAfter, ThreadsAreAgents DEF Faithful, InStep, Locked
  <2>3. file \in DurableStates
    BY <1>6 DEF Faithful, InStep, Locked, TypeOK
  <2>4. /\ transitions' = file.transitions /\ sequence' = file.sequence
        /\ policyGeneration' = Larger(1, file.policyGeneration)
        /\ evaluations' = FreshSnapshot.evaluations
    BY <2>1, <2>3, RestoredIsDurable DEF Configured
  <2>5. policyGeneration' \in Nat /\ file.policyGeneration <= policyGeneration'
    BY <1>3, <1>6, <2>4 DEF Larger
  <2>6. Sound(transitions', sequence', policyGeneration', run')
    BY <1>2, <1>3, <1>6, <2>4, <2>5, SoundLater
  <2>7. ASSUME NEW d \in Domains, NEW i \in 1..Len(transitions')
        PROVE  Tells(transitions'[i], evaluations'[d], run')
    <3>1. transitions'[i].run \in Nat /\ transitions'[i].run <= run
      BY <1>3, <1>6, <2>4, Elements DEF Sound
    <3>2. transitions'[i].run < run'
      BY <1>1, <1>2, <3>1
    <3>3. evaluations'[d] = NotEvaluated
      BY <2>4, FreshValues
    <3>4. QED
      BY <3>2, <3>3 DEF Tells
  <2>8. MemoryIsSound'
    BY <2>6, <2>7 DEF MemoryIsSound
  <2>9. QED
    BY <1>4, <2>1, <2>2, <2>8 DEF HistoriesAreSound
<1>7. QED
  BY <1>5, <1>6

LEMMA FaithfulInitially == ASSUME Init PROVE Faithful
<1>1. InStep
  BY InStepInitially
<1>2. /\ transitions = <<>> /\ sequence = 0 /\ file = Nothing
      /\ \A u \in Agents : session[u].stage # "saving"
  BY DEF Init, Idle
<1>3. Len(<<>>) = 0
  BY EmptySeq
<1>4. MemoryIsSound
  BY <1>2, <1>3, NothingIsSound DEF MemoryIsSound
<1>5. QED
  BY <1>1, <1>2, <1>4 DEF Faithful, HistoriesAreSound

LEMMA FaithfulKept == ASSUME Faithful, Next PROVE Faithful'
<1>1. InStep'
  BY InStepKept DEF Faithful
<1>2. ASSUME NEW t \in Agents, Recompute(t) \/ Build(t) \/ Swap(t) PROVE HistoriesAreSound'
  BY <1>2, RecomputeFaithful, BuildFaithful, SwapFaithful
<1>3. ASSUME NEW t \in Threads, Changes(t) \/ Talks(t) \/ Judges(t) PROVE HistoriesAreSound'
  BY <1>3, ChangesFaithful, TalksFaithful, JudgesFaithful
<1>4. HistoriesAreSound'
  BY <1>2, <1>3, StepKinds, CrashFaithful, StartFaithful DEF Faithful, InStep, Locked
<1>5. QED
  BY <1>1, <1>4 DEF Faithful

LEMMA FaithfulStutters == ASSUME Faithful, UNCHANGED vars PROVE Faithful'
<1>1. InStep'
  BY InStepStutters DEF Faithful
<1>2. UNCHANGED <<process, session, file, run, transitions, sequence, policyGeneration, evaluations>>
  BY DEF vars, memory, configuration, record
<1>3. HistoriesAreSound'
  BY <1>2 DEF Faithful, HistoriesAreSound, MemoryIsSound, SoundDurable
<1>4. QED
  BY <1>1, <1>3 DEF Faithful

LEMMA FaithfulGives == ASSUME Faithful PROVE HistoryIsFaithful
<1>1. MemoryIsSound /\ (file # Nothing => SoundDurable(file))
  BY DEF Faithful, HistoriesAreSound
<1>2. HistoryIsUnbroken
  BY <1>1 DEF HistoryIsUnbroken, MemoryIsSound, SoundDurable, Sound
<1>3. HistoryIsChained
  BY <1>1 DEF HistoryIsChained, MemoryIsSound, Sound, Chained
<1>4. HistoryTellsTheState
  BY <1>1 DEF HistoryTellsTheState, MemoryIsSound, LastOf, Tells
<1>5. QED
  BY <1>2, <1>3, <1>4 DEF HistoryIsFaithful

LEMMA AlwaysFaithful == Spec => []Faithful
<1>1. Init => Faithful
  BY FaithfulInitially
<1>2. Faithful /\ [Next]_vars => Faithful'
  BY FaithfulKept, FaithfulStutters
<1>3. QED
  BY <1>1, <1>2, PTL DEF Spec

\* The history has no gap, its records chain by domain, and the last one of a domain
\* tells its verdict, in memory and across saves, crashes and starts, for any limit.
THEOREM HistoryAlwaysFaithful == Spec => []HistoryIsFaithful
<1>1. Faithful => HistoryIsFaithful
  BY FaithfulGives
<1>2. QED
  BY <1>1, AlwaysFaithful, PTL

--------------------------------------------------------------------------------
(* Readers *)

Trailing == Faithful /\ ReadersAreBehind

\* While the process is up, nothing goes back.
Forward ==
  /\ policy <= policy' /\ policyGeneration <= policyGeneration' /\ topology <= topology'
  /\ Len(transitions) <= Len(transitions')
  /\ \A d \in Domains : Reaches(domains[d], domains'[d])
  /\ \A v \in Devices : devices[v].generation <= devices'[v].generation

LEMMA Numbers ==
  ASSUME TypeOK
  PROVE  /\ policy \in Nat /\ policyGeneration \in Nat /\ topology \in Nat
         /\ Len(transitions) \in Nat
         /\ \A d \in Domains : domains[d] \in Definitions /\ domains[d].generation \in Nat
         /\ \A v \in Devices : devices[v].generation \in Nat
         /\ published.policyGeneration \in Nat /\ published.topology \in Nat
         /\ published.transitions \in Nat
         /\ \A d \in Domains : published.domains[d] \in Definitions
                               /\ published.domains[d].generation \in Nat
         /\ \A v \in Devices : published.devices[v].generation \in Nat
<1>1. /\ policy \in Nat /\ policyGeneration \in Nat /\ topology \in Nat
      /\ transitions \in Seq(Transitions)
      /\ domains \in [Domains -> Definitions] /\ devices \in [Devices -> Definitions]
      /\ published \in Snapshots
  BY DEF TypeOK
<1>2. Len(transitions) \in Nat
  BY <1>1, LenProperties
<1>3. /\ published.policyGeneration \in Nat /\ published.topology \in Nat
      /\ published.transitions \in Nat
      /\ published.domains \in [Domains -> Definitions]
      /\ published.devices \in [Devices -> Definitions]
  BY <1>1 DEF Snapshots
<1>4. \A definition \in Definitions : definition.generation \in Nat
  BY DEF Definitions
<1>5. QED
  BY <1>1, <1>2, <1>3, <1>4

LEMMA ReachesOn ==
  ASSUME NEW a \in Definitions, NEW b \in Definitions, NEW c \in Definitions,
         Reaches(a, b), Reaches(b, c)
  PROVE  Reaches(a, c)
BY DEF Reaches, Definitions

LEMMA ReachesItself == ASSUME NEW a \in Definitions PROVE Reaches(a, a)
BY DEF Reaches, Definitions

LEMMA PublishedStaysBehind ==
  ASSUME TypeOK, TypeOK', Forward, published' = published,
         Behind(published, policyGeneration, topology, Len(transitions), domains, devices)
  PROVE  Behind(published', policyGeneration', topology', Len(transitions'), domains', devices')
<1>1. \A d \in Domains : /\ published.domains[d] \in Definitions /\ domains[d] \in Definitions
                         /\ domains'[d] \in Definitions
  BY Numbers DEF TypeOK
<1>2. \A d \in Domains : Reaches(published.domains[d], domains'[d])
  BY <1>1, ReachesOn DEF Behind, Forward
<1>3. Len(transitions') \in Nat /\ policyGeneration' \in Nat /\ topology' \in Nat
      /\ \A v \in Devices : devices'[v].generation \in Nat
  BY LenProperties DEF TypeOK, Definitions
<1>4. QED
  BY <1>2, <1>3, Numbers DEF Behind, Forward

LEMMA SessionStaysBehind ==
  ASSUME TypeOK, TypeOK', Forward, NEW u \in Agents, session'[u] = session[u],
         CopyIsBehind(session[u], domains), ReadingIsBehind(session[u], policy)
  PROVE  CopyIsBehind(session'[u], domains') /\ ReadingIsBehind(session'[u], policy')
<1>1. CopyIsBehind(session'[u], domains')
  <2> SUFFICES ASSUME session[u].stage = "copied domain"
               PROVE  Reaches(session[u].carries.copy, domains'[session[u].carries.id])
    BY DEF CopyIsBehind
  <2>1. session[u].carries \in Copies(Domains)
    BY SessionsAreTyped, WhatIsCarried
  <2> DEFINE d == session[u].carries.id  copy == session[u].carries.copy
  <2>2. d \in Domains /\ copy \in Definitions
    BY <2>1 DEF Copies
  <2>3. Reaches(copy, domains[d])
    BY DEF CopyIsBehind
  <2> HIDE DEF d, copy
  <2>4. domains[d] \in Definitions /\ domains'[d] \in Definitions /\ Reaches(domains[d], domains'[d])
    BY <2>2 DEF TypeOK, Forward
  <2>5. Reaches(copy, domains'[d])
    BY <2>2, <2>3, <2>4, ReachesOn
  <2>6. QED
    BY <2>5 DEF d, copy
<1>2. ReadingIsBehind(session'[u], policy')
  <2>1. CASE session[u].stage \in {"evaluated", "enveloped"}
    <3>1. session[u].carries \in Underlying
      BY <2>1, SessionsAreTyped, WhatIsCarried
    <3>2. session[u].carries.evaluatedUnder \in Nat
      BY <3>1 DEF Underlying
    <3>3. session[u].carries.evaluatedUnder <= policy
      BY <2>1 DEF ReadingIsBehind
    <3>4. policy \in Nat /\ policy' \in Nat /\ policy <= policy'
      BY DEF TypeOK, Forward
    <3>5. session'[u].carries.evaluatedUnder <= policy'
      BY <3>2, <3>3, <3>4
    <3>6. session'[u].stage # "explained"
      BY <2>1
    <3>7. QED
      BY <3>5, <3>6 DEF ReadingIsBehind
  <2>2. CASE session[u].stage \notin {"evaluated", "enveloped"}
    BY <2>2 DEF ReadingIsBehind
  <2>3. QED
    BY <2>1, <2>2
<1>3. QED
  BY <1>1, <1>2

\* A step of one thread, while the process is up and nothing is published.
LEMMA OneReaderMoves ==
  ASSUME Trailing, TypeOK', Forward, UNCHANGED <<process, published>>,
         NEW t \in Agents, \A u \in Agents \ {t} : session'[u] = session[u],
         CopyIsBehind(session'[t], domains'), ReadingIsBehind(session'[t], policy')
  PROVE  ReadersAreBehind'
<1>1. TypeOK
  BY DEF Trailing, Faithful, InStep, Locked
<1>2. \A u \in Agents : CopyIsBehind(session'[u], domains') /\ ReadingIsBehind(session'[u], policy')
  BY <1>1, SessionStaysBehind DEF Trailing, ReadersAreBehind
<1>3. process' # "down" =>
        Behind(published', policyGeneration', topology', Len(transitions'), domains', devices')
  BY <1>1, PublishedStaysBehind DEF Trailing, ReadersAreBehind
<1>4. QED
  BY <1>2, <1>3 DEF ReadersAreBehind

LEMMA TrailingParts ==
  ASSUME Trailing
  PROVE  /\ TypeOK /\ Locked /\ InStep /\ Faithful /\ MemoryIsSound
         /\ \A d \in Domains : Reaches(domains[d], domains[d])
BY NoGenerationGoesBack DEF Trailing, Faithful, InStep, Locked, HistoriesAreSound

LEMMA SameIsForward ==
  ASSUME TypeOK, UNCHANGED <<policy, policyGeneration, topology, transitions, domains, devices>>
  PROVE  Forward
BY NoGenerationGoesBack, Numbers DEF Forward

LEMMA RecordsAreForward ==
  ASSUME TypeOK, UNCHANGED <<policy, policyGeneration, topology, domains, devices>>,
         Len(transitions) <= Len(transitions')
  PROVE  Forward
BY NoGenerationGoesBack, Numbers DEF Forward

LEMMA RecomputeTrails == ASSUME Trailing, NEW t \in Agents, Recompute(t) PROVE ReadersAreBehind'
<1>1. PICK d \in todo, verdict \in Verdicts : d \in Domains /\ Records(d, Evaluation(d, verdict))
  BY RecomputeLeaves, TrailingParts
<1>2. UNCHANGED <<process, policy, policyGeneration, topology, domains, devices, session,
                  published, run>>
  BY DEF Recompute, configuration
<1>3. d \in Registered
  BY <1>1, TrailingParts DEF Locked, MutationsHoldTheLock
<1>4. Len(transitions) <= Len(transitions')
  BY <1>1, <1>2, <1>3, RecordsKeepMemory, TrailingParts
<1>5. Forward /\ TypeOK'
  BY <1>2, <1>4, RecordsAreForward, RecomputeTypes, TrailingParts
<1>6. CopyIsBehind(session'[t], domains') /\ ReadingIsBehind(session'[t], policy')
  BY <1>2 DEF Trailing, ReadersAreBehind
<1>7. QED
  BY <1>2, <1>5, <1>6, OneReaderMoves

LEMMA BuildTrails == ASSUME Trailing, NEW t \in Agents, Build(t) PROVE ReadersAreBehind'
<1>1. UNCHANGED <<process, policy, policyGeneration, transitions, domains, devices, published>>
  BY DEF Build, record
<1>2. topology <= topology'
  <2>1. topology' = (IF structural THEN topology + 1 ELSE topology)
    BY DEF Build
  <2>2. topology' \in {topology, topology + 1}
    BY <2>1, Zenon
  <2>3. QED
    BY <2>2, Numbers, TrailingParts
<1>3. Forward /\ TypeOK'
  BY <1>1, <1>2, NoGenerationGoesBack, Numbers, BuildTypes, TrailingParts DEF Forward
<1> DEFINE s == [stage |-> "publishing", next |-> session[t].next,
                 carries |-> [Snapshot EXCEPT !.topology = topology']]
<1>4. session' = [session EXCEPT ![t] = s] /\ s.stage = "publishing"
  BY DEF Build
<1> HIDE DEF s
<1>5. session'[t] = s /\ \A u \in Agents \ {t} : session'[u] = session[u]
  BY <1>4, SessionAfter, TrailingParts
<1>6. CopyIsBehind(s, domains') /\ ReadingIsBehind(s, policy')
  BY <1>4 DEF CopyIsBehind, ReadingIsBehind
<1>7. QED
  BY <1>1, <1>3, <1>5, <1>6, OneReaderMoves

LEMMA SwapTrails == ASSUME Trailing, NEW t \in Agents, Swap(t) PROVE ReadersAreBehind'
<1>1. /\ UNCHANGED <<policy, policyGeneration, topology, transitions, domains, devices>>
      /\ session[t].stage = "publishing" /\ published' = session[t].carries
  BY DEF Swap, memory, configuration, record
<1>2. Agrees(session[t].carries) /\ session[t].carries.transitions = Len(transitions)
  BY <1>1, TrailingParts DEF InStep, SnapshotsAgree
<1>3. Behind(published', policyGeneration', topology', Len(transitions'), domains', devices')
  BY <1>1, <1>2, NoGenerationGoesBack, Numbers, TrailingParts DEF Behind, Agrees
<1> DEFINE s == [Idle EXCEPT !.stage = session[t].next]
<1>4. session' = [session EXCEPT ![t] = s] /\ s.stage \in {"idle", "changed"}
  BY SessionsAreTyped, TrailingParts DEF Swap, Idle
<1> HIDE DEF s
<1>5. session'[t] = s /\ \A u \in Agents \ {t} : session'[u] = session[u]
  BY <1>4, SessionAfter, TrailingParts
<1>6. CopyIsBehind(s, domains') /\ ReadingIsBehind(s, policy')
  BY <1>4 DEF CopyIsBehind, ReadingIsBehind
<1>7. Forward /\ TypeOK'
  BY <1>1, SameIsForward, SwapTypes, TrailingParts
<1>8. \A u \in Agents : CopyIsBehind(session'[u], domains') /\ ReadingIsBehind(session'[u], policy')
  BY <1>5, <1>6, <1>7, SessionStaysBehind, TrailingParts DEF Trailing, ReadersAreBehind
<1>9. QED
  BY <1>3, <1>8 DEF ReadersAreBehind

LEMMA ChangesTrail == ASSUME Trailing, NEW t \in Threads, Changes(t) PROVE ReadersAreBehind'
<1>1. UNCHANGED <<process, topology, transitions, published>>
  BY DEF Changes, record
<1>2. Forward /\ TypeOK'
  <2>1. topology <= topology' /\ Len(transitions) <= Len(transitions')
    BY <1>1, Numbers, TrailingParts
  <2>2. /\ policy <= policy' /\ policyGeneration <= policyGeneration'
        /\ \A d \in Domains : Reaches(domains[d], domains'[d])
        /\ \A v \in Devices : devices[v].generation <= devices'[v].generation
    BY DEF Changes
  <2>3. QED
    BY <2>1, <2>2, ChangesTypes, TrailingParts DEF Forward
<1>3. PICK A \in SUBSET Domains, N \in SUBSET Domains, advances \in BOOLEAN,
           next \in {"idle", "changed"} : Enters(t, A, N, advances, next)
  BY DEF Changes
<1> DEFINE s == [stage |-> "changing", next |-> next, carries |-> Nothing]
<1>4. session' = [session EXCEPT ![t] = s] /\ s.stage = "changing"
  BY <1>3 DEF Enters
<1> HIDE DEF s
<1>5. session'[t] = s /\ \A u \in Agents \ {t} : session'[u] = session[u]
  BY <1>4, SessionAfter, TrailingParts, ThreadsAreAgents
<1>6. CopyIsBehind(s, domains') /\ ReadingIsBehind(s, policy')
  BY <1>4 DEF CopyIsBehind, ReadingIsBehind
<1>7. QED
  BY <1>1, <1>2, <1>5, <1>6, OneReaderMoves, ThreadsAreAgents

LEMMA TalksTrail == ASSUME Trailing, NEW t \in Threads, Talks(t) PROVE ReadersAreBehind'
<1>1. UNCHANGED <<process, stateLock, policy, policyGeneration, topology, transitions, domains,
                  devices, published>>
  BY DEF Talks, lockVars, memory, configuration, record
<1>2. Forward /\ TypeOK'
  BY <1>1, SameIsForward, TalksTypes, TrailingParts
<1>3. PICK s :
        /\ SessionOK(s) /\ session' = [session EXCEPT ![t] = s]
        /\ s.stage \notin {"changing", "publishing", "changed", "evaluated"}
        /\ s.stage = "copied domain" => s.carries.copy = published.domains[s.carries.id]
        /\ s.stage = "enveloped" => session[t].stage = "evaluated" /\ s.carries = session[t].carries
        /\ s.stage = "explained" =>
             /\ session[t].stage = "enveloped" /\ s.carries.printed = policy
             /\ s.carries.evaluatedUnder = session[t].carries.evaluatedUnder
  BY DEF Talks
<1>4. session'[t] = s /\ \A u \in Agents \ {t} : session'[u] = session[u]
  BY <1>3, SessionAfter, TrailingParts, ThreadsAreAgents
<1>5. process # "down"
  <2>1. session[t].stage = "idle" => process = "serving"
    BY DEF Talks
  <2>2. process = "down" => session[t] = Idle
    BY ThreadsAreAgents, TrailingParts DEF Locked, NothingBeforeServing
  <2>3. QED
    BY <2>1, <2>2 DEF Idle
<1>6. CopyIsBehind(s, domains)
  <2>1. CASE s.stage = "copied domain"
    <3>1. s.carries \in Copies(Domains)
      BY <1>3, <2>1, WhatIsCarried DEF SessionOK
    <3>2. s.carries.id \in Domains
      BY <3>1 DEF Copies
    <3>3. Reaches(published.domains[s.carries.id], domains[s.carries.id])
      BY <1>5, <3>2 DEF Trailing, ReadersAreBehind, Behind
    <3>4. QED
      BY <1>3, <2>1, <3>3 DEF CopyIsBehind
  <2>2. CASE s.stage # "copied domain"
    BY <2>2 DEF CopyIsBehind
  <2>3. QED
    BY <2>1, <2>2
<1>7. ReadingIsBehind(s, policy)
  <2>1. ReadingIsBehind(session[t], policy)
    BY ThreadsAreAgents DEF Trailing, ReadersAreBehind
  <2>2. CASE s.stage \in {"enveloped", "explained"}
    BY <1>3, <2>1, <2>2 DEF ReadingIsBehind
  <2>3. CASE s.stage \notin {"enveloped", "explained"}
    BY <1>3, <2>3 DEF ReadingIsBehind
  <2>4. QED
    BY <2>2, <2>3
<1>8. CopyIsBehind(session'[t], domains') /\ ReadingIsBehind(session'[t], policy')
  BY <1>1, <1>4, <1>6, <1>7
<1>9. QED
  BY <1>1, <1>2, <1>4, <1>8, OneReaderMoves, ThreadsAreAgents

LEMMA JudgesTrail == ASSUME Trailing, NEW t \in Threads, Judges(t) PROVE ReadersAreBehind'
<1>1. PICK d \in Registered, verdict \in Verdicts : Records(d, Evaluation(d, verdict))
  BY DEF Judges
<1>2. UNCHANGED <<process, policy, policyGeneration, topology, domains, devices, published, run>>
  BY DEF Judges, configuration
<1>3. Len(transitions) <= Len(transitions')
  BY <1>1, <1>2, RecordsKeepMemory, TrailingParts
<1>4. Forward /\ TypeOK'
  BY <1>2, <1>3, RecordsAreForward, JudgesTypes, TrailingParts
<1> DEFINE c == [evaluatedUnder |-> policy, printed |-> 0]
           s == [stage |-> "evaluated", next |-> "idle", carries |-> c]
<1>5. session' = session \/ session' = [session EXCEPT ![t] = s]
  BY DEF Judges
<1>6. s.stage = "evaluated" /\ s.carries = c /\ c.evaluatedUnder = policy
  OBVIOUS
<1> HIDE DEF c, s
<1>7. \A u \in Agents \ {t} : session'[u] = session[u]
  BY <1>5, SessionAfter, TrailingParts, ThreadsAreAgents
<1>8. session'[t] = session[t] \/ session'[t] = s
  BY <1>5, SessionAfter, TrailingParts, ThreadsAreAgents
<1>9. CopyIsBehind(s, domains') /\ ReadingIsBehind(s, policy')
  BY <1>2, <1>6, Numbers, TrailingParts DEF CopyIsBehind, ReadingIsBehind
<1>10. CopyIsBehind(session[t], domains') /\ ReadingIsBehind(session[t], policy')
  BY <1>2, ThreadsAreAgents DEF Trailing, ReadersAreBehind
<1>11. CopyIsBehind(session'[t], domains') /\ ReadingIsBehind(session'[t], policy')
  BY <1>8, <1>9, <1>10
<1>12. QED
  BY <1>2, <1>4, <1>7, <1>11, OneReaderMoves, ThreadsAreAgents

LEMMA CrashTrails == ASSUME Trailing, Crash PROVE ReadersAreBehind'
<1>1. process' = "down" /\ \A u \in Agents : session'[u] = Idle
  BY DEF Crash
<1>2. \A u \in Agents : session'[u].stage = "idle"
  BY <1>1 DEF Idle
<1>3. QED
  BY <1>1, <1>2 DEF ReadersAreBehind, CopyIsBehind, ReadingIsBehind

LEMMA StartTrails == ASSUME Trailing, Start PROVE ReadersAreBehind'
<1>1. /\ process = "down" /\ published' = FreshSnapshot
      /\ \A u \in Agents : session[u] = Idle
  BY TrailingParts DEF Start, Locked, NothingBeforeServing
<1>2. TypeOK'
  BY StartTypes, TrailingParts
<1>3. Agrees(FreshSnapshot)
  BY <1>1, TrailingParts DEF Locked, NothingBeforeServing, InStep, SnapshotsAgree
<1>4. \A u \in Agents : session'[u].stage \in {"idle", "changing"}
  <2>1. CASE file = Nothing
    BY <1>1, <2>1 DEF Start, Idle
  <2>2. CASE file # Nothing
    <3> DEFINE s == [stage |-> "changing", next |-> "idle", carries |-> Nothing]
    <3>1. session' = [session EXCEPT ![Main] = s] /\ s.stage = "changing"
      BY <2>2 DEF Start, Enters
    <3> HIDE DEF s
    <3>2. \A u \in Agents : session'[u] = s \/ session'[u] = Idle
      BY <1>1, <3>1, SessionAfter, ThreadsAreAgents, TrailingParts
    <3>3. QED
      BY <3>1, <3>2 DEF Idle
  <2>3. QED
    BY <2>1, <2>2
<1>5. \A u \in Agents : CopyIsBehind(session'[u], domains') /\ ReadingIsBehind(session'[u], policy')
  BY <1>4 DEF CopyIsBehind, ReadingIsBehind
<1>6. policyGeneration' >= 1 /\ topology' >= 1
  <2>1. CASE file = Nothing
    <3>1. UNCHANGED <<policyGeneration, topology>>
      BY <2>1 DEF Start, memory, configuration
    <3>2. policyGeneration = 1 /\ topology = 1
      BY <1>3, FreshValues DEF Agrees
    <3>3. QED
      BY <3>1, <3>2
  <2>2. CASE file # Nothing
    <3>1. Configured(Restored(file)) /\ file \in DurableStates
      BY <2>2, TrailingParts DEF Start, TypeOK
    <3>2. policyGeneration' = Larger(1, file.policyGeneration)
          /\ topology' = Larger(1, file.topology) + 1
      BY <3>1, RestoredIsDurable DEF Configured
    <3>3. file.policyGeneration \in Nat /\ file.topology \in Nat
      BY <3>1 DEF DurableStates
    <3>4. \A n \in Nat : Larger(1, n) \in Nat /\ Larger(1, n) >= 1
      BY DEF Larger
    <3>5. QED
      BY <3>2, <3>3, <3>4
  <2>3. QED
    BY <2>1, <2>2
<1>7. Behind(published', policyGeneration', topology', Len(transitions'), domains', devices')
  <2>1. /\ \A d \in Domains : domains'[d].generation \in Nat
        /\ \A v \in Devices : devices'[v].generation \in Nat
        /\ Len(transitions') \in Nat /\ policyGeneration' \in Nat /\ topology' \in Nat
    BY <1>2, LenProperties DEF TypeOK, Definitions
  <2>2. \A d \in Domains : Reaches(FreshSnapshot.domains[d], domains'[d])
    BY <2>1, FreshValues DEF Reaches
  <2>3. \A v \in Devices : FreshSnapshot.devices[v].generation <= devices'[v].generation
    BY <2>1, FreshValues
  <2>4. QED
    BY <1>1, <1>6, <2>1, <2>2, <2>3, FreshValues DEF Behind
<1>8. QED
  BY <1>5, <1>7 DEF ReadersAreBehind

LEMMA TrailingInitially == ASSUME Init PROVE Trailing
<1>1. Faithful /\ TypeOK
  BY FaithfulInitially, TypeOKInitially
<1>2. /\ published = FreshSnapshot /\ policyGeneration = 1 /\ topology = 1
      /\ \A u \in Agents : session[u].stage = "idle"
  BY FreshValues DEF Init, Idle
<1>3. \A d \in Domains : Reaches(FreshSnapshot.domains[d], domains[d])
  BY <1>1, Numbers, FreshValues DEF Reaches
<1>4. Behind(published, policyGeneration, topology, Len(transitions), domains, devices)
  BY <1>1, <1>2, <1>3, Numbers, FreshValues DEF Behind
<1>5. \A u \in Agents : CopyIsBehind(session[u], domains) /\ ReadingIsBehind(session[u], policy)
  BY <1>2 DEF CopyIsBehind, ReadingIsBehind
<1>6. QED
  BY <1>1, <1>4, <1>5 DEF Trailing, ReadersAreBehind

LEMMA TrailingKept == ASSUME Trailing, Next PROVE Trailing'
<1>1. Faithful'
  BY FaithfulKept DEF Trailing
<1>2. ASSUME NEW t \in Agents, Recompute(t) \/ Build(t) \/ Swap(t) PROVE ReadersAreBehind'
  BY <1>2, RecomputeTrails, BuildTrails, SwapTrails
<1>3. ASSUME NEW t \in Threads, Changes(t) \/ Talks(t) \/ Judges(t) PROVE ReadersAreBehind'
  BY <1>3, ChangesTrail, TalksTrail, JudgesTrail
<1>4. ReadersAreBehind'
  BY <1>2, <1>3, StepKinds, CrashTrails, StartTrails, TrailingParts
<1>5. QED
  BY <1>1, <1>4 DEF Trailing

LEMMA TrailingStutters == ASSUME Trailing, UNCHANGED vars PROVE Trailing'
<1>1. Faithful'
  BY FaithfulStutters DEF Trailing
<1>2. ReadersAreBehind'
  BY DEF Trailing, ReadersAreBehind, vars, memory, configuration, record
<1>3. QED
  BY <1>1, <1>2 DEF Trailing

LEMMA AlwaysTrailing == Spec => []Trailing
<1>1. Init => Trailing
  BY TrailingInitially
<1>2. Trailing /\ [Next]_vars => Trailing'
  BY TrailingKept, TrailingStutters
<1>3. QED
  BY <1>1, <1>2, PTL DEF Spec

SnapshotsGoForward ==
  /\ published.policyGeneration <= published'.policyGeneration
  /\ published.topology <= published'.topology
  /\ published.transitions <= published'.transitions
  /\ \A d \in Domains : published.domains[d].generation <= published'.domains[d].generation
  /\ \A v \in Devices : published.devices[v].generation <= published'.devices[v].generation

LEMMA SnapshotsOnlyGoForward ==
  ASSUME Trailing, Next, process = "serving", process' = "serving"
  PROVE  SnapshotsGoForward
<1>1. CASE published' = published
  BY <1>1, Numbers, TrailingParts DEF SnapshotsGoForward
<1>2. ASSUME NEW t \in Agents, Swap(t) PROVE SnapshotsGoForward
  <2>1. published' = session[t].carries /\ session[t].stage = "publishing"
    BY <1>2 DEF Swap
  <2>2. Agrees(published') /\ published'.transitions = Len(transitions)
    BY <2>1, TrailingParts DEF InStep, SnapshotsAgree, Agrees
  <2>3. Behind(published, policyGeneration, topology, Len(transitions), domains, devices)
    BY DEF Trailing, ReadersAreBehind
  <2>4. QED
    BY <2>2, <2>3 DEF SnapshotsGoForward, Agrees, Behind, Reaches
<1>3. ASSUME NEW t \in Agents, Recompute(t) \/ Build(t) PROVE published' = published
  BY <1>3 DEF Recompute, Build
<1>4. ASSUME NEW t \in Threads, Changes(t) \/ Talks(t) \/ Judges(t) PROVE published' = published
  BY <1>4 DEF Changes, Talks, Judges
<1>5. ~Crash /\ ~Start
  BY DEF Crash, Start
<1>6. QED
  BY <1>1, <1>2, <1>3, <1>4, <1>5, StepKinds, TrailingParts

LEMMA ReadersOnlyGoForward ==
  ASSUME Trailing, Trailing', [Next]_vars
  PROVE  /\ process' = "serving" /\ process = "serving" => SnapshotsGoForward
         /\ \A t \in Threads : session'[t].stage = "explained" =>
              session'[t].carries.evaluatedUnder <= session'[t].carries.printed
<1>2. \A t \in Threads : session'[t].stage = "explained" =>
        session'[t].carries.evaluatedUnder <= session'[t].carries.printed
  BY ThreadsAreAgents DEF Trailing, ReadersAreBehind, ReadingIsBehind
<1>3. process' = "serving" /\ process = "serving" => SnapshotsGoForward
  <2>1. CASE Next
    BY <2>1, SnapshotsOnlyGoForward
  <2>2. CASE UNCHANGED vars
    <3>1. published' = published
      BY <2>2 DEF vars
    <3>2. QED
      BY <3>1, Numbers, TrailingParts DEF SnapshotsGoForward
  <2>3. QED
    BY <2>1, <2>2
<1>4. QED
  BY <1>2, <1>3

\* A reader that looks twice sees nothing older the second time: snapshots are swapped in
\* by the holder of state_mutex, in the order of the mutations; and an explanation prints
\* no policy older than the one it was evaluated under.
THEOREM ReadersNeverGoBackEver == Spec => ReadersNeverGoBack
<1>1. Trailing /\ Trailing' /\ [Next]_vars =>
        [/\ process' = "serving" /\ process = "serving" => SnapshotsGoForward
         /\ \A t \in Threads : session'[t].stage = "explained" =>
              session'[t].carries.evaluatedUnder <= session'[t].carries.printed]_vars
  BY ReadersOnlyGoForward
<1>2. QED
  BY <1>1, AlwaysTrailing, PTL DEF Spec, ReadersNeverGoBack, SnapshotsGoForward

LEMMA AdvancedOfReached ==
  ASSUME NEW copy \in Definitions, NEW old \in Definitions, Reaches(copy, old),
         Advanced(copy).generation > old.generation, old.generation # 0
  PROVE  Advanced(copy) = Advanced(old)
<1>1. copy.generation \in Nat /\ old.generation \in Nat
      /\ Advanced(copy).generation = copy.generation + 1 /\ copy.generation <= old.generation
  BY AdvancedIsDefinition DEF Definitions, Reaches
<1>2. copy.generation = old.generation
  BY <1>1
<1>3. QED
  BY <1>2 DEF Reaches

LEMMA BumpUndoesNothing ==
  ASSUME Trailing, Next, NEW t \in Threads,
         session[t].stage = "copied domain", session'[t].stage = "changing"
  PROVE  LET d == session[t].carries.id IN
         domains'[d] = [domains[d] EXCEPT !.generation = @ + 1]
<1> DEFINE d == session[t].carries.id  copy == session[t].carries.copy
<1>1. session[t].carries \in Copies(Domains) /\ t \in Agents
  BY SessionsAreTyped, WhatIsCarried, TrailingParts, ThreadsAreAgents
<1>2. d \in Domains /\ copy \in Definitions /\ domains[d] \in Definitions
  BY <1>1, Numbers, TrailingParts DEF Copies
<1>3. Reaches(copy, domains[d])
  BY <1>1 DEF Trailing, ReadersAreBehind, CopyIsBehind
<1>4. session'[t] # session[t]
  OBVIOUS
<1>5. ASSUME NEW u \in Agents, Recompute(u) \/ Build(u) \/ Swap(u) PROVE FALSE
  <2>1. CASE Recompute(u)
    BY <1>4, <2>1 DEF Recompute
  <2>2. CASE Build(u) \/ Swap(u)
    <3>1. session[u].stage \in {"changing", "publishing"}
      BY <2>2 DEF Build, Swap
    <3>2. \E s : session' = [session EXCEPT ![u] = s]
      BY <2>2 DEF Build, Swap
    <3>3. u # t
      BY <3>1
    <3>4. QED
      BY <1>1, <1>4, <3>2, <3>3, SessionAfter, TrailingParts
  <2>3. QED
    BY <1>5, <2>1, <2>2
<1>6. ASSUME NEW u \in Threads, Talks(u) \/ Judges(u) PROVE FALSE
  <2>1. CASE Talks(u)
    <3>1. PICK s : session' = [session EXCEPT ![u] = s] /\ s.stage # "changing"
      BY <2>1 DEF Talks
    <3>2. session'[u] = s /\ \A v \in Agents \ {u} : session'[v] = session[v]
      BY <3>1, SessionAfter, TrailingParts, ThreadsAreAgents
    <3>3. QED
      BY <1>1, <1>4, <3>1, <3>2
  <2>2. CASE Judges(u)
    <3>1. session[u].stage = "idle"
      BY <2>2 DEF Judges, Begins
    <3>2. PICK s : session' = session \/ session' = [session EXCEPT ![u] = s]
      BY <2>2 DEF Judges
    <3>3. u # t
      BY <3>1
    <3>4. \A v \in Agents \ {u} : session'[v] = session[v]
      BY <3>2, SessionAfter, TrailingParts, ThreadsAreAgents
    <3>5. QED
      BY <1>1, <1>4, <3>3, <3>4
  <2>3. QED
    BY <1>6, <2>1, <2>2
<1>7. ASSUME Crash PROVE FALSE
  <2>1. session'[t] = Idle
    BY <1>1, <1>7 DEF Crash
  <2>2. Idle.stage = "idle"
    BY DEF Idle
  <2>3. session'[t].stage = "idle"
    BY <2>1, <2>2
  <2>4. QED
    BY <2>3
<1>8. ASSUME Start PROVE FALSE
  <2>1. session[t] = Idle
    BY <1>1, <1>8, TrailingParts DEF Start, Locked, NothingBeforeServing
  <2>2. Idle.stage = "idle"
    BY DEF Idle
  <2>3. session[t].stage = "idle"
    BY <2>1, <2>2
  <2>4. QED
    BY <2>3
<1>9. ASSUME NEW u \in Threads, Changes(u)
      PROVE  domains'[d] = [domains[d] EXCEPT !.generation = @ + 1]
  <2>1. u = t
    <3>1. PICK s : session' = [session EXCEPT ![u] = s]
      BY <1>9 DEF Changes, Enters
    <3>2. \A v \in Agents \ {u} : session'[v] = session[v]
      BY <3>1, SessionAfter, TrailingParts, ThreadsAreAgents
    <3>3. QED
      BY <1>1, <1>4, <3>2
  <2>2. /\ domains'[d] = Advanced(copy) /\ domains'[d].generation > domains[d].generation
        /\ domains[d].generation # 0
    BY <1>9, <2>1 DEF Changes, Bumps
  <2> HIDE DEF d, copy
  <2>3. domains'[d] = Advanced(domains[d])
    BY <1>2, <1>3, <2>2, AdvancedOfReached
  <2>4. QED
    BY <2>3 DEF Advanced, d
<1>10. QED
  BY <1>5, <1>6, <1>7, <1>8, <1>9, StepKinds, TrailingParts

\* A bump that is accepted registers what is there with the next generation: its copy is
\* of a published snapshot, so of the definition in place or of an older generation, and
\* an older one is refused.
THEOREM BumpsAlwaysKeep == Spec => BumpsKeepTheDefinition
<1>1. Trailing /\ [Next]_vars =>
        [\A t \in Threads :
           session[t].stage = "copied domain" /\ session'[t].stage = "changing" =>
             LET d == session[t].carries.id IN
             domains'[d] = [domains[d] EXCEPT !.generation = @ + 1]]_vars
  BY BumpUndoesNothing
<1>2. QED
  BY <1>1, AlwaysTrailing, PTL DEF Spec, BumpsKeepTheDefinition
================================================================================
