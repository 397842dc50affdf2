-------------------------- MODULE DomainEvaluation --------------------------
(***************************************************************************)
(* The stored evaluations of a set of thermal domains and what recomputes  *)
(* them (src/src/governance.cpp): publication, worker registration and     *)
(* death, capability changes, couplings and explicit recovery.  One action *)
(* is one critical section of state_mutex.                                 *)
(*                                                                         *)
(* Time is relative: a reading and a sample carry the age of their         *)
(* measurement, which a tick advances up to AgeCap.  At AgeCap a reading   *)
(* is stale and a sample is old enough for every span the policy can ask   *)
(* for, so a larger age could not be told from it.                         *)
(***************************************************************************)
EXTENDS ThermalEvaluation, FiniteSetsExt, Functions

CONSTANTS
  Domains,      \* domain identifiers: natural numbers, recomputed in ascending order
  Devices,
  Members,      \* the member devices of each domain, in their declared order
  WorkerOf,     \* the worker that measures each device
  LimitOf,      \* the vendor limit each device reports
  Temperatures, \* bound: the temperatures a device can report
  Throttles,    \* bound: whether a device can report a thermal throttle
  MaxDelay,     \* bound: the age a reading can have when it is published
  Period,       \* a worker measures a device at most once in this time
  MaxBoot,      \* bound: boot identities are 1..MaxBoot
  Capacity,     \* config.max_recovery_samples
  PossibleCouplings,  \* bound: the <<source, destination>> edges that can be registered
  CapabilityChoices,  \* bound: the [temperature, throttle] capabilities a device can have
  Requests      \* admission requests of the properties

ASSUME TopologyAssumption ==
  /\ Domains \subseteq Nat
  /\ Members \in [Domains -> Seq(Devices)]
  /\ \A d \in Domains : Members[d] # <<>>
  /\ PossibleCouplings \subseteq {e \in Domains \X Domains : e[1] # e[2]}
ASSUME DeviceAssumption ==
  /\ DOMAIN WorkerOf = Devices
  /\ LimitOf \in [Devices -> Int] /\ Temperatures \subseteq Int
  /\ CapabilityChoices \subseteq [temperature : CapabilityStates, throttle : CapabilityStates]
  /\ Requests \subseteq [profile : STRING, concurrency : 0..100, class : ExecutionClasses]
ASSUME TimingAssumption ==
  /\ Throttles \subseteq BOOLEAN
  /\ MaxDelay \in Nat /\ Period \in Nat \ {0}
  /\ MaxBoot \in Nat \ {0} /\ Capacity \in Nat \ {0}

Workers == Range(WorkerOf)
AgeCap == Policy.maxAge + MaxDelay + Policy.minSpan + Period + 1

VARIABLES
  reading,      \* impl.evidence of each device, NoReading before the first
  invalidated,  \* impl.invalidated_evidence: the devices whose reading is superseded
  history,      \* impl.recovery_histories of each domain, oldest sample first
  evaluation,   \* impl.evaluations: state and derating of each domain
  boot, alive,  \* registered incarnation of each worker
  capability,   \* declared capabilities of each device
  couplings,    \* impl.couplings
  explicit      \* impl.explicit_recovery

evidenceVars == <<reading, invalidated, history>>
workerVars == <<boot, alive>>
topologyVars == <<capability, couplings, explicit>>
vars == <<evidenceVars, evaluation, workerVars, topologyVars>>

--------------------------------------------------------------------------------
(* What an evaluation reads: a record w of the state it is made in. *)

World ==
  [reading |-> reading, invalidated |-> invalidated, history |-> history,
   capability |-> capability, couplings |-> couplings, explicit |-> explicit]

WithSources(S, edges) == S \cup {e[1] : e \in {x \in edges : x[2] \in S}}

\* The domains from which at most depth steps along the edges lead to d, d included.
Within(d, edges, depth) ==
  LET within[n \in 0..depth] == IF n = 0 THEN {d} ELSE WithSources(within[n - 1], edges)
  IN  within[depth]

\* Mutation: a domain that d heats in turn is taken for an edge that closes a cycle.
ReachingOutsideCycles(d, edges, depth) ==
  {s \in Within(d, edges, depth) \ {d} : d \notin Within(s, edges, depth)}

\* incoming_reachable, and reachable_from with the edges reversed.
Reaching(d, edges, depth) == Within(d, edges, depth) \ {d}

\* Mutation: a publication refreshes the sources of a domain twice and never its destinations.
SameEdges(edges) == edges

Reversed(edges) == {<<e[2], e[1]>> : e \in edges}

\* The places in the declared order of the members that have a reading.
Reporting(d, w) == {i \in DOMAIN Members[d] : w.reading[Members[d][i]] # NoReading}
Front(d, w) == Members[d][Min(Reporting(d, w))]
TemperatureAt(d, i, w) == w.reading[Members[d][i]].temperature

\* Mutation: the front member governs.
FrontGoverns(d, w) == Front(d, w)

\* The first of the hottest members governs the temperature of the aggregate.
Hottest(d, w) ==
  Members[d][Min({i \in Reporting(d, w) : \A j \in Reporting(d, w) :
                    TemperatureAt(d, j, w) <= TemperatureAt(d, i, w)})]

\* gather_domain_evidence: the front member's record with the governing member's temperature.
Gathered(d, w) ==
  IF Reporting(d, w) = {} THEN NoReading
  ELSE [w.reading[Front(d, w)] EXCEPT !.temperature = w.reading[Hottest(d, w)].temperature]

\* Mutation: evidence of a retired incarnation still counts.
FreshByAge(d, w) == Reporting(d, w) # {} /\ Gathered(d, w).age <= Policy.maxAge

Fresh(d, w) ==
  /\ Reporting(d, w) # {}
  /\ Hottest(d, w) \notin w.invalidated
  /\ Gathered(d, w).age <= Policy.maxAge

\* The weakest capability of the members governs.
Weakest(states) ==
  IF "UNSUPPORTED" \in states THEN "UNSUPPORTED"
  ELSE IF "UNKNOWN" \in states THEN "UNKNOWN" ELSE "SUPPORTED"

Input(d, stored, w) ==
  [capability |-> Weakest({w.capability[m].temperature : m \in Range(Members[d])}),
   throttleCapability |-> Weakest({w.capability[m].throttle : m \in Range(Members[d])}),
   reading |-> Gathered(d, w), fresh |-> Fresh(d, w), previous |-> stored[d],
   history |-> w.history[d], explicit |-> d \in w.explicit,
   upstream |-> {stored[s].state : s \in Reaching(d, w.couplings, Policy.depth)}]

EvaluateDomain(d, stored, w) == EvaluateThermal(Input(d, stored, w))

Stored(e) == [state |-> e.state, derating |-> e.derating]

\* The domains of scope recomputed in ascending order, each after the ones before it.
Recomputed(scope, stored, w) ==
  LET new[d \in Domains] ==
        IF d \in scope
        THEN Stored(EvaluateDomain(d, [x \in Domains |-> IF x \in scope /\ x < d THEN new[x] ELSE stored[x]], w))
        ELSE stored[d]
  IN  new

Recompute(scope) == evaluation' = Recomputed(scope, evaluation, World')

--------------------------------------------------------------------------------
Init ==
  /\ reading = [device \in Devices |-> NoReading]
  /\ invalidated = {}
  /\ history = [d \in Domains |-> <<>>]
  /\ boot = [worker \in Workers |-> 1]
  /\ alive = [worker \in Workers |-> TRUE]
  /\ capability \in [Devices -> CapabilityChoices]
  /\ couplings = {}
  /\ explicit = {}
  /\ evaluation = Recomputed(Domains, [d \in Domains |-> NoEvaluation], World)

Older(record) == [record EXCEPT !.age = IF @ < AgeCap THEN @ + 1 ELSE AgeCap]

Tick ==
  /\ reading' = [device \in Devices |-> IF reading[device] = NoReading THEN NoReading
                                        ELSE Older(reading[device])]
  /\ history' = [d \in Domains |-> [i \in DOMAIN history[d] |-> Older(history[d][i])]]
  /\ UNCHANGED <<invalidated, evaluation, workerVars, topologyVars>>

\* Mutations: the history is never trimmed; a full history takes no new sample.
PushedForEver(samples, sample) == Append(samples, sample)
PushedWhileRoom(samples, sample) == IF Len(samples) < Capacity THEN Append(samples, sample) ELSE samples

\* RecoveryHistory::push.
Pushed(samples, sample) ==
  LET longer == Append(samples, sample) IN
  IF Len(longer) > Capacity THEN SubSeq(longer, Len(longer) - Capacity + 1, Len(longer)) ELSE longer

Taken(device, temperature, throttled, age) ==
  [temperature |-> temperature, throttled |-> throttled, age |-> age,
   boot |-> boot[WorkerOf[device]], limit |-> LimitOf[device]]

Sample(r) == [temperature |-> r.temperature, throttled |-> r.throttled, age |-> r.age, boot |-> r.boot]

\* A reading of one incarnation is measured after the one it replaces.
Measurable(device, age) ==
  reading[device].boot = boot[WorkerOf[device]] => reading[device].age - age >= Period

Holding(device) == {d \in Domains : device \in Range(Members[d])}
Around(d, edges) == Reaching(d, edges, 3) \cup Reaching(d, Reversed(edges), 3)

Publish(device, temperature, throttled, age) ==
  LET r == Taken(device, temperature, throttled, age)
      affected == Holding(device)
      neighbours == UNION {Around(d, couplings) : d \in affected}
  IN
  /\ alive[WorkerOf[device]]
  /\ Measurable(device, age)
  /\ reading' = [reading EXCEPT ![device] = r]
  /\ invalidated' = invalidated \ {device}
  /\ history' = [d \in Domains |-> IF d \in affected THEN Pushed(history[d], Sample(r)) ELSE history[d]]
  /\ UNCHANGED <<workerVars, topologyVars>>
  /\ evaluation' = Recomputed(neighbours, Recomputed(affected, evaluation, World'), World')

\* The samples of one boot in their order: SelectSeq, as a recursive function.
OfBoot(samples, b) ==
  LET kept[n \in 0..Len(samples)] ==
        IF n = 0 THEN <<>>
        ELSE IF samples[n].boot = b THEN Append(kept[n - 1], samples[n]) ELSE kept[n - 1]
  IN  kept[Len(samples)]

\* retire_boot_locked; invalidate_for_boot keeps the samples of the retired boot only.
RetireBoot(worker) ==
  /\ invalidated' = invalidated \cup {device \in Devices :
       WorkerOf[device] = worker /\ reading[device].boot = boot[worker]}
  /\ history' = [d \in Domains |-> OfBoot(history[d], boot[worker])]
  /\ UNCHANGED reading

NoteWorkerDeath(worker) ==
  /\ RetireBoot(worker)
  /\ alive' = [alive EXCEPT ![worker] = FALSE]
  /\ UNCHANGED <<boot, topologyVars>>
  /\ Recompute(Domains)

Reincarnate(worker) ==
  /\ boot[worker] < MaxBoot
  /\ RetireBoot(worker)
  /\ boot' = [boot EXCEPT ![worker] = @ + 1]
  /\ alive' = [alive EXCEPT ![worker] = TRUE]
  /\ UNCHANGED topologyVars
  /\ Recompute(Domains)

\* worker_heartbeat, and register_worker under the boot already registered.
Heartbeat(worker) ==
  /\ alive' = [alive EXCEPT ![worker] = TRUE]
  /\ UNCHANGED <<evidenceVars, evaluation, boot, topologyVars>>

\* evaluate_domain, and evaluate_device for a domain's member.
Evaluate(d) ==
  /\ UNCHANGED <<evidenceVars, workerVars, topologyVars>>
  /\ Recompute({d})

AuthorizeRecovery(d) ==
  /\ explicit' = explicit \cup {d}
  /\ UNCHANGED <<evidenceVars, workerVars, capability, couplings>>
  /\ Recompute({d})

RevokeRecovery(d) ==
  /\ explicit' = explicit \ {d}
  /\ UNCHANGED <<evidenceVars, workerVars, capability, couplings>>
  /\ Recompute({d})

RegisterCoupling(edge) ==
  /\ couplings' = couplings \cup {edge}
  /\ UNCHANGED <<evidenceVars, workerVars, capability, explicit>>
  /\ Recompute(Domains)

RemoveCoupling(edge) ==
  /\ edge \in couplings
  /\ couplings' = couplings \ {edge}
  /\ UNCHANGED <<evidenceVars, workerVars, capability, explicit>>
  /\ Recompute(Domains)

PublishCapabilities(device, choice) ==
  /\ capability' = [capability EXCEPT ![device] = choice]
  /\ UNCHANGED <<evidenceVars, workerVars, couplings, explicit>>
  /\ Recompute(Domains)

PublishSome(device) ==
  \E temperature \in Temperatures, throttled \in Throttles, age \in 0..MaxDelay :
    Publish(device, temperature, throttled, age)

Next ==
  \/ Tick
  \/ \E device \in Devices : PublishSome(device)
  \/ \E worker \in Workers : NoteWorkerDeath(worker) \/ Reincarnate(worker) \/ Heartbeat(worker)
  \/ \E d \in Domains : Evaluate(d) \/ AuthorizeRecovery(d) \/ RevokeRecovery(d)
  \/ \E edge \in PossibleCouplings : RegisterCoupling(edge) \/ RemoveCoupling(edge)
  \/ \E device \in Devices, choice \in CapabilityChoices : PublishCapabilities(device, choice)

Spec == Init /\ [][Next]_vars

\* tg_worker publishes in a loop and the clock does not stop.
Fairness ==
  /\ WF_vars(Tick)
  /\ \A device \in Devices : WF_vars(PublishSome(device))

FairSpec == Spec /\ Fairness

--------------------------------------------------------------------------------
(* Properties. *)

Samples == [temperature : Temperatures, throttled : BOOLEAN, age : 0..AgeCap, boot : 1..MaxBoot]

TypeOK ==
  /\ reading \in [Devices -> {NoReading} \cup
       [temperature : Temperatures, throttled : BOOLEAN, age : 0..AgeCap, boot : 1..MaxBoot,
        limit : Range(LimitOf)]]
  /\ invalidated \subseteq Devices
  /\ history \in [Domains -> Seq(Samples)] /\ \A d \in Domains : Len(history[d]) <= Capacity
  /\ evaluation \in [Domains -> [state : ThermalStates, derating : DeratingLevels]]
  /\ boot \in [Workers -> 1..MaxBoot] /\ alive \in [Workers -> BOOLEAN]
  /\ capability \in [Devices -> CapabilityChoices]
  /\ couplings \subseteq PossibleCouplings
  /\ explicit \subseteq Domains

\* The newest n samples of a domain.
Newest(n, samples) == {samples[i] : i \in {j \in DOMAIN samples : j > Len(samples) - n}}

\* A publication evaluates the domains of its device first, and those around them
\* afterwards: what is stored after the first evaluations.
Between(device) == Recomputed(Holding(device), evaluation, World')
Republished(device) == reading'[device] # reading[device]

HealthyBetween(d) ==
  \E device \in Devices : Republished(device) /\ Between(device)[d].state \in Healthy

\* README, "Recovery is explicit": a step that takes a domain from a restriction
\* straight to a healthy state finds enough newest samples, all cool, spread over
\* the required span and, where the policy demands it, unthrottled and of one
\* incarnation, the recovery authorised; and every coupled source is healthy before
\* the step, after it, or between the two evaluations of a publication.
RecoveryIsEarned ==
  [][\A d \in Domains :
       evaluation[d].state \in Restrictive /\ evaluation'[d].state \in Healthy =>
         /\ Len(history'[d]) >= Policy.requiredSamples
         /\ \A s \in Newest(Policy.requiredSamples, history'[d]) :
              s.temperature < RecoveryGate /\ (Policy.requireNoThrottle => ~s.throttled)
         /\ Policy.requireSameBoot =>
              Cardinality({s.boot : s \in Newest(Policy.requiredSamples, history'[d])}) = 1
         /\ \E s \in Range(history'[d]), t \in Newest(1, history'[d]) : s.age - t.age >= Policy.minSpan
         /\ Policy.requireExplicit => d \in explicit'
         /\ \A s \in Reaching(d, couplings', Policy.depth) :
              \/ {evaluation[s].state, evaluation'[s].state} \cap Healthy # {}
              \/ HealthyBetween(s)]_vars

\* The first evaluation of a publication lifted the restriction the second one imposes again.
LiftedBetween(d) ==
  \E device \in Devices : Republished(device) /\ Between(device)[d].state \notin Restrictive

\* README, "Derating cannot expand": while a domain stays restricted its derating
\* level never becomes more permissive, whatever is published or recomputed.
DeratingNeverExpands ==
  [][\A d \in Domains :
       evaluation[d].state \in Restrictive /\ evaluation'[d].state \in Restrictive =>
         \/ RestrictionRank[evaluation'[d].derating] >= RestrictionRank[evaluation[d].derating]
         \/ LiftedBetween(d)]_vars

\* A domain one of whose members was last read at or above the derating threshold
\* is not stored as healthy, however it is aggregated, coupled or recomputed.
HotNeverHealthy ==
  \A d \in Domains :
    (\E m \in Range(Members[d]) : reading[m] # NoReading /\ reading[m].temperature >= Policy.derating)
      => evaluation[d].state \notin Healthy

\* Coupled pressure: the destination of a restricted domain that nothing heats is
\* not stored as healthy once the recomputation that follows every change is over.
\* The destination has the larger identifier: recomputation is in ascending order.
PressureIsFelt ==
  \A e \in couplings :
    e[1] < e[2] /\ (\A x \in couplings : x[2] # e[1]) /\ evaluation[e[1]].state \in Restrictive
      => evaluation[e[2]].state \notin Healthy

\* Coupled recovery: two restricted domains that heat each other do not recover on
\* each other's account, neither becomes healthy in a step that finds both restricted.
MutualRestrictionHolds ==
  [][\A d, s \in Domains :
       /\ {<<d, s>>, <<s, d>>} \subseteq couplings'
       /\ evaluation[d].state \in Restrictive /\ evaluation[s].state \in Restrictive
       => evaluation'[d].state \notin Healthy]_vars

\* An admission is made on the evidence of the moment: a full one finds every
\* member below the derating threshold and leaves the demanded headroom below the
\* critical threshold, and none at all is given under a superseded governing reading,
\* unless the policy admits derated work where the capability is unknown.
AdmissionIsSafe ==
  \A d \in Domains :
    LET now == EvaluateDomain(d, evaluation, World)
        Admission(request) == EvaluateAdmission(request, now)
    IN
    /\ \A request \in Requests :
         Admission(request) = "ADMIT" =>
           \A i \in Reporting(d, World) :
             LET t == TemperatureAt(d, i, World) IN
             /\ t < Policy.derating
             /\ t + Policy.safetyMargin + Policy.minHeadroom + Demand(request.profile) <= Policy.critical
    /\ \A request \in Requests :
         Admission(request) \in {"ADMIT", "ADMIT_DERATED"} =>
           \/ /\ Reporting(d, World) # {}
              /\ Hottest(d, World) \notin invalidated
              /\ reading[Front(d, World)].age <= Policy.maxAge
           \/ now.state = "UNKNOWN" /\ Policy.unknownBehavior = "ALLOW_DERATED"

\* Every device is read by a live worker, supported, cool and unthrottled, no two
\* domains heat each other, and recovery is authorised.
Calm ==
  /\ \A device \in Devices :
       /\ reading[device] # NoReading /\ alive[WorkerOf[device]]
       /\ reading[device].temperature < RecoveryGate /\ ~reading[device].throttled
       /\ capability[device] = [temperature |-> "SUPPORTED", throttle |-> "SUPPORTED"]
  /\ \A d \in Domains : \A e \in couplings : e[2] = d => e[1] < d
  /\ explicit = Domains

\* Recovery is not withheld for ever: when every domain stays calm, no domain
\* stays restricted.
CalmDomainsRecover ==
  <>[]Calm => <>[](\A d \in Domains : evaluation[d].state \notin Restrictive)

\* README, "Recovery is explicit. A resource does not regain full capability
\* because time passed, one cooler sample arrived, a worker restarted": a domain
\* whose newest required samples include a hot one is not healthy.
HeatIsOutlived ==
  \A d \in Domains :
    (\E s \in Newest(Policy.requiredSamples, history[d]) : s.temperature >= Policy.derating)
      => evaluation[d].state \notin Healthy

================================================================================
