-------------------------- MODULE MitigationActions --------------------------
(***************************************************************************)
(* Mitigation actions of one coordinator run: authorisation, dispatch,     *)
(* acknowledgement, result, verification, cancellation and shutdown, and   *)
(* the worker, evidence, device, domain and policy operations that move    *)
(* the generations an action is bound to (src/src/governance.cpp).  One    *)
(* action below is one critical section of state_mutex.                    *)
(*                                                                         *)
(* A domain has one member, the device that carries its name.  The thermal *)
(* content of a reading is left out: what an evaluation concludes is a     *)
(* free choice wherever it decides anything.  The coordinator epoch is     *)
(* constant within a run and is left to the restart model.                 *)
(***************************************************************************)
EXTENDS Integers, Sequences, FiniteSets, ActionLifecycle

CONSTANTS
  Domains,
  Workers,
  NoWorker,       \* the zero WorkerId of evidence injected without a worker
  Policies,
  DefaultPolicy,  \* the policy a fresh runtime always holds
  PolicyOf,       \* definition.policy of each domain
  MaxActions,       \* config.max_actions
  MaxWorkers,       \* config.max_workers
  MaxVerifications, \* config.max_verifications
  MaxBoot,             \* bound: boot identities are 1..MaxBoot
  MaxDeviceGeneration, \* bound on re-registrations of a device
  MaxDomainGeneration, \* bound on updates of a domain
  MaxPolicyGeneration, \* bound on the generation a policy can be given
  MaxTopology,         \* bound on the topology generation
  MaxCapability,       \* bound on the capability generation
  MaxSequence,         \* bound on a worker's measurement sequence
  MaxTime,             \* bound on the injected clock
  Callers              \* the threads that may be inside verify_action

ASSUME NamesAssumption ==
  /\ NoWorker \notin Workers
  /\ DefaultPolicy \in Policies
  /\ PolicyOf \in [Domains -> Policies]

ASSUME BoundsAssumption ==
  /\ MaxActions \in Nat /\ MaxWorkers \in Nat /\ MaxVerifications \in Nat
  /\ MaxBoot \in Nat /\ MaxSequence \in Nat
  /\ MaxDeviceGeneration \in Nat \ {0} /\ MaxDomainGeneration \in Nat \ {0}
  /\ MaxPolicyGeneration \in Nat \ {0} /\ MaxTime \in Nat \ {0}
  /\ MaxTopology \in Nat \ {0} /\ MaxCapability \in Nat \ {0}

ActionIds == 2..(MaxActions + 1)  \* action_generation starts at 1 and is advanced first
Keys == Domains \X (1..MaxDeviceGeneration)  \* SubjectRef::key of a device generation

Readings ==
  [worker : Workers \cup {NoWorker}, boot : 0..MaxBoot,
   telemetry : 1..MaxSequence, measuredAt : 1..MaxTime]
NoEvidence == [worker |-> NoWorker, boot |-> 0, telemetry |-> 0, measuredAt |-> 0]

Authorities ==
  [domain : Domains, domainGeneration : 1..MaxDomainGeneration,
   deviceGeneration : 0..MaxDeviceGeneration,
   policyGeneration : 1..MaxPolicyGeneration, telemetry : 0..MaxSequence,
   worker : Workers \cup {NoWorker}, boot : 0..MaxBoot,
   topologyGeneration : 1..MaxTopology, capabilityGeneration : 1..MaxCapability,
   provenance : {"KNOWN", "UNKNOWN"}]
NoAuthority == [domain |-> "none"]

\* A verify_action call: what its second section still knows of the reading.
PendingCalls == [action : ActionIds, measuredAt : 1..MaxTime]
NoCall == [action |-> 0, measuredAt |-> 0]

VARIABLES
  now,                   \* the injected clock
  shutdown,              \* "running", "stopping" (flag set), "stopped" (actions classified)
  boot,                  \* registered boot of each worker, 0 while not in impl.workers
  alive,
  deviceGeneration,      \* generation the device is registered under
  memberGeneration,      \* device generation named by the domain's member
  domainGeneration,
  policy,                \* generation of each installed policy, 0 while not installed
  policyGeneration,      \* impl.policy_generation
  topologyGeneration,
  capabilityGeneration,
  evidence,
  invalidated,           \* impl.invalidated_evidence
  actionGeneration,
  lifecycle,
  authority,
  dispatchedAt,          \* 0 until dispatched
  baselines,             \* actions a planning baseline is retained for
  verifications,
  calls                  \* verify_action call of each caller between publication and commit

clockVars == <<now, shutdown>>
workerVars == <<boot, alive>>
configVars == <<deviceGeneration, memberGeneration, domainGeneration, policy,
                policyGeneration, topologyGeneration, capabilityGeneration>>
evidenceVars == <<evidence, invalidated>>
actionVars == <<actionGeneration, lifecycle, authority, dispatchedAt, baselines,
                verifications>>
vars == <<clockVars, workerVars, configVars, evidenceVars, actionVars, calls>>

Init ==
  /\ now = 1 /\ shutdown = "running"
  /\ boot = [w \in Workers |-> 0] /\ alive = [w \in Workers |-> FALSE]
  /\ deviceGeneration = [d \in Domains |-> 1]
  /\ memberGeneration = [d \in Domains |-> 1]
  /\ domainGeneration = [d \in Domains |-> 1]
  /\ policy = [p \in Policies |-> IF p = DefaultPolicy THEN 1 ELSE 0]
  /\ policyGeneration = 1 /\ topologyGeneration = 1 /\ capabilityGeneration = 1
  /\ evidence = [k \in Keys |-> NoEvidence] /\ invalidated = {}
  /\ actionGeneration = 1
  /\ lifecycle = [i \in ActionIds |-> "PLANNED"]
  /\ authority = [i \in ActionIds |-> NoAuthority]
  /\ dispatchedAt = [i \in ActionIds |-> 0]
  /\ baselines = {} /\ verifications = <<>> /\ calls = [c \in Callers |-> NoCall]

Tick ==
  /\ now < MaxTime
  /\ now' = now + 1
  /\ UNCHANGED <<shutdown, workerVars, configVars, evidenceVars, actionVars, calls>>

-----------------------------------------------------------------------------
(* Reading the state *)

\* policy_for: the domain's policy when installed, else the default policy.
GoverningPolicy(d) == IF policy[PolicyOf[d]] > 0 THEN PolicyOf[d] ELSE DefaultPolicy

\* gather_domain_evidence: what the runtime holds for the member the domain names.
MemberKey(d) == <<d, memberGeneration[d]>>
Held(d) == evidence[MemberKey(d)]
HasEvidence(d) == Held(d).telemetry > 0

-----------------------------------------------------------------------------
(* Evidence *)

\* tg_worker stamps a reading when it takes it, before it sends it.
Taken(e) == e.measuredAt <= now

\* Mutation: any boot of a live worker is taken.
AdmittedFromAnyBoot(e) ==
  /\ shutdown = "running"
  /\ \/ e.worker = NoWorker /\ e.boot = 0
     \/ e.worker \in Workers /\ boot[e.worker] > 0 /\ e.boot > 0 /\ alive[e.worker]

\* The epoch, worker and device fences of publish_impl for a reading of a
\* device; a reading names the domain at its current generation.
Admitted(e) ==
  /\ shutdown = "running"
  /\ \/ e.worker = NoWorker /\ e.boot = 0
     \/ e.worker \in Workers /\ boot[e.worker] > 0 /\ e.boot = boot[e.worker] /\ alive[e.worker]

SameIncarnation(h, e) == h.worker = e.worker /\ h.boot = e.boot

\* compare_evidence = INDEPENDENT, or a first or a new incarnation's reading.
Advances(k, e) == SameIncarnation(evidence[k], e) => e.telemetry > evidence[k].telemetry

\* compare_evidence = IDENTICAL_DUPLICATE: the digest leaves measured_at out.
Repeats(k, e) == SameIncarnation(evidence[k], e) /\ e.telemetry = evidence[k].telemetry

Store(k, e) ==
  /\ evidence' = [evidence EXCEPT ![k] = e]
  /\ invalidated' = invalidated \ {k}

\* publish_temperature and the other publish_* entry points.
Publish(d, e) ==
  LET k == <<d, deviceGeneration[d]>>
  IN /\ Taken(e) /\ Admitted(e) /\ Advances(k, e)
     /\ Store(k, e)
     /\ UNCHANGED <<clockVars, workerVars, configVars, actionVars, calls>>

-----------------------------------------------------------------------------
(* Worker incarnations *)

\* Mutations: authorised actions are left alone; terminal ones are not.
InFlightBoundTo(w, b) ==
  {i \in ActionIds : lifecycle[i] \in InFlight /\ authority[i].worker = w /\ authority[i].boot = b}
EverBoundTo(w, b) ==
  {i \in ActionIds : lifecycle[i] # "PLANNED" /\ authority[i].worker = w /\ authority[i].boot = b}

LiveBoundTo(w, b) ==
  {i \in ActionIds : lifecycle[i] \in Live /\ authority[i].worker = w /\ authority[i].boot = b}

\* retire_boot_locked, except for the alive flag its callers also set.  The
\* planning baselines of every action are dropped.
RetireBoot(w, b) ==
  /\ invalidated' =
       invalidated \cup {k \in Keys : evidence[k].worker = w /\ evidence[k].boot = b}
  /\ lifecycle' = [i \in ActionIds |->
       IF i \in LiveBoundTo(w, b) THEN "OUTCOME_UNKNOWN" ELSE lifecycle[i]]
  /\ baselines' = {}
  /\ UNCHANGED <<evidence, actionGeneration, authority, dispatchedAt, verifications>>

Registered == {w \in Workers : boot[w] > 0}

\* register_worker.  A reincarnation retires the previous boot before the
\* worker limit is looked at, so at the limit it fails after the retirement.
RegisterWorker(w, b) ==
  /\ b >= boot[w]
  /\ UNCHANGED <<clockVars, configVars, calls>>
  /\ \/ /\ b = boot[w]
        /\ alive' = [alive EXCEPT ![w] = TRUE]
        /\ UNCHANGED <<boot, evidenceVars, actionVars>>
     \/ /\ b # boot[w]
        /\ IF boot[w] > 0 THEN RetireBoot(w, boot[w]) ELSE UNCHANGED <<evidenceVars, actionVars>>
        /\ IF Cardinality(Registered) < MaxWorkers
           THEN /\ boot' = [boot EXCEPT ![w] = b]
                /\ alive' = [alive EXCEPT ![w] = TRUE]
           ELSE /\ alive' = [alive EXCEPT ![w] = FALSE]
                /\ UNCHANGED boot

Heartbeat(w) ==
  /\ boot[w] > 0
  /\ alive' = [alive EXCEPT ![w] = TRUE]
  /\ UNCHANGED <<clockVars, boot, configVars, evidenceVars, actionVars, calls>>

NoteWorkerDeath(w) ==
  /\ boot[w] > 0
  /\ alive' = [alive EXCEPT ![w] = FALSE]
  /\ RetireBoot(w, boot[w])
  /\ UNCHANGED <<clockVars, boot, configVars, calls>>

-----------------------------------------------------------------------------
(* Configuration *)

\* set_policy: a policy's generation must advance; the runtime's own counter
\* advances by one whatever generation the policy was given.
SetPolicy(p, g) ==
  /\ g > policy[p]
  /\ policyGeneration < MaxPolicyGeneration
  /\ policy' = [policy EXCEPT ![p] = g]
  /\ policyGeneration' = policyGeneration + 1
  /\ UNCHANGED <<clockVars, workerVars, deviceGeneration, memberGeneration, domainGeneration,
                 topologyGeneration, capabilityGeneration, evidenceVars, actionVars, calls>>

\* register_device of a device already known (below max_devices), at its
\* generation or a later one.
RegisterDevice(d, g) ==
  /\ g >= deviceGeneration[d]
  /\ capabilityGeneration < MaxCapability
  /\ deviceGeneration' = [deviceGeneration EXCEPT ![d] = g]
  /\ capabilityGeneration' = capabilityGeneration + 1
  /\ UNCHANGED <<clockVars, workerVars, memberGeneration, domainGeneration, policy,
                 policyGeneration, topologyGeneration, evidenceVars, actionVars, calls>>

\* publish_capabilities under the device's registered generation.
PublishCapabilities ==
  /\ Domains # {}
  /\ capabilityGeneration < MaxCapability
  /\ capabilityGeneration' = capabilityGeneration + 1
  /\ UNCHANGED <<clockVars, workerVars, deviceGeneration, memberGeneration, domainGeneration,
                 policy, policyGeneration, topologyGeneration, evidenceVars, actionVars, calls>>

\* Mutation: an update under the current generation is taken.
KeepsGeneration(d, g) == g >= domainGeneration[d]

\* DomainRegistry::update takes an advancing generation only.
AdvancesGeneration(d, g) == g > domainGeneration[d]

\* update_thermal_domain: keeps the member or names the device's registered
\* generation; whatever is held for d was published under an older generation.
UpdateDomain(d, g, m) ==
  /\ m \in {memberGeneration[d], deviceGeneration[d]}
  /\ AdvancesGeneration(d, g) /\ topologyGeneration < MaxTopology
  /\ domainGeneration' = [domainGeneration EXCEPT ![d] = g]
  /\ memberGeneration' = [memberGeneration EXCEPT ![d] = m]
  /\ topologyGeneration' = topologyGeneration + 1
  /\ invalidated' = invalidated \cup {k \in Keys : k[1] = d /\ evidence[k].telemetry > 0}
  /\ UNCHANGED <<clockVars, workerVars, deviceGeneration, policy, policyGeneration,
                 capabilityGeneration, evidence, actionVars, calls>>

\* register_coupling and remove_coupling.
ChangeCoupling ==
  /\ topologyGeneration < MaxTopology
  /\ topologyGeneration' = topologyGeneration + 1
  /\ UNCHANGED <<clockVars, workerVars, deviceGeneration, memberGeneration, domainGeneration,
                 policy, policyGeneration, capabilityGeneration, evidenceVars, actionVars, calls>>

-----------------------------------------------------------------------------
(* Actions *)

\* authorize_mitigation (and the second section of authorize_derating) once the
\* evaluation lets the intent through: the action is bound to the evidence the
\* runtime holds, retired or not.  Invalidated or absent evidence evaluates to
\* REVALIDATION_REQUIRED or UNKNOWN, which leaves the action's provenance UNKNOWN;
\* stale evidence and unresolved capabilities may do so too.
Authorize(d, known) ==
  LET i == actionGeneration + 1
      h == Held(d)
  IN /\ actionGeneration - 1 < MaxActions
     /\ known => HasEvidence(d) /\ MemberKey(d) \notin invalidated
     /\ actionGeneration' = i
     /\ lifecycle' = [lifecycle EXCEPT ![i] = "AUTHORIZED"]
     /\ authority' = [authority EXCEPT ![i] =
          [domain |-> d, domainGeneration |-> domainGeneration[d],
           deviceGeneration |-> IF HasEvidence(d) THEN memberGeneration[d] ELSE 0,
           policyGeneration |-> policy[GoverningPolicy(d)],
           telemetry |-> h.telemetry, worker |-> h.worker, boot |-> h.boot,
           topologyGeneration |-> topologyGeneration,
           capabilityGeneration |-> capabilityGeneration,
           provenance |-> IF known THEN "KNOWN" ELSE "UNKNOWN"]]
     /\ baselines' = baselines \cup {i}
     /\ UNCHANGED <<clockVars, workerVars, configVars, evidenceVars, dispatchedAt,
                    verifications, calls>>

\* revalidate_action_authority against what the runtime holds now.
Revalidated(i) ==
  LET a == authority[i]
      h == Held(a.domain)
  IN /\ a.worker # NoWorker => h.boot = a.boot
     /\ a.deviceGeneration > 0 =>
          HasEvidence(a.domain) /\ memberGeneration[a.domain] = a.deviceGeneration
     /\ domainGeneration[a.domain] = a.domainGeneration
     /\ policyGeneration = a.policyGeneration
     /\ h.telemetry >= a.telemetry
     /\ topologyGeneration = a.topologyGeneration
     /\ capabilityGeneration = a.capabilityGeneration

\* record_action_dispatch
Dispatch(i) ==
  /\ lifecycle[i] = "AUTHORIZED"
  /\ \/ /\ Revalidated(i)
        /\ lifecycle' = [lifecycle EXCEPT ![i] = "DISPATCHED"]
        /\ dispatchedAt' = [dispatchedAt EXCEPT ![i] = now]
     \/ /\ ~Revalidated(i)
        /\ lifecycle' = [lifecycle EXCEPT ![i] = "SUPERSEDED"]
        /\ UNCHANGED dispatchedAt
  /\ UNCHANGED <<clockVars, workerVars, configVars, evidenceVars, actionGeneration, authority,
                 baselines, verifications, calls>>

\* The fences of record_action_ack and record_action_result on a report sent by
\* an incarnation with boot b.  The worker echoes the action's other
\* generations, which are compared with the action's own.
FromBoundBoot(i, b) ==
  /\ lifecycle[i] # "PLANNED"
  /\ authority[i].worker # NoWorker => b = authority[i].boot

\* record_action_ack.  A repeat in ACKNOWLEDGED or VERIFYING changes nothing.
Ack(i, b, accepted) ==
  /\ FromBoundBoot(i, b)
  /\ lifecycle[i] = "DISPATCHED"
  /\ lifecycle' = [lifecycle EXCEPT ![i] = IF accepted THEN "ACKNOWLEDGED" ELSE "FAILED"]
  /\ UNCHANGED <<clockVars, workerVars, configVars, evidenceVars, actionGeneration, authority,
                 dispatchedAt, baselines, verifications, calls>>

PolicySuperseded(i, g) ==
  \/ g # authority[i].policyGeneration
  \/ policy[GoverningPolicy(authority[i].domain)] # authority[i].policyGeneration

\* record_action_result carrying policy generation g.  The policy check comes
\* before the terminal check.
Result(i, b, g, succeeded) ==
  /\ FromBoundBoot(i, b)
  /\ \/ /\ PolicySuperseded(i, g)
        /\ lifecycle' = [lifecycle EXCEPT ![i] = "SUPERSEDED"]
     \/ /\ ~PolicySuperseded(i, g)
        /\ lifecycle[i] \in {"ACKNOWLEDGED", "DISPATCHED"}
        /\ lifecycle' = [lifecycle EXCEPT ![i] = IF succeeded THEN "VERIFYING" ELSE "FAILED"]
  /\ UNCHANGED <<clockVars, workerVars, configVars, evidenceVars, actionGeneration, authority,
                 dispatchedAt, baselines, verifications, calls>>

\* Mutation: a dispatched action is cancelled like an authorised one.
CancelOutright(i) ==
  /\ lifecycle[i] \in Live
  /\ lifecycle' = [lifecycle EXCEPT ![i] = "CANCELLED"]
  /\ UNCHANGED <<clockVars, workerVars, configVars, evidenceVars, actionGeneration, authority,
                 dispatchedAt, baselines, verifications, calls>>

\* cancel_action
Cancel(i) ==
  /\ \/ /\ lifecycle[i] = "AUTHORIZED"
        /\ lifecycle' = [lifecycle EXCEPT ![i] = "CANCELLED"]
     \/ /\ lifecycle[i] \in InFlight
        /\ lifecycle' = [lifecycle EXCEPT ![i] = "VERIFYING"]
  /\ UNCHANGED <<clockVars, workerVars, configVars, evidenceVars, actionGeneration, authority,
                 dispatchedAt, baselines, verifications, calls>>

-----------------------------------------------------------------------------
(* Verification: two critical sections with the lock released in between *)

\* First section of verify_action(i, e): the reading, of any device, goes
\* through the ordinary publication.
BeginVerify(c, i, d, e) ==
  LET k == <<d, deviceGeneration[d]>>
  IN /\ calls[c] = NoCall
     /\ Taken(e) /\ Admitted(e)
     /\ \/ Advances(k, e) /\ Store(k, e)
        \/ Repeats(k, e) /\ UNCHANGED evidenceVars
     /\ calls' = [calls EXCEPT ![c] = [action |-> i, measuredAt |-> e.measuredAt]]
     /\ UNCHANGED <<clockVars, workerVars, configVars, actionVars>>

\* The checks of thermal_governor::verify_action.  Those on worker boot and
\* device generation compare the action's authority with itself, and no device
\* reading is ever invalidated under a domain's key.
Proves(p) ==
  LET a == authority[p.action]
  IN /\ p.measuredAt > dispatchedAt[p.action]
     /\ domainGeneration[a.domain] = a.domainGeneration
     /\ Held(a.domain).telemetry >= a.telemetry

\* Mutation: the lifecycle is not looked at again under the second lock.
VerifiableInAnyLifecycle(p) == lifecycle[p.action] # "PLANNED" /\ Proves(p)

\* The checks of the second section.
Verifiable(p) ==
  /\ lifecycle[p.action] \in InFlight
  /\ Len(verifications) < MaxVerifications
  /\ p.action \in baselines
  /\ Proves(p)

\* The lifecycle the verification concludes with: free in the thermal content,
\* SUPERSEDED once the runtime's policy counter left the authority's generation.
Conclusions(i) ==
  IF policyGeneration = authority[i].policyGeneration THEN Verified ELSE {"SUPERSEDED"}

\* Second section.  evidenceAt is history: when the reading the evaluation
\* rested on was taken.
Commit(c, l) ==
  LET i == calls[c].action
      h == Held(authority[i].domain)
  IN /\ calls[c] # NoCall
     /\ Verifiable(calls[c]) /\ l \in Conclusions(i)
     /\ calls' = [calls EXCEPT ![c] = NoCall]
     /\ lifecycle' = [lifecycle EXCEPT ![i] = l]
     /\ verifications' = Append(verifications,
          [action |-> i, lifecycle |-> l, evidenceAt |-> h.measuredAt])
     /\ UNCHANGED <<clockVars, workerVars, configVars, evidenceVars, actionGeneration, authority,
                    dispatchedAt, baselines>>

RefuseCommit(c) ==
  /\ calls[c] # NoCall
  /\ ~Verifiable(calls[c])
  /\ calls' = [calls EXCEPT ![c] = NoCall]
  /\ UNCHANGED <<clockVars, workerVars, configVars, evidenceVars, actionVars>>

-----------------------------------------------------------------------------
(* Shutdown: the flag is set before the lock is taken *)

BeginShutdown ==
  /\ shutdown = "running"
  /\ shutdown' = "stopping"
  /\ UNCHANGED <<now, workerVars, configVars, evidenceVars, actionVars, calls>>

FinishShutdown ==
  /\ shutdown = "stopping"
  /\ shutdown' = "stopped"
  /\ lifecycle' = [i \in ActionIds |-> Classified(lifecycle[i])]
  /\ UNCHANGED <<now, workerVars, configVars, evidenceVars, actionGeneration, authority,
                 dispatchedAt, baselines, verifications, calls>>

-----------------------------------------------------------------------------
Next ==
  \/ Tick
  \/ \E d \in Domains, e \in Readings : Publish(d, e)
  \/ \E w \in Workers, b \in 1..MaxBoot : RegisterWorker(w, b)
  \/ \E w \in Workers : Heartbeat(w) \/ NoteWorkerDeath(w)
  \/ \E p \in Policies, g \in 1..MaxPolicyGeneration : SetPolicy(p, g)
  \/ \E d \in Domains, g \in 1..MaxDeviceGeneration : RegisterDevice(d, g)
  \/ \E d \in Domains, g \in 1..MaxDomainGeneration, m \in 1..MaxDeviceGeneration :
       UpdateDomain(d, g, m)
  \/ PublishCapabilities
  \/ ChangeCoupling
  \/ \E d \in Domains, known \in BOOLEAN : Authorize(d, known)
  \/ \E i \in ActionIds : Dispatch(i) \/ Cancel(i)
  \/ \E i \in ActionIds, b \in 0..MaxBoot, yes \in BOOLEAN : Ack(i, b, yes)
  \/ \E i \in ActionIds, b \in 0..MaxBoot, g \in 1..MaxPolicyGeneration, yes \in BOOLEAN :
       Result(i, b, g, yes)
  \/ \E c \in Callers, i \in ActionIds, d \in Domains, e \in Readings : BeginVerify(c, i, d, e)
  \/ \E c \in Callers : RefuseCommit(c) \/ \E l \in Lifecycles : Commit(c, l)
  \/ BeginShutdown
  \/ FinishShutdown

Spec == Init /\ [][Next]_vars

-----------------------------------------------------------------------------
(* Properties *)

Verifications ==
  [action : ActionIds, lifecycle : Verified \cup {"SUPERSEDED"}, evidenceAt : 0..MaxTime]

ClockOK == now \in 1..MaxTime /\ shutdown \in {"running", "stopping", "stopped"}

WorkersOK == boot \in [Workers -> 0..MaxBoot] /\ alive \in [Workers -> BOOLEAN]

ConfigOK ==
  /\ deviceGeneration \in [Domains -> 1..MaxDeviceGeneration]
  /\ memberGeneration \in [Domains -> 1..MaxDeviceGeneration]
  /\ domainGeneration \in [Domains -> 1..MaxDomainGeneration]
  /\ policy \in [Policies -> 0..MaxPolicyGeneration] /\ policy[DefaultPolicy] > 0
  /\ policyGeneration \in 1..MaxPolicyGeneration
  /\ topologyGeneration \in 1..MaxTopology /\ capabilityGeneration \in 1..MaxCapability

EvidenceOK ==
  evidence \in [Keys -> Readings \cup {NoEvidence}] /\ invalidated \in SUBSET Keys

ActionsOK ==
  /\ actionGeneration \in 1..(MaxActions + 1)
  /\ lifecycle \in [ActionIds -> Lifecycles]
  /\ authority \in [ActionIds -> Authorities \cup {NoAuthority}]
  /\ \A i \in ActionIds :
       /\ i <= actionGeneration => lifecycle[i] # "PLANNED" /\ authority[i] \in Authorities
       /\ i > actionGeneration => lifecycle[i] = "PLANNED" /\ dispatchedAt[i] = 0
  /\ dispatchedAt \in [ActionIds -> 0..MaxTime]
  /\ baselines \in SUBSET ActionIds
  /\ verifications \in Seq(Verifications)

CallsOK == calls \in [Callers -> PendingCalls \cup {NoCall}]

\* Every variable stays in its set; an identifier carries an authority exactly
\* when a record has been created for it.
TypeOK == ClockOK /\ WorkersOK /\ ConfigOK /\ EvidenceOK /\ ActionsOK /\ CallsOK

\* An action is verified at most once, and one that reads EFFECTIVE,
\* PARTIALLY_EFFECTIVE, INEFFECTIVE or WORSENED has the verification record that
\* concluded so: neither an acknowledgement, a backend success nor two
\* concurrent verify_action calls produce a verdict of their own.
VerifiedOnce ==
  /\ \A m, n \in DOMAIN verifications : verifications[m].action = verifications[n].action => m = n
  /\ \A i \in ActionIds : lifecycle[i] \in Verified =>
       \E n \in DOMAIN verifications :
         verifications[n].action = i /\ verifications[n].lifecycle = lifecycle[i]

\* A cancelled action was never dispatched and no verification concerns it, so
\* nothing can report success for it later; and whatever was acknowledged,
\* failed or verified had been dispatched (CancellationResult, action.hpp).
CancelledNeverRan ==
  \A i \in ActionIds :
    /\ lifecycle[i] = "CANCELLED" =>
         dispatchedAt[i] = 0 /\ ~\E n \in DOMAIN verifications : verifications[n].action = i
    /\ lifecycle[i] \in InFlight \cup Verified \cup {"FAILED"} => dispatchedAt[i] > 0

Contract == INSTANCE ActionContract
  WITH Actions <- ActionIds, dispatched <- {i \in ActionIds : dispatchedAt[i] > 0}

\* The one exception to "no further transition may leave this lifecycle position"
\* (action.hpp:65): record_action_result asks for the policy before it asks
\* whether the action is terminal, so that a result of the bound boot which comes
\* after the policy has moved on, or echoes another generation, rewrites what was
\* concluded as SUPERSEDED.  It touches nothing else.
OutcomeOverruled(i) ==
  \E b \in 0..MaxBoot, g \in 1..MaxPolicyGeneration :
    IsTerminal(lifecycle[i]) /\ PolicySuperseded(i, g) /\ Result(i, b, g, FALSE)

\* The actions keep the contract of their lifecycle but for that exception:
\* whatever the generations, workers, evidence and policies do, a step moves an
\* action along the contract's edges or leaves it alone, and no late
\* acknowledgement, verification, cancellation, retirement or shutdown, nor any
\* result under a policy that stands, leaves a terminal position.
KeepsContract ==
  Contract!Init /\ [][Contract!Next \/ \E i \in ActionIds : OutcomeOverruled(i)]_Contract!vars

\* Evidence the runtime still trusts was produced by the incarnation its worker
\* is registered under: whatever order registrations, deaths, heartbeats and
\* delayed readings come in, a retired boot's reading is never current.
UsableEvidenceIsCurrent ==
  \A k \in Keys \ invalidated :
    evidence[k].worker \in Workers => evidence[k].boot = boot[evidence[k].worker]

\* A live action authorised on evidence of known provenance is bound to the boot
\* its worker is registered under: retirement leaves no such action in flight.
KnownActionsDieWithTheirBoot ==
  \A i \in ActionIds :
    /\ lifecycle[i] \in Live
    /\ authority[i].provenance = "KNOWN" /\ authority[i].worker \in Workers
    => authority[i].boot = boot[authority[i].worker]

\* While the domain keeps the generation an action was authorised under it also
\* keeps the member whose evidence the action rests on: the domain fence stands
\* in for the device fence of verification, which compares the action's
\* authority with itself.
MembersFencedByDomain ==
  \A i \in ActionIds :
    /\ lifecycle[i] # "PLANNED" /\ authority[i].deviceGeneration > 0
    /\ domainGeneration[authority[i].domain] = authority[i].domainGeneration
    => memberGeneration[authority[i].domain] = authority[i].deviceGeneration

\* An outcome is final but for that exception: an action leaves a terminal
\* position in no step but one of record_action_result that overrules it.
OutcomesAreFinal ==
  [][\A i \in ActionIds :
       IsTerminal(lifecycle[i]) => lifecycle'[i] = lifecycle[i] \/ OutcomeOverruled(i)]_vars

\* Once shutdown has classified the actions no verification commits any more,
\* even one whose reading was published before the flag was set.
NothingProvenAfterShutdown ==
  [][shutdown = "stopped" => verifications' = verifications]_vars

=============================================================================
