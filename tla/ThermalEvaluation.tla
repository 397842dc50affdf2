-------------------------- MODULE ThermalEvaluation --------------------------
(***************************************************************************)
(* One evaluation of one thermal domain (src/src/evaluation.cpp, with      *)
(* headroom.cpp and recovery.cpp) and the admission decision made from it  *)
(* (governance.cpp, evaluate_admission), as functions of the evidence, the *)
(* previous evaluation, the recovery history and the coupled domains.      *)
(*                                                                         *)
(* Temperatures and times are integers.  The device generation and the     *)
(* coordinator epoch do not change here, so the two recovery requirements  *)
(* about them always hold.  Reasons, intents and renderings are left out.  *)
(***************************************************************************)
EXTENDS Integers, Sequences, FiniteSets

CONSTANT Policy

Healthy == {"NORMAL", "WARM", "NEAR_LIMIT"}
Restrictive == {"DERATED", "THROTTLING", "CRITICAL"}
Unresolved == {"REVALIDATION_REQUIRED", "UNKNOWN", "UNSUPPORTED"}
ThermalStates == Healthy \cup Restrictive \cup Unresolved

Severity ==
  [NORMAL |-> 0, WARM |-> 1, NEAR_LIMIT |-> 2, DERATED |-> 3, THROTTLING |-> 4,
   CRITICAL |-> 5, REVALIDATION_REQUIRED |-> 6, UNKNOWN |-> 7, UNSUPPORTED |-> 8]

RestrictionRank ==
  [FULL_CAPABILITY |-> 0, DERATED_WORKLOAD_CLASS |-> 1, DERATED_CLOCK |-> 2,
   DERATED_ADMISSION |-> 3, DERATED_CONCURRENCY |-> 4, DERATED_COMBINED |-> 5,
   NO_SAFE_EXECUTION |-> 6, REVALIDATION_REQUIRED |-> 7, UNKNOWN |-> 8, UNSUPPORTED |-> 9]
DeratingLevels == DOMAIN RestrictionRank

ExecutionClasses == {"UNRESTRICTED", "REDUCED_CONCURRENCY", "REDUCED_CLOCK", "BEST_EFFORT_THERMAL"}
UnknownBehaviors == {"UNKNOWN", "REVALIDATION_REQUIRED", "DEFER", "DENY", "ALLOW_DERATED"}
UnsupportedBehaviors == {"UNSUPPORTED", "REVALIDATION_REQUIRED", "DEFER", "DENY"}
Decisions == {"ALLOW", "DENY"} \cup UnknownBehaviors \cup UnsupportedBehaviors
CapabilityStates == {"SUPPORTED", "UNSUPPORTED", "UNKNOWN"}

\* What validate_policy accepts.
ASSUME ValidPolicy ==
  /\ {Policy.warning, Policy.derating, Policy.critical, Policy.recovery} \subseteq Int
  /\ Policy.warning < Policy.derating /\ Policy.derating < Policy.critical
  /\ Policy.recovery < Policy.derating
  /\ Policy.nearLimitBand \in Nat \ {0}
  /\ Policy.derating - Policy.nearLimitBand >= Policy.warning
  /\ {Policy.safetyMargin, Policy.uncertaintyMargin, Policy.recoveryMargin,
      Policy.minHeadroom, Policy.maxAge, Policy.minSpan, Policy.depth} \subseteq Nat
  /\ Policy.depth <= 8
  /\ Policy.requiredSamples \in Nat \ {0}
  /\ Policy.minWitnesses \in 0..Policy.requiredSamples
  /\ {Policy.coDerate, Policy.escalate, Policy.denyAll, Policy.deratedAdmission,
      Policy.deferAllowed, Policy.requireNoThrottle, Policy.requireHeadroom,
      Policy.requireSameBoot, Policy.requireExplicit} \subseteq BOOLEAN
  /\ Policy.unknownBehavior \in UnknownBehaviors
  /\ Policy.unsupportedBehavior \in UnsupportedBehaviors
  /\ Policy.ceiling \in [{"NORMAL", "WARM", "NEAR_LIMIT", "DERATED", "CRITICAL"} -> 0..100]
  /\ Policy.ceiling["NORMAL"] >= Policy.ceiling["WARM"]
  /\ Policy.ceiling["WARM"] >= Policy.ceiling["NEAR_LIMIT"]
  /\ Policy.ceiling["NEAR_LIMIT"] >= Policy.ceiling["DERATED"]
  /\ Policy.ceiling["DERATED"] >= Policy.ceiling["CRITICAL"]
  /\ \A profile \in DOMAIN Policy.workload :
       /\ Policy.workload[profile].allowed \in BOOLEAN
       /\ Policy.workload[profile].class \in ExecutionClasses
       /\ Policy.workload[profile].demand \in Nat

NoReading == [temperature |-> 0, throttled |-> FALSE, boot |-> 0, age |-> 0, limit |-> 0]
NoEvaluation == [state |-> "UNKNOWN", derating |-> "UNKNOWN"]

--------------------------------------------------------------------------------
(* Workload restrictions and concurrency ceilings of the policy. *)

Listed(profile) == profile \in DOMAIN Policy.workload /\ Policy.workload[profile].allowed
RequiredClass(profile) == IF Listed(profile) THEN Policy.workload[profile].class ELSE "BEST_EFFORT_THERMAL"
Demand(profile) == IF profile \in DOMAIN Policy.workload THEN Policy.workload[profile].demand ELSE 0
WorkloadRestricted(profile) == RequiredClass(profile) # "UNRESTRICTED" \/ Demand(profile) > 0

Ceiling(state) ==
  CASE state \in Healthy \cup {"DERATED"} -> Policy.ceiling[state]
    [] state = "THROTTLING" -> Policy.ceiling["DERATED"]
    [] OTHER -> Policy.ceiling["CRITICAL"]

--------------------------------------------------------------------------------
(* The evaluation input: capability and throttleCapability, reading (the   *)
(* evidence gathered for the domain) and whether it is fresh, the previous *)
(* evaluation, the recovery history (oldest sample first), the explicit    *)
(* authorisation and the states of the coupled upstream domains.           *)

RecoveryGate == Policy.recovery + Policy.recoveryMargin

GoverningLimit(reading) ==
  IF reading.limit < Policy.critical THEN reading.limit ELSE Policy.critical

EffectiveHeadroom(reading) ==
  GoverningLimit(reading) - reading.temperature - Policy.safetyMargin - Policy.uncertaintyMargin

\* The conditions under which the walk over the history goes past a sample.
FromBoot(sample, boot) == Policy.requireSameBoot => sample.boot = boot
Cool(sample) == sample.temperature < RecoveryGate
ThrottleClear(sample) == Policy.requireNoThrottle => ~sample.throttled
Qualifies(sample, boot) == FromBoot(sample, boot) /\ Cool(sample) /\ ThrottleClear(sample)

\* The walk counts the samples from first to the newest.
RunStartsAt(history, boot, first) ==
  /\ \A i \in first..Len(history) : Qualifies(history[i], boot)
  /\ first > 1 => ~Qualifies(history[first - 1], boot)

StoppedByThrottle(history, boot, first) ==
  /\ first > 1
  /\ FromBoot(history[first - 1], boot) /\ Cool(history[first - 1])
  /\ ~ThrottleClear(history[first - 1])

\* Mutation: a sample that does not qualify is passed over and the walk goes on.
WitnessedHereAndThere(history, boot) ==
  LET run == SelectSeq(history, LAMBDA sample : Qualifies(sample, boot)) IN
  /\ Len(run) >= Policy.requiredSamples
  /\ run[1].age - run[Len(run)].age >= Policy.minSpan
  /\ Cardinality({run[i].boot : i \in DOMAIN run}) >= Policy.minWitnesses

Witnessed(history, boot) ==
  \E first \in 1..(Len(history) + 1) :
    /\ RunStartsAt(history, boot, first)
    /\ ~StoppedByThrottle(history, boot, first)
    /\ Len(history) - first + 1 >= Policy.requiredSamples
    /\ history[first].age - history[Len(history)].age >= Policy.minSpan
    /\ Cardinality({history[i].boot : i \in first..Len(history)}) >= Policy.minWitnesses

RecoveryAllowed(in) ==
  /\ in.reading.temperature < RecoveryGate
  /\ Policy.requireHeadroom => EffectiveHeadroom(in.reading) > 0
  /\ Witnessed(in.history, in.reading.boot)
  /\ in.upstream \subseteq Healthy
  /\ Policy.requireExplicit => in.explicit

ThrottleObserved(in) == in.throttleCapability # "UNSUPPORTED" /\ in.reading.throttled

Band(in) ==
  LET t == in.reading.temperature IN
  CASE t >= Policy.critical -> "CRITICAL"
    [] t < Policy.critical /\ ThrottleObserved(in) -> "THROTTLING"
    [] t \in Policy.derating..(Policy.critical - 1) /\ ~ThrottleObserved(in) -> "DERATED"
    [] t \in (Policy.derating - Policy.nearLimitBand)..(Policy.derating - 1)
         /\ ~ThrottleObserved(in) -> "NEAR_LIMIT"
    [] t \in Policy.warning..(Policy.derating - Policy.nearLimitBand - 1)
         /\ ~ThrottleObserved(in) -> "WARM"
    [] t < Policy.warning /\ ~ThrottleObserved(in) -> "NORMAL"

Pressure(upstream) ==
  IF Policy.coDerate
  THEN upstream \cap (IF Policy.escalate THEN Restrictive \cup Unresolved ELSE Restrictive)
  ELSE {}

MostSevere(states) == CHOOSE s \in states : \A other \in states : Severity[other] <= Severity[s]

Candidate(in) ==
  LET pressure == Pressure(in.upstream)
      worst == MostSevere({Band(in)} \cup (IF Policy.escalate THEN pressure ELSE {}))
  IN  IF pressure # {} /\ worst \in Healthy THEN "DERATED" ELSE worst

NextThermalState(in) ==
  IF Candidate(in) \in Healthy /\ in.previous.state \in Restrictive /\ ~RecoveryAllowed(in)
  THEN "DERATED"
  ELSE Candidate(in)

DeratingForState(state, restricted) ==
  CASE state = "NORMAL" -> "FULL_CAPABILITY"
    [] state = "WARM" -> IF restricted THEN "DERATED_WORKLOAD_CLASS" ELSE "FULL_CAPABILITY"
    [] state = "NEAR_LIMIT" -> IF restricted THEN "DERATED_COMBINED" ELSE "DERATED_CONCURRENCY"
    [] state = "DERATED" -> IF Ceiling(state) < 100 THEN "DERATED_COMBINED" ELSE "DERATED_CLOCK"
    [] state = "THROTTLING" -> "DERATED_COMBINED"
    [] state = "CRITICAL" -> "NO_SAFE_EXECUTION"
    [] state \in Unresolved -> state

\* Mutation: the previous level is forgotten.
UnclampedDerating(state, previous) == DeratingForState(state, WorkloadRestricted("UNKNOWN_PROFILE"))

\* The level may only tighten while a restriction stands.
ClampedDerating(state, previous) ==
  LET base == DeratingForState(state, WorkloadRestricted("UNKNOWN_PROFILE")) IN
  IF /\ previous # "UNKNOWN"
     /\ state \notin Healthy \cup {"REVALIDATION_REQUIRED"}
     /\ RestrictionRank[base] < RestrictionRank[previous]
  THEN previous
  ELSE base

MeetsDemand(headroom, profile) == headroom >= Policy.minHeadroom + Demand(profile)

Decision(state, headroom) ==
  CASE state \in Healthy ->
         IF MeetsDemand(headroom, "UNKNOWN_PROFILE") THEN "ALLOW"
         ELSE IF Policy.deratedAdmission THEN "ALLOW_DERATED" ELSE "DENY"
    [] state \in {"DERATED", "THROTTLING"} -> "ALLOW_DERATED"
    [] state = "CRITICAL" -> IF Policy.denyAll THEN "DENY" ELSE "ALLOW_DERATED"
    [] state = "REVALIDATION_REQUIRED" -> "REVALIDATION_REQUIRED"
    [] state = "UNKNOWN" -> Policy.unknownBehavior
    [] state = "UNSUPPORTED" -> Policy.unsupportedBehavior

PermittedClass(state) ==
  IF state = "CRITICAL" THEN "BEST_EFFORT_THERMAL" ELSE RequiredClass("UNKNOWN_PROFILE")

\* The hard predicates: no verdict without a resolved capability and fresh evidence.
Unjudged(state) ==
  [state |-> state, derating |-> state, headroom |-> 0, class |-> "BEST_EFFORT_THERMAL",
   concurrency |-> IF state = "UNSUPPORTED" THEN 0 ELSE Ceiling(state),
   decision |-> Decision(state, 0)]

Judged(in) ==
  LET state == NextThermalState(in)
      headroom == EffectiveHeadroom(in.reading)
  IN  [state |-> state, derating |-> ClampedDerating(state, in.previous.derating),
       headroom |-> headroom, class |-> PermittedClass(state), concurrency |-> Ceiling(state),
       decision |-> Decision(state, headroom)]

HasReading(in) == in.reading # NoReading

EvaluateThermal(in) ==
  IF in.capability # "SUPPORTED" THEN Unjudged(in.capability)
  ELSE IF HasReading(in) /\ in.fresh THEN Judged(in)
  ELSE Unjudged("REVALIDATION_REQUIRED")

--------------------------------------------------------------------------------
(* evaluate_admission: the decision for a request of a workload profile, an *)
(* execution class and a concurrency, from the evaluation e made for it.    *)

\* Conditions under which an admitted request is admitted only derated.
NeedsDerating(request, e) ==
  \/ e.decision = "ALLOW_DERATED"
  \/ ~MeetsDemand(e.headroom, request.profile)
  \/ request.concurrency > e.concurrency
  \/ request.class \notin {"UNRESTRICTED", "BEST_EFFORT_THERMAL"} /\ e.class = "BEST_EFFORT_THERMAL"
  \/ RequiredClass(request.profile) \notin {"UNRESTRICTED", e.class}

\* Conditions under which a derated admission has to be allowed by the policy.
NeedsPermission(request, e) ==
  \/ ~MeetsDemand(e.headroom, request.profile)
  \/ RequiredClass(request.profile) \notin {"UNRESTRICTED", e.class} /\ e.class = "BEST_EFFORT_THERMAL"

EvaluateAdmission(request, e) ==
  CASE ~Listed(request.profile) -> "DENY"
    [] Listed(request.profile) /\ e.decision = "DEFER" -> IF Policy.deferAllowed THEN "DEFER" ELSE "DENY"
    [] Listed(request.profile) /\ e.decision \notin {"ALLOW", "ALLOW_DERATED", "DEFER"} -> e.decision
    [] Listed(request.profile) /\ e.decision \in {"ALLOW", "ALLOW_DERATED"} ->
         IF NeedsPermission(request, e) /\ ~Policy.deratedAdmission THEN "DENY"
         ELSE IF NeedsDerating(request, e) THEN "ADMIT_DERATED" ELSE "ADMIT"
================================================================================
