------------------------ MODULE DomainEvaluationProofs ------------------------
(***************************************************************************)
(* What one evaluation promises; and, for any number of domains, devices   *)
(* and workers, any couplings and any valid policy, that what is stored of *)
(* a domain fits its readings, its couplings and its history, whatever is  *)
(* published and recomputed.                                               *)
(***************************************************************************)
EXTENDS DomainEvaluation, SequenceTheorems, FiniteSetTheorems, WellFoundedInduction, TLAPS

--------------------------------------------------------------------------------
(* One evaluation, of anything the runtime can hand to it: any integer         *)
(* temperature, any history, any set of coupled states.                        *)

Readings == [temperature : Int, throttled : BOOLEAN, boot : Nat, age : Nat, limit : Int]
AnySamples == [temperature : Int, throttled : BOOLEAN, boot : Nat, age : Nat]
Evaluations == [state : ThermalStates, derating : DeratingLevels]
Inputs ==
  [capability : CapabilityStates, throttleCapability : CapabilityStates,
   reading : Readings, fresh : BOOLEAN, previous : Evaluations, history : Seq(AnySamples),
   explicit : BOOLEAN, upstream : SUBSET ThermalStates]

\* Every temperature falls into exactly one band, and the bands follow the thresholds.
LEMMA BandIsState ==
  ASSUME NEW in \in Inputs
  PROVE  /\ Band(in) \in Healthy \cup Restrictive
         /\ Band(in) \in Healthy => in.reading.temperature < Policy.derating /\ ~ThrottleObserved(in)
<1> DEFINE t == in.reading.temperature
<1>1. t \in Int /\ in.reading.throttled \in BOOLEAN /\ ThrottleObserved(in) \in BOOLEAN
  BY DEF Inputs, Readings, ThrottleObserved
<1>2. /\ Policy.warning \in Int /\ Policy.derating \in Int /\ Policy.critical \in Int
      /\ Policy.nearLimitBand \in Nat \ {0}
      /\ Policy.warning <= Policy.derating - Policy.nearLimitBand
      /\ Policy.derating < Policy.critical
  BY ValidPolicy
<1>3. CASE t >= Policy.critical
  BY <1>1, <1>2, <1>3 DEF Band, Healthy, Restrictive
<1>4. CASE t < Policy.critical /\ ThrottleObserved(in)
  BY <1>1, <1>2, <1>4 DEF Band, Healthy, Restrictive
<1>5. CASE t < Policy.critical /\ ~ThrottleObserved(in) /\ t >= Policy.derating
  BY <1>1, <1>2, <1>5 DEF Band, Healthy, Restrictive
<1>6. CASE t < Policy.derating /\ ~ThrottleObserved(in)
  BY <1>1, <1>2, <1>6 DEF Band, Healthy, Restrictive
<1> QED
  BY <1>1, <1>2, <1>3, <1>4, <1>5, <1>6

\* The most severe of a nonempty set of states is one of them and at least as severe as each.
LEMMA MostSevereIsMaximum ==
  ASSUME NEW states \in SUBSET ThermalStates, states # {}
  PROVE  /\ MostSevere(states) \in states
         /\ \A other \in states : Severity[other] <= Severity[MostSevere(states)]
<1>1. \E s \in states : \A other \in states : Severity[other] <= Severity[s]
  <2> DEFINE from(n) == {s \in states : Severity[s] >= n}
  <2>1. \A s \in states : Severity[s] \in 0..8
    BY DEF Severity, ThermalStates, Healthy, Restrictive, Unresolved
  <2>2. from(0) # {} /\ from(9) = {}
    BY <2>1
  <2>3. \E n \in 0..8 : from(n) # {} /\ from(n + 1) = {}
    <3>1. SUFFICES ASSUME \A n \in 0..8 : from(n) # {} => from(n + 1) # {}
                   PROVE  FALSE
      OBVIOUS
    <3>2. from(0 + 1) # {} BY <3>1, <2>2
    <3>3. from(1 + 1) # {} BY <3>1, <3>2
    <3>4. from(2 + 1) # {} BY <3>1, <3>3
    <3>5. from(3 + 1) # {} BY <3>1, <3>4
    <3>6. from(4 + 1) # {} BY <3>1, <3>5
    <3>7. from(5 + 1) # {} BY <3>1, <3>6
    <3>8. from(6 + 1) # {} BY <3>1, <3>7
    <3>9. from(7 + 1) # {} BY <3>1, <3>8
    <3>10. from(8 + 1) # {} BY <3>1, <3>9
    <3> QED BY <3>10, <2>2
  <2>4. PICK n \in 0..8 : from(n) # {} /\ from(n + 1) = {}
    BY <2>3
  <2>5. PICK s \in states : Severity[s] >= n
    BY <2>4
  <2>6. \A other \in states : Severity[other] < n + 1
    BY <2>1, <2>4
  <2> QED
    BY <2>1, <2>5, <2>6
<1> QED
  BY <1>1 DEF MostSevere

\* Coupling can only tighten: a healthy candidate has a healthy band and no coupled pressure.
LEMMA CouplingOnlyTightens ==
  ASSUME NEW in \in Inputs, Candidate(in) \in Healthy
  PROVE  Band(in) \in Healthy /\ Pressure(in.upstream) = {}
<1> DEFINE worst == MostSevere({Band(in)} \cup (IF Policy.escalate THEN Pressure(in.upstream) ELSE {}))
<1>1. Pressure(in.upstream) = {}
  <2>1. SUFFICES ASSUME Pressure(in.upstream) # {} PROVE FALSE
    OBVIOUS
  <2>2. CASE worst \in Healthy
    BY <2>1, <2>2 DEF Candidate, Healthy
  <2>3. CASE worst \notin Healthy
    BY <2>1, <2>3 DEF Candidate
  <2> QED
    BY <2>2, <2>3
<1>2. Candidate(in) = MostSevere({Band(in)})
  <2>1. worst = MostSevere({Band(in)})
    BY <1>1
  <2> QED
    BY <1>1, <2>1 DEF Candidate
<1>3. MostSevere({Band(in)}) = Band(in)
  BY MostSevereIsMaximum, BandIsState DEF ThermalStates
<1> QED
  BY <1>1, <1>2, <1>3

\* A verdict without a resolved capability and fresh evidence is never healthy.
LEMMA UnjudgedIsUnresolved ==
  ASSUME NEW in \in Inputs, EvaluateThermal(in).state \in Healthy \cup Restrictive
  PROVE  /\ in.capability = "SUPPORTED" /\ HasReading(in) /\ in.fresh
         /\ EvaluateThermal(in) = Judged(in)
<1>1. \A state : Unjudged(state).state = state
  BY DEF Unjudged
<1>2. in.capability \in CapabilityStates
  BY DEF Inputs
<1>3. CASE in.capability # "SUPPORTED"
  BY <1>1, <1>2, <1>3 DEF EvaluateThermal, CapabilityStates, Healthy, Restrictive
<1>4. CASE in.capability = "SUPPORTED" /\ ~(HasReading(in) /\ in.fresh)
  BY <1>1, <1>4 DEF EvaluateThermal, Healthy, Restrictive
<1>5. CASE in.capability = "SUPPORTED" /\ HasReading(in) /\ in.fresh
  BY <1>5 DEF EvaluateThermal
<1> QED
  BY <1>3, <1>4, <1>5

\* next_thermal_state, evaluate_thermal: a healthy verdict has a supported capability,
\* a fresh reading below the derating threshold, no thermal throttle observed and no
\* coupled pressure, whatever the previous state and the history are.
THEOREM HealthyVerdictIsCool ==
  ASSUME NEW in \in Inputs, EvaluateThermal(in).state \in Healthy
  PROVE  /\ in.capability = "SUPPORTED" /\ HasReading(in) /\ in.fresh
         /\ in.reading.temperature < Policy.derating /\ ~ThrottleObserved(in)
         /\ Pressure(in.upstream) = {}
<1>1. /\ in.capability = "SUPPORTED" /\ HasReading(in) /\ in.fresh
      /\ EvaluateThermal(in) = Judged(in)
  BY UnjudgedIsUnresolved
<1>2. NextThermalState(in) \in Healthy
  BY <1>1 DEF Judged
<1>3. Candidate(in) \in Healthy
  BY <1>2 DEF NextThermalState, Healthy
<1> QED
  BY <1>1, <1>3, CouplingOnlyTightens, BandIsState

\* evaluate_recovery: an admitted history ends in required_consecutive_samples samples that
\* are all cool, unthrottled where the policy asks for it, and of the current boot.
LEMMA WitnessedRun ==
  ASSUME NEW samples \in Seq(AnySamples), NEW current, Witnessed(samples, current)
  PROVE  /\ Len(samples) >= Policy.requiredSamples
         /\ \A i \in (Len(samples) - Policy.requiredSamples + 1)..Len(samples) :
              /\ samples[i].temperature < RecoveryGate
              /\ Policy.requireNoThrottle => ~samples[i].throttled
              /\ Policy.requireSameBoot => samples[i].boot = current
<1>1. PICK first \in 1..(Len(samples) + 1) :
        /\ RunStartsAt(samples, current, first)
        /\ Len(samples) - first + 1 >= Policy.requiredSamples
  BY DEF Witnessed
<1>2. Policy.requiredSamples \in Nat \ {0} /\ Len(samples) \in Nat
  BY ValidPolicy
<1>3. \A i \in first..Len(samples) : Qualifies(samples[i], current)
  BY <1>1 DEF RunStartsAt
<1>4. \A i \in (Len(samples) - Policy.requiredSamples + 1)..Len(samples) : i \in first..Len(samples)
  BY <1>1, <1>2
<1> QED
  BY <1>1, <1>2, <1>3, <1>4 DEF Qualifies, Cool, ThrottleClear, FromBoot

\* README, "Recovery is explicit": a domain goes from a restriction to a healthy state only
\* below the recovery gate, with effective headroom left, on a run of qualifying samples of
\* one boot, with every coupled domain recovered and with the authorisation the policy demands.
THEOREM RestrictionIsLeftByRecovery ==
  ASSUME NEW in \in Inputs, in.previous.state \in Restrictive, EvaluateThermal(in).state \in Healthy
  PROVE  /\ in.reading.temperature < RecoveryGate
         /\ Policy.requireHeadroom => EffectiveHeadroom(in.reading) > 0
         /\ Len(in.history) >= Policy.requiredSamples
         /\ \A i \in (Len(in.history) - Policy.requiredSamples + 1)..Len(in.history) :
              /\ in.history[i].temperature < RecoveryGate
              /\ Policy.requireNoThrottle => ~in.history[i].throttled
              /\ Policy.requireSameBoot => in.history[i].boot = in.reading.boot
         /\ in.upstream \subseteq Healthy
         /\ Policy.requireExplicit => in.explicit
<1>1. NextThermalState(in) \in Healthy
  BY UnjudgedIsUnresolved DEF Judged
<1>2. RecoveryAllowed(in)
  BY <1>1 DEF NextThermalState, Healthy, Restrictive
<1>3. Witnessed(in.history, in.reading.boot) /\ in.history \in Seq(AnySamples)
  BY <1>2 DEF RecoveryAllowed, Inputs
<1> HIDE DEF AnySamples
<1>4. /\ Len(in.history) >= Policy.requiredSamples
      /\ \A i \in (Len(in.history) - Policy.requiredSamples + 1)..Len(in.history) :
           /\ in.history[i].temperature < RecoveryGate
           /\ Policy.requireNoThrottle => ~in.history[i].throttled
           /\ Policy.requireSameBoot => in.history[i].boot = in.reading.boot
  BY <1>3, WitnessedRun
<1> QED
  BY <1>2, <1>4 DEF RecoveryAllowed

\* evaluate_recovery: the samples an admitted history ends in are spread over the demanded span.
LEMMA RecoveryIsSpread ==
  ASSUME NEW in \in Inputs, in.previous.state \in Restrictive, EvaluateThermal(in).state \in Healthy
  PROVE  \E first \in 1..Len(in.history) :
           in.history[first].age - in.history[Len(in.history)].age >= Policy.minSpan
<1>1. NextThermalState(in) \in Healthy
  BY UnjudgedIsUnresolved DEF Judged
<1>2. RecoveryAllowed(in)
  BY <1>1 DEF NextThermalState, Healthy, Restrictive
<1>3. PICK first \in 1..(Len(in.history) + 1) :
        /\ Len(in.history) - first + 1 >= Policy.requiredSamples
        /\ in.history[first].age - in.history[Len(in.history)].age >= Policy.minSpan
  BY <1>2 DEF RecoveryAllowed, Witnessed
<1>4. Len(in.history) \in Nat /\ Policy.requiredSamples \in Nat \ {0}
  BY ValidPolicy DEF Inputs
<1>5. first <= Len(in.history)
  BY <1>3, <1>4
<1> QED
  BY <1>3, <1>4, <1>5

\* README, "Derating cannot expand": from one restriction to another the derating level
\* never becomes more permissive.
THEOREM DeratingOnlyTightens ==
  ASSUME NEW in \in Inputs, in.previous.derating # "UNKNOWN",
         EvaluateThermal(in).state \in Restrictive
  PROVE  RestrictionRank[EvaluateThermal(in).derating] >= RestrictionRank[in.previous.derating]
<1> DEFINE state == NextThermalState(in)
           base == DeratingForState(state, WorkloadRestricted("UNKNOWN_PROFILE"))
<1>1. state \in Restrictive /\ EvaluateThermal(in).derating = ClampedDerating(state, in.previous.derating)
  BY UnjudgedIsUnresolved DEF Judged
<1>2. state \notin Healthy \cup {"REVALIDATION_REQUIRED"}
  BY <1>1 DEF Restrictive, Healthy
<1>3. in.previous.derating \in DeratingLevels /\ RestrictionRank[in.previous.derating] \in Int
  BY DEF Inputs, Evaluations, DeratingLevels, RestrictionRank
<1>4. base \in DeratingLevels
  <2>1. CASE state = "DERATED"
    BY <2>1 DEF DeratingForState, DeratingLevels, RestrictionRank, Unresolved
  <2>2. CASE state = "THROTTLING"
    BY <2>2 DEF DeratingForState, DeratingLevels, RestrictionRank, Unresolved
  <2>3. CASE state = "CRITICAL"
    BY <2>3 DEF DeratingForState, DeratingLevels, RestrictionRank, Unresolved
  <2> QED
    BY <1>1, <2>1, <2>2, <2>3 DEF Restrictive
<1>5. RestrictionRank[base] \in Int
  BY <1>4 DEF DeratingLevels, RestrictionRank
<1> HIDE DEF base, state
<1> QED
  BY <1>1, <1>2, <1>3, <1>5 DEF ClampedDerating, base, state

LEMMA NextStateIsState ==
  ASSUME NEW in \in Inputs
  PROVE  NextThermalState(in) \in ThermalStates
<1> DEFINE pool == {Band(in)} \cup (IF Policy.escalate THEN Pressure(in.upstream) ELSE {})
<1>1. pool \in SUBSET ThermalStates /\ pool # {}
  BY BandIsState DEF Inputs, Pressure, ThermalStates
<1>2. MostSevere(pool) \in ThermalStates
  BY <1>1, MostSevereIsMaximum
<1>3. Candidate(in) \in ThermalStates
  BY <1>2 DEF Candidate, ThermalStates, Restrictive
<1> QED
  BY <1>3 DEF NextThermalState, ThermalStates, Restrictive

LEMMA LevelOfState ==
  ASSUME NEW state \in ThermalStates, NEW restricted \in BOOLEAN
  PROVE  /\ DeratingForState(state, restricted) \in DeratingLevels
         /\ state \in Restrictive => DeratingForState(state, restricted) # "UNKNOWN"
<1>1. DeratingLevels =
        {"FULL_CAPABILITY", "DERATED_WORKLOAD_CLASS", "DERATED_CLOCK", "DERATED_ADMISSION",
         "DERATED_CONCURRENCY", "DERATED_COMBINED", "NO_SAFE_EXECUTION",
         "REVALIDATION_REQUIRED", "UNKNOWN", "UNSUPPORTED"}
  BY DEF DeratingLevels, RestrictionRank
<1>2. state = "NORMAL" => DeratingForState(state, restricted) \in {"FULL_CAPABILITY"}
  BY DEF DeratingForState, Unresolved
<1>3. state = "WARM" => DeratingForState(state, restricted) \in {"DERATED_WORKLOAD_CLASS", "FULL_CAPABILITY"}
  BY DEF DeratingForState, Unresolved
<1>4. state = "NEAR_LIMIT" => DeratingForState(state, restricted) \in {"DERATED_COMBINED", "DERATED_CONCURRENCY"}
  BY DEF DeratingForState, Unresolved
<1>5. state = "DERATED" => DeratingForState(state, restricted) \in {"DERATED_COMBINED", "DERATED_CLOCK"}
  BY DEF DeratingForState, Unresolved
<1>6. state = "THROTTLING" => DeratingForState(state, restricted) \in {"DERATED_COMBINED"}
  BY DEF DeratingForState, Unresolved
<1>7. state = "CRITICAL" => DeratingForState(state, restricted) \in {"NO_SAFE_EXECUTION"}
  BY DEF DeratingForState, Unresolved
<1>8. state \in Unresolved => DeratingForState(state, restricted) = state
  BY DEF DeratingForState, Unresolved
<1>9. CASE state \in Unresolved
  BY <1>1, <1>8, <1>9 DEF Unresolved, Restrictive
<1>10. CASE state \in Healthy \cup Restrictive
  BY <1>1, <1>2, <1>3, <1>4, <1>5, <1>6, <1>7, <1>10 DEF Healthy, Restrictive
<1> QED
  BY <1>9, <1>10 DEF ThermalStates

\* What an evaluation stores is a state and a level, and a restriction has a level.
LEMMA VerdictIsEvaluation ==
  ASSUME NEW in \in Inputs
  PROVE  /\ EvaluateThermal(in).state \in ThermalStates
         /\ EvaluateThermal(in).derating \in DeratingLevels
         /\ EvaluateThermal(in).state \in Restrictive => EvaluateThermal(in).derating # "UNKNOWN"
<1> DEFINE state == NextThermalState(in)
           base == DeratingForState(state, WorkloadRestricted("UNKNOWN_PROFILE"))
<1>1. \/ EvaluateThermal(in) = Judged(in)
      \/ \E unjudged \in Unresolved : EvaluateThermal(in) = Unjudged(unjudged)
  BY DEF EvaluateThermal, Inputs, CapabilityStates, Unresolved
<1>2. CASE EvaluateThermal(in) = Judged(in)
  <2>1. EvaluateThermal(in).state = state
        /\ EvaluateThermal(in).derating = ClampedDerating(state, in.previous.derating)
    BY <1>2 DEF Judged
  <2>2. state \in ThermalStates
    BY NextStateIsState
  <2>3. WorkloadRestricted("UNKNOWN_PROFILE") \in BOOLEAN
    BY DEF WorkloadRestricted
  <2>4. base \in DeratingLevels /\ (state \in Restrictive => base # "UNKNOWN")
    BY <2>2, <2>3, LevelOfState
  <2>5. \/ ClampedDerating(state, in.previous.derating) = base
        \/ /\ ClampedDerating(state, in.previous.derating) = in.previous.derating
           /\ in.previous.derating # "UNKNOWN"
    BY DEF ClampedDerating
  <2>6. in.previous.derating \in DeratingLevels
    BY DEF Inputs, Evaluations
  <2> HIDE DEF state, base
  <2> QED
    BY <2>1, <2>2, <2>4, <2>5, <2>6
<1>3. ASSUME NEW unjudged \in Unresolved, EvaluateThermal(in) = Unjudged(unjudged)
      PROVE  /\ EvaluateThermal(in).state \in ThermalStates
             /\ EvaluateThermal(in).derating \in DeratingLevels
             /\ EvaluateThermal(in).state \in Restrictive => EvaluateThermal(in).derating # "UNKNOWN"
  <2>1. EvaluateThermal(in).state = unjudged /\ EvaluateThermal(in).derating = unjudged
    BY <1>3 DEF Unjudged
  <2> QED
    BY <2>1 DEF ThermalStates, Unresolved, Restrictive, DeratingLevels, RestrictionRank
<1> QED
  BY <1>1, <1>2, <1>3

\* The hard predicates alone decide whether there is a verdict.
Judgeable(in) == in.capability = "SUPPORTED" /\ HasReading(in) /\ in.fresh
Escalates == Policy.coDerate /\ Policy.escalate

\* Unless coupled states escalate, a verdict is healthy or a restriction.
LEMMA VerdictIsResolved ==
  ASSUME NEW in \in Inputs, Judgeable(in), ~Escalates
  PROVE  EvaluateThermal(in).state \in Healthy \cup Restrictive
<1>1. EvaluateThermal(in).state = NextThermalState(in)
  BY DEF Judgeable, EvaluateThermal, Judged
<1>2. Band(in) \in Healthy \cup Restrictive
  BY BandIsState
<1>3. MostSevere({Band(in)}) = Band(in)
  BY <1>2, MostSevereIsMaximum DEF ThermalStates
<1>4. Pressure(in.upstream) \subseteq Restrictive /\ (Policy.escalate => Pressure(in.upstream) = {})
  BY DEF Pressure, Escalates
<1>5. Candidate(in) \in Healthy \cup Restrictive
  <2>1. {Band(in)} \cup {} = {Band(in)}
    OBVIOUS
  <2>2. Candidate(in) = Band(in) \/ Candidate(in) = "DERATED"
    BY <1>3, <1>4, <2>1 DEF Candidate
  <2> QED
    BY <1>2, <2>2 DEF Restrictive
<1> QED
  BY <1>1, <1>5 DEF NextThermalState, Restrictive

\* A domain that nothing heats is restricted by its own band or by what restricted it before.
LEMMA AloneByItsBand ==
  ASSUME NEW in \in Inputs, in.upstream = {}, in.previous.state \notin Restrictive
  PROVE  EvaluateThermal(in).state \in Restrictive <=> Judgeable(in) /\ Band(in) \in Restrictive
<1>1. Pressure(in.upstream) = {}
  BY DEF Pressure
<1>2. Band(in) \in Healthy \cup Restrictive
  BY BandIsState
<1>3. MostSevere({Band(in)}) = Band(in)
  BY <1>2, MostSevereIsMaximum DEF ThermalStates
<1>4. {Band(in)} \cup {} = {Band(in)}
  OBVIOUS
<1>5. Candidate(in) = Band(in)
  BY <1>1, <1>3, <1>4 DEF Candidate
<1>6. NextThermalState(in) = Band(in)
  BY <1>5 DEF NextThermalState
<1>7. CASE Judgeable(in)
  <2>1. EvaluateThermal(in).state = NextThermalState(in)
    BY <1>7 DEF Judgeable, EvaluateThermal, Judged
  <2> QED
    BY <1>6, <1>7, <2>1
<1>8. CASE ~Judgeable(in)
  <2>1. EvaluateThermal(in).state \notin Healthy \cup Restrictive
    BY <1>8, UnjudgedIsUnresolved DEF Judgeable
  <2> QED
    BY <1>8, <2>1
<1> QED
  BY <1>7, <1>8

\* Only a healthy state is allowed outright.
LEMMA AllowedIsHealthy ==
  ASSUME NEW state \in ThermalStates, NEW headroom
  PROVE  /\ Decision(state, headroom) \in Decisions
         /\ Decision(state, headroom) = "ALLOW" => state \in Healthy
<1>1. CASE state \in Healthy
  BY <1>1 DEF Decision, Decisions, UnknownBehaviors, Healthy
<1>2. CASE state \in {"DERATED", "THROTTLING"}
  BY <1>2 DEF Decision, Decisions, UnknownBehaviors, Healthy
<1>3. CASE state = "CRITICAL"
  BY <1>3 DEF Decision, Decisions, UnknownBehaviors, Healthy
<1>4. CASE state = "REVALIDATION_REQUIRED"
  BY <1>4 DEF Decision, Decisions, UnknownBehaviors, Healthy
<1>5. CASE state = "UNKNOWN"
  <2>1. Decision(state, headroom) = Policy.unknownBehavior
    BY <1>5 DEF Decision, Healthy
  <2> QED
    BY <2>1, ValidPolicy DEF Decisions, UnknownBehaviors
<1>6. CASE state = "UNSUPPORTED"
  <2>1. Decision(state, headroom) = Policy.unsupportedBehavior
    BY <1>6 DEF Decision, Healthy
  <2> QED
    BY <2>1, ValidPolicy DEF Decisions, UnsupportedBehaviors
<1> QED
  BY <1>1, <1>2, <1>3, <1>4, <1>5, <1>6 DEF ThermalStates, Restrictive, Unresolved

\* The decision of an evaluation is one of the thermal decisions, and only a judged,
\* healthy state is allowed outright.
LEMMA VerdictIsDecision ==
  ASSUME NEW in \in Inputs
  PROVE  /\ EvaluateThermal(in).decision \in Decisions
         /\ EvaluateThermal(in).decision = "ALLOW" => EvaluateThermal(in).state \in Healthy
<1>1. \/ EvaluateThermal(in) = Judged(in)
      \/ \E state \in Unresolved : EvaluateThermal(in) = Unjudged(state)
  BY DEF EvaluateThermal, Inputs, CapabilityStates, Unresolved
<1>2. CASE EvaluateThermal(in) = Judged(in)
  BY <1>2, NextStateIsState, AllowedIsHealthy DEF Judged
<1>3. ASSUME NEW state \in Unresolved, EvaluateThermal(in) = Unjudged(state)
      PROVE  /\ EvaluateThermal(in).decision \in Decisions
             /\ EvaluateThermal(in).decision = "ALLOW" => EvaluateThermal(in).state \in Healthy
  <2>1. state \in ThermalStates
    BY DEF ThermalStates
  <2>2. /\ EvaluateThermal(in).decision = Decision(state, 0)
        /\ EvaluateThermal(in).state = state
    BY <1>3 DEF Unjudged
  <2> QED
    BY <2>1, <2>2, AllowedIsHealthy
<1> QED
  BY <1>1, <1>2, <1>3

\* evaluate_admission: a request is admitted without derating only while the domain is healthy
\* on fresh evidence, the effective headroom covers the demand of its profile, and it asks for
\* no more concurrency than the ceiling of the state.
THEOREM AdmissionIsCovered ==
  ASSUME NEW in \in Inputs,
         NEW request \in [profile : STRING, class : ExecutionClasses, concurrency : 0..100],
         EvaluateAdmission(request, EvaluateThermal(in)) = "ADMIT"
  PROVE  /\ Listed(request.profile)
         /\ EvaluateThermal(in).state \in Healthy /\ HasReading(in) /\ in.fresh
         /\ EffectiveHeadroom(in.reading) >= Policy.minHeadroom + Demand(request.profile)
         /\ request.concurrency <= Ceiling(EvaluateThermal(in).state)
<1> DEFINE e == EvaluateThermal(in)
<1>1. Listed(request.profile) /\ e.decision = "ALLOW" /\ ~NeedsDerating(request, e)
  <2>1. Listed(request.profile)
    BY DEF EvaluateAdmission
  <2>2. e.decision \in {"ALLOW", "ALLOW_DERATED"}
    BY <2>1, VerdictIsDecision DEF EvaluateAdmission, Decisions, UnknownBehaviors, UnsupportedBehaviors
  <2>3. ~NeedsDerating(request, e)
    BY <2>1, <2>2 DEF EvaluateAdmission
  <2> QED
    BY <2>1, <2>2, <2>3 DEF NeedsDerating
<1>2. e.state \in Healthy
  BY <1>1, VerdictIsDecision
<1>3. HasReading(in) /\ in.fresh /\ e = Judged(in)
  BY <1>2, UnjudgedIsUnresolved
<1>4. e.headroom = EffectiveHeadroom(in.reading) /\ e.concurrency = Ceiling(e.state)
  BY <1>3 DEF Judged
<1>5. MeetsDemand(e.headroom, request.profile) /\ ~(request.concurrency > e.concurrency)
  BY <1>1 DEF NeedsDerating
<1>6. request.concurrency \in Int /\ Ceiling(e.state) \in Int
  <2>1. Ceiling(e.state) = Policy.ceiling[e.state]
    BY <1>2 DEF Ceiling, Healthy
  <2> QED
    BY <1>2, <2>1, ValidPolicy DEF Healthy
<1> HIDE DEF e
<1> QED
  BY <1>1, <1>2, <1>3, <1>4, <1>5, <1>6 DEF MeetsDemand, e

--------------------------------------------------------------------------------
(* Least elements and recursive functions *)

LEMMA MinIsLeast ==
  ASSUME NEW S \in SUBSET Nat, S # {}
  PROVE  Min(S) \in S /\ \A n \in S : Min(S) <= n
<1> DEFINE R == OpToRel(<, Nat)
<1>1. IsWellFoundedOn(R, Nat)
  BY NatLessThanWellFounded
<1> HIDE DEF R
<1>2. PICK x \in S : \A y \in S : ~ (<<y, x>> \in R)
  BY <1>1, WFMin
<1>3. \A y \in S : ~ (y < x)
  BY <1>2 DEF R, OpToRel
<1>4. \A y \in S : x <= y
  BY <1>3
<1>5. QED
  BY <1>4 DEF Min

\* One pass of recomputation: what is stored of a domain once those before it are done.
Renewed(d, scope, new, stored, w) ==
  IF d \in scope
  THEN Stored(EvaluateDomain(d, [x \in Domains |-> IF x \in scope /\ x < d THEN new[x] ELSE stored[x]], w))
  ELSE stored[d]

LEMMA RenewedLooksBack ==
  ASSUME NEW d \in Domains, NEW scope, NEW f, NEW g, NEW stored, NEW w,
         \A x \in Domains : x < d => f[x] = g[x]
  PROVE  Renewed(d, scope, f, stored, w) = Renewed(d, scope, g, stored, w)
<1>1. [x \in Domains |-> IF x \in scope /\ x < d THEN f[x] ELSE stored[x]]
        = [x \in Domains |-> IF x \in scope /\ x < d THEN g[x] ELSE stored[x]]
  OBVIOUS
<1>2. QED
  BY <1>1 DEF Renewed

\* recompute_domain, recompute_all_domains: the pass is well-defined for every set of domains.
LEMMA PassIsRecursive ==
  ASSUME NEW scope, NEW stored, NEW w
  PROVE  Recomputed(scope, stored, w)
           = [d \in Domains |-> Renewed(d, scope, Recomputed(scope, stored, w), stored, w)]
<1> DEFINE V(d, f) == Renewed(d, scope, f, stored, w)
           Upto(f, n) == \A d \in Domains : d < n => f[d] = V(d, f)
<1>1. \A f, g : \A d \in Domains : (\A x \in Domains : x < d => f[x] = g[x]) => V(d, f) = V(d, g)
  BY RenewedLooksBack
<1>2. Recomputed(scope, stored, w) = CHOOSE new : new = [d \in Domains |-> V(d, new)]
  BY DEF Recomputed, Renewed
<1> HIDE DEF V
<1>3. Domains \subseteq Nat
  BY TopologyAssumption
<1>4. ASSUME NEW n \in Nat PROVE \E f : Upto(f, n)
  <2> DEFINE Bad == {m \in Nat : ~ \E f : Upto(f, m)}
  <2>1. SUFFICES ASSUME Bad # {} PROVE FALSE
    OBVIOUS
  <2>2. PICK m \in Bad : \A k \in Bad : m <= k
    BY <2>1, MinIsLeast
  <2>3. m # 0
    <3>1. Upto(stored, 0)
      BY <1>3
    <3>2. QED
      BY <3>1
  <2>4. PICK f : Upto(f, m - 1)
    BY <2>2, <2>3
  <2> DEFINE g == [d \in Domains |-> IF d < m - 1 THEN f[d] ELSE V(d, f)]
  <2>5. ASSUME NEW d \in Domains, d < m PROVE g[d] = V(d, g)
    <3>1. \A x \in Domains : x < d => g[x] = f[x]
      BY <1>3, <2>5
    <3>2. V(d, g) = V(d, f)
      BY <1>1, <3>1
    <3>3. g[d] = V(d, f)
      BY <2>4
    <3>4. QED
      BY <3>2, <3>3
  <2>6. QED
    BY <2>2, <2>5
<1>5. ASSUME NEW f, NEW g, NEW n \in Nat, NEW m \in Nat, Upto(f, n), Upto(g, m),
             NEW d \in Domains, d < n, d < m
      PROVE  f[d] = g[d]
  <2> DEFINE Bad == {x \in Domains : x < n /\ x < m /\ f[x] # g[x]}
  <2>1. SUFFICES ASSUME Bad # {} PROVE FALSE
    BY <1>5
  <2>2. PICK x \in Bad : \A y \in Bad : x <= y
    BY <1>3, <2>1, MinIsLeast
  <2>3. ASSUME NEW y \in Domains, y < x PROVE f[y] = g[y]
    <3>1. y \in Nat /\ x \in Nat /\ x < n /\ x < m
      BY <1>3, <2>2
    <3>2. y < n /\ y < m /\ ~(x <= y)
      BY <2>3, <3>1
    <3>3. QED
      BY <2>2, <3>2
  <2>4. V(x, f) = V(x, g)
    BY <1>1, <2>3
  <2>5. f[x] = V(x, f) /\ g[x] = V(x, g)
    BY <1>5, <2>2
  <2>6. QED
    BY <2>2, <2>4, <2>5
<1> DEFINE upto(n) == CHOOSE f : Upto(f, n)
           total == [d \in Domains |-> upto(d + 1)[d]]
<1>6. \A n \in Nat : Upto(upto(n), n)
  BY <1>4
<1> HIDE DEF upto, Upto
<1>7. ASSUME NEW d \in Domains PROVE total[d] = V(d, total)
  <2>1. d + 1 \in Nat /\ d < d + 1
    BY <1>3
  <2>2. upto(d + 1)[d] = V(d, upto(d + 1))
    BY <1>6, <2>1 DEF Upto
  <2>3. ASSUME NEW x \in Domains, x < d PROVE total[x] = upto(d + 1)[x]
    <3>1. x + 1 \in Nat /\ x < x + 1 /\ x < d + 1
      BY <1>3, <2>3
    <3>2. QED
      BY <1>5, <1>6, <2>1, <3>1
  <2>4. V(d, total) = V(d, upto(d + 1))
    BY <1>1, <2>3
  <2>5. QED
    BY <2>2, <2>4
<1>8. total = [d \in Domains |-> V(d, total)]
  BY <1>7
<1> HIDE DEF total
<1>9. Recomputed(scope, stored, w) = [d \in Domains |-> V(d, Recomputed(scope, stored, w))]
  BY <1>2, <1>8
<1>10. QED
  BY <1>9 DEF V
--------------------------------------------------------------------------------
(* Reachability *)

Edges == SUBSET (Domains \X Domains)

IsWalk(f, d, E, N) == f[0] = {d} /\ \A n \in 1..N : f[n] = WithSources(f[n - 1], E)

LEMMA WalksAgree ==
  ASSUME NEW d, NEW E, NEW N \in Nat, NEW M \in Nat, NEW f, NEW g,
         IsWalk(f, d, E, N), IsWalk(g, d, E, M), NEW n \in Nat, n <= N, n <= M
  PROVE  f[n] = g[n]
<1> DEFINE Bad == {k \in Nat : k <= N /\ k <= M /\ f[k] # g[k]}
<1>1. SUFFICES ASSUME Bad # {} PROVE FALSE
  OBVIOUS
<1>2. PICK k \in Bad : \A j \in Bad : k <= j
  BY <1>1, MinIsLeast
<1>3. k # 0
  BY <1>2 DEF IsWalk
<1>4. k - 1 \in Nat /\ k - 1 \notin Bad /\ k \in 1..N /\ k \in 1..M
  BY <1>2, <1>3
<1>5. f[k - 1] = g[k - 1]
  BY <1>2, <1>4
<1>6. QED
  BY <1>2, <1>4, <1>5 DEF IsWalk

LEMMA WalkExists ==
  ASSUME NEW d \in Domains, NEW E \in Edges, NEW N \in Nat
  PROVE  \E f \in [0..N -> SUBSET Domains] :
           /\ IsWalk(f, d, E, N)
           /\ f = [n \in 0..N |-> IF n = 0 THEN {d} ELSE WithSources(f[n - 1], E)]
<1> DEFINE Walked(m) == \E f \in [0..m -> SUBSET Domains] : IsWalk(f, d, E, m)
           Bad == {m \in Nat : ~Walked(m)}
<1>1. ASSUME Bad # {} PROVE FALSE
  <2>1. PICK m \in Bad : \A k \in Bad : m <= k
    BY <1>1, MinIsLeast
  <2>2. m # 0
    <3> DEFINE f == [n \in 0..0 |-> {d}]
    <3>1. f \in [0..0 -> SUBSET Domains] /\ IsWalk(f, d, E, 0)
      BY DEF IsWalk
    <3>2. QED
      BY <2>1, <3>1
  <2>3. m - 1 \in Nat /\ m - 1 \notin Bad
    BY <2>1, <2>2
  <2>4. PICK f \in [0..(m - 1) -> SUBSET Domains] : IsWalk(f, d, E, m - 1)
    BY <2>3
  <2> DEFINE g == [n \in 0..m |-> IF n = m THEN WithSources(f[m - 1], E) ELSE f[n]]
  <2>5. WithSources(f[m - 1], E) \in SUBSET Domains
    <3>1. f[m - 1] \in SUBSET Domains
      BY <2>3
    <3>2. QED
      BY <3>1 DEF WithSources, Edges
  <2>6. g \in [0..m -> SUBSET Domains] /\ g[0] = {d}
    BY <2>1, <2>2, <2>4, <2>5 DEF IsWalk
  <2>7. ASSUME NEW n \in 1..m PROVE g[n] = WithSources(g[n - 1], E)
    <3>1. n \in 0..m /\ n - 1 \in 0..m /\ n - 1 # m /\ (n = m \/ n \in 1..(m - 1))
      BY <2>1
    <3>2. g[n - 1] = f[n - 1]
      BY <3>1
    <3>3. CASE n = m
      BY <3>1, <3>2, <3>3
    <3>4. CASE n # m
      BY <2>4, <3>1, <3>2, <3>4 DEF IsWalk
    <3>5. QED
      BY <3>3, <3>4
  <2> HIDE DEF g
  <2>8. Walked(m)
    BY <2>6, <2>7 DEF IsWalk
  <2>9. QED
    BY <2>1, <2>8
<1>2. PICK f \in [0..N -> SUBSET Domains] : IsWalk(f, d, E, N)
  BY <1>1
<1>3. \A n \in 0..N : f[n] = IF n = 0 THEN {d} ELSE WithSources(f[n - 1], E)
  BY <1>2 DEF IsWalk
<1>4. f = [n \in 0..N |-> IF n = 0 THEN {d} ELSE WithSources(f[n - 1], E)]
  BY <1>3
<1>5. QED
  BY <1>2, <1>4

\* reachable_from, incoming_reachable: one more step of depth adds the sources of what is there.
LEMMA WithinByDepth ==
  ASSUME NEW d \in Domains, NEW E \in Edges, NEW depth \in Nat
  PROVE  /\ Within(d, E, 0) = {d}
         /\ Within(d, E, depth + 1) = WithSources(Within(d, E, depth), E)
         /\ Within(d, E, depth) \in SUBSET Domains
<1> DEFINE walk(N) == CHOOSE f : f = [n \in 0..N |-> IF n = 0 THEN {d} ELSE WithSources(f[n - 1], E)]
<1>1. \A N \in Nat : Within(d, E, N) = walk(N)[N]
  BY DEF Within
<1>2. ASSUME NEW N \in Nat PROVE IsWalk(walk(N), d, E, N)
  <2>1. walk(N) = [n \in 0..N |-> IF n = 0 THEN {d} ELSE WithSources(walk(N)[n - 1], E)]
    <3>1. PICK f \in [0..N -> SUBSET Domains] :
            f = [n \in 0..N |-> IF n = 0 THEN {d} ELSE WithSources(f[n - 1], E)]
      BY WalkExists
    <3>2. QED
      BY <3>1, Zenon
  <2> HIDE DEF walk
  <2>2. \A n \in 0..N : walk(N)[n] = IF n = 0 THEN {d} ELSE WithSources(walk(N)[n - 1], E)
    BY <2>1
  <2>3. 0 \in 0..N /\ \A n \in 1..N : n \in 0..N /\ n # 0
    OBVIOUS
  <2>4. QED
    BY <2>2, <2>3 DEF IsWalk
<1> HIDE DEF walk
<1>3. depth + 1 \in Nat /\ depth + 1 \in 1..(depth + 1) /\ depth + 1 - 1 = depth /\ depth <= depth + 1
  OBVIOUS
<1>4. walk(depth + 1)[depth + 1] = WithSources(walk(depth + 1)[depth], E)
  BY <1>2, <1>3 DEF IsWalk
<1>5. walk(depth + 1)[depth] = walk(depth)[depth]
  BY <1>2, <1>3, WalksAgree
<1>6. PICK f \in [0..depth -> SUBSET Domains] : IsWalk(f, d, E, depth)
  BY WalkExists
<1>7. walk(depth)[depth] = f[depth]
  BY <1>2, <1>6, WalksAgree
<1>8. f[depth] \in SUBSET Domains
  BY <1>6
<1>9. Within(d, E, 0) = {d}
  BY <1>1, <1>2 DEF IsWalk
<1>10. QED
  BY <1>1, <1>3, <1>4, <1>5, <1>7, <1>8, <1>9

LEMMA ReachingIsDomains ==
  ASSUME NEW d \in Domains, NEW E \in Edges, NEW depth \in Nat
  PROVE  Reaching(d, E, depth) \in SUBSET Domains
BY WithinByDepth DEF Reaching

LEMMA CouplingsAreEdges ==
  PossibleCouplings \in Edges /\ \A E \in SUBSET PossibleCouplings : E \in Edges
BY TopologyAssumption DEF Edges

--------------------------------------------------------------------------------
(* Readings and histories *)

\* Among finitely many places there is one with the greatest value.
LEMMA GreatestPlace ==
  ASSUME NEW N \in Nat, NEW P \in SUBSET (1..N), P # {}, NEW t \in [P -> Int]
  PROVE  \E i \in P : \A j \in P : t[j] <= t[i]
<1> DEFINE Topped(n) == (P \cap 1..n # {}) => \E i \in P \cap 1..n : \A j \in P \cap 1..n : t[j] <= t[i]
           Bad == {n \in Nat : ~Topped(n)}
<1>1. ASSUME Bad # {} PROVE FALSE
  <2>1. PICK n \in Bad : \A k \in Bad : n <= k
    BY <1>1, MinIsLeast
  <2>2. n # 0
    <3>1. 1..0 = {}
      OBVIOUS
    <3>2. QED
      BY <2>1, <3>1
  <2>3. n - 1 \in Nat /\ Topped(n - 1)
    BY <2>1, <2>2
  <2>4. 1..n = (1..(n - 1)) \cup {n}
    <3>1. n \in Nat
      BY <2>1
    <3>2. QED
      BY ONLY <3>1, <2>2
  <2>5. CASE n \notin P
    <3>1. P \cap 1..n = P \cap 1..(n - 1)
      BY <2>4, <2>5
    <3>2. QED
      BY <2>1, <2>3, <3>1
  <2>6. CASE n \in P /\ P \cap 1..(n - 1) = {}
    <3>1. P \cap 1..n = {n}
      BY <2>4, <2>6
    <3>2. t[n] <= t[n]
      BY <2>6
    <3>3. QED
      BY <2>1, <3>1, <3>2
  <2>7. CASE n \in P /\ P \cap 1..(n - 1) # {}
    <3>1. PICK i \in P \cap 1..(n - 1) : \A j \in P \cap 1..(n - 1) : t[j] <= t[i]
      BY <2>3, <2>7
    <3>2. P \cap 1..n = (P \cap 1..(n - 1)) \cup {n}
      BY <2>4, <2>7
    <3>3. \A j \in P : t[j] \in Int
      OBVIOUS
    <3>4. CASE t[n] <= t[i]
      BY <2>1, <3>1, <3>2, <3>4
    <3>5. CASE ~(t[n] <= t[i])
      <4>1. \A j \in P \cap 1..n : t[j] <= t[n]
        BY <2>7, <3>1, <3>2, <3>3, <3>5
      <4>2. n \in P \cap 1..n
        BY <2>7, <3>2
      <4>3. QED
        BY <2>1, <4>1, <4>2
    <3>6. QED
      BY <3>4, <3>5
  <2>8. QED
    BY <2>5, <2>6, <2>7
<1>2. Topped(N)
  BY <1>1
<1>3. P \cap 1..N = P
  OBVIOUS
<1>4. QED
  BY <1>2, <1>3

\* The worlds evaluations are made in.
WorldOK(w) ==
  /\ w.reading \in [Devices -> Readings]
  /\ w.history \in [Domains -> Seq(AnySamples)]
  /\ w.capability \in [Devices -> CapabilityChoices]
  /\ w.couplings \in Edges

LEMMA MembersAreDevices ==
  ASSUME NEW d \in Domains
  PROVE  /\ Len(Members[d]) \in Nat \ {0} /\ DOMAIN Members[d] = 1..Len(Members[d])
         /\ \A i \in DOMAIN Members[d] : Members[d][i] \in Devices
         /\ Range(Members[d]) \in SUBSET Devices
<1>1. Members[d] \in Seq(Devices) /\ Members[d] # <<>>
  BY TopologyAssumption
<1>2. \A i \in DOMAIN Members[d] : Members[d][i] \in Devices
  BY <1>1
<1>3. Range(Members[d]) \in SUBSET Devices
  BY <1>2 DEF Range
<1>4. QED
  BY <1>1, <1>2, <1>3

\* gather_domain_evidence: what is gathered is as hot as every member, with the record of the front.
LEMMA GatheredIsHottest ==
  ASSUME NEW d \in Domains, NEW w, WorldOK(w), Reporting(d, w) # {}
  PROVE  /\ Hottest(d, w) \in Range(Members[d]) /\ Front(d, w) \in Range(Members[d])
         /\ w.reading[Front(d, w)] # NoReading
         /\ Gathered(d, w) = [w.reading[Front(d, w)] EXCEPT !.temperature = w.reading[Hottest(d, w)].temperature]
         /\ \A i \in Reporting(d, w) : TemperatureAt(d, i, w) <= w.reading[Hottest(d, w)].temperature
<1> DEFINE P == Reporting(d, w)
           top == {i \in P : \A j \in P : TemperatureAt(d, j, w) <= TemperatureAt(d, i, w)}
           t == [i \in P |-> TemperatureAt(d, i, w)]
<1>1. Len(Members[d]) \in Nat /\ P \in SUBSET (1..Len(Members[d])) /\ P \in SUBSET Nat
  BY MembersAreDevices DEF Reporting
<1>2. t \in [P -> Int]
  <2>1. ASSUME NEW i \in P PROVE TemperatureAt(d, i, w) \in Int
    <3>1. Members[d][i] \in Devices
      BY MembersAreDevices DEF Reporting
    <3>2. w.reading[Members[d][i]] \in Readings
      BY <3>1 DEF WorldOK
    <3>3. QED
      BY <3>2 DEF TemperatureAt, Readings
  <2>2. QED
    BY <2>1
<1> HIDE DEF t
<1>3. \E i \in P : \A j \in P : t[j] <= t[i]
  BY <1>1, <1>2, GreatestPlace
<1>4. top # {} /\ top \in SUBSET Nat /\ top \in SUBSET P
  BY <1>1, <1>3 DEF t
<1>5. Min(top) \in top /\ Min(P) \in P
  BY <1>1, <1>4, MinIsLeast
<1>6. Hottest(d, w) = Members[d][Min(top)] /\ Front(d, w) = Members[d][Min(P)]
  BY DEF Hottest, Front
<1>7. Min(top) \in DOMAIN Members[d] /\ Min(P) \in DOMAIN Members[d]
  BY <1>4, <1>5 DEF Reporting
<1>8. Hottest(d, w) \in Range(Members[d]) /\ Front(d, w) \in Range(Members[d])
  BY <1>6, <1>7 DEF Range
<1>9. w.reading[Front(d, w)] # NoReading
  BY <1>5, <1>6 DEF Reporting
<1>10. \A i \in P : TemperatureAt(d, i, w) <= w.reading[Hottest(d, w)].temperature
  BY <1>5, <1>6 DEF TemperatureAt
<1>11. QED
  BY <1>8, <1>9, <1>10 DEF Gathered

LEMMA NoReadingIsReading == NoReading \in Readings
BY DEF NoReading, Readings

LEMMA GatheredIsReading ==
  ASSUME NEW d \in Domains, NEW w, WorldOK(w)
  PROVE  /\ Gathered(d, w) \in Readings
         /\ Fresh(d, w) \in BOOLEAN
<1>1. CASE Reporting(d, w) = {}
  BY <1>1, NoReadingIsReading DEF Gathered, Fresh
<1>2. CASE Reporting(d, w) # {}
  <2>1. Hottest(d, w) \in Devices /\ Front(d, w) \in Devices
    BY <1>2, GatheredIsHottest, MembersAreDevices
  <2>2. w.reading[Front(d, w)] \in Readings /\ w.reading[Hottest(d, w)].temperature \in Int
    BY <2>1 DEF WorldOK, Readings
  <2>3. Gathered(d, w) = [w.reading[Front(d, w)] EXCEPT !.temperature = w.reading[Hottest(d, w)].temperature]
    BY <1>2, GatheredIsHottest
  <2> HIDE DEF WorldOK
  <2>4. QED
    BY <2>2, <2>3 DEF Readings, Fresh
<1>3. QED
  BY <1>1, <1>2

LEMMA WeakestIsCapability ==
  ASSUME NEW states \in SUBSET CapabilityStates
  PROVE  Weakest(states) \in CapabilityStates
BY DEF Weakest, CapabilityStates

Evaluated == [Domains -> Evaluations]

LEMMA InputIsInput ==
  ASSUME NEW d \in Domains, NEW stored \in Evaluated, NEW w, WorldOK(w)
  PROVE  Input(d, stored, w) \in Inputs
<1>1. \A m \in Range(Members[d]) : w.capability[m] \in [temperature : CapabilityStates, throttle : CapabilityStates]
  BY MembersAreDevices, DeviceAssumption DEF WorldOK
<1>2. {w.capability[m].temperature : m \in Range(Members[d])} \in SUBSET CapabilityStates
  BY <1>1
<1>3. {w.capability[m].throttle : m \in Range(Members[d])} \in SUBSET CapabilityStates
  BY <1>1
<1>4. Gathered(d, w) \in Readings /\ Fresh(d, w) \in BOOLEAN
  BY GatheredIsReading
<1>5. stored[d] \in Evaluations
  BY DEF Evaluated
<1>6. w.history[d] \in Seq(AnySamples) /\ w.couplings \in Edges /\ Policy.depth \in Nat
  BY ValidPolicy DEF WorldOK
<1>7. Reaching(d, w.couplings, Policy.depth) \in SUBSET Domains
  BY <1>6, ReachingIsDomains
<1>8. \A s \in Reaching(d, w.couplings, Policy.depth) : stored[s].state \in ThermalStates
  BY <1>7 DEF Evaluated, Evaluations
<1>9. {stored[s].state : s \in Reaching(d, w.couplings, Policy.depth)} \in SUBSET ThermalStates
  BY <1>8
<1>10. Weakest({w.capability[m].temperature : m \in Range(Members[d])}) \in CapabilityStates
       /\ Weakest({w.capability[m].throttle : m \in Range(Members[d])}) \in CapabilityStates
  BY <1>2, <1>3, WeakestIsCapability
<1> HIDE DEF WorldOK, Evaluated
<1>11. QED
  BY <1>4, <1>5, <1>6, <1>9, <1>10 DEF Input, Inputs

\* What an evaluation in the pass sees: the domains before it renewed, the others as they were.
Seen(d, scope, new, stored) ==
  [x \in Domains |-> IF x \in scope /\ x < d THEN new[x] ELSE stored[x]]

LEMMA StoredIsEvaluation ==
  ASSUME NEW in \in Inputs
  PROVE  Stored(EvaluateThermal(in)) \in Evaluations
BY VerdictIsEvaluation DEF Stored, Evaluations

\* recompute_domain, recompute_all_domains: each domain of the scope is evaluated once, on
\* what the pass has already stored of the domains before it.
LEMMA PassAt ==
  ASSUME NEW scope, NEW stored \in Evaluated, NEW w, WorldOK(w)
  PROVE  /\ Recomputed(scope, stored, w) \in Evaluated
         /\ \A d \in Domains :
              LET new == Recomputed(scope, stored, w)
                  seen == Seen(d, scope, new, stored)
              IN  /\ d \notin scope => new[d] = stored[d]
                  /\ seen \in Evaluated /\ Input(d, seen, w) \in Inputs
                  /\ d \in scope => new[d] = Stored(EvaluateThermal(Input(d, seen, w)))
<1> DEFINE new == Recomputed(scope, stored, w)
           seen(d) == Seen(d, scope, new, stored)
<1>1. new = [d \in Domains |-> Renewed(d, scope, new, stored, w)]
  BY PassIsRecursive
<1> HIDE DEF new
<1>2. \A d \in Domains : /\ d \notin scope => new[d] = stored[d]
                         /\ d \in scope => new[d] = Stored(EvaluateThermal(Input(d, seen(d), w)))
  BY <1>1 DEF Renewed, EvaluateDomain, Seen
<1> DEFINE Bad == {d \in Domains : new[d] \notin Evaluations}
<1>3. ASSUME NEW d \in Domains, \A x \in Domains : x < d => new[x] \in Evaluations
      PROVE  seen(d) \in Evaluated /\ Input(d, seen(d), w) \in Inputs /\ new[d] \in Evaluations
  <2>1. seen(d) \in Evaluated
    BY <1>3 DEF Seen, Evaluated
  <2> HIDE DEF seen
  <2>2. Input(d, seen(d), w) \in Inputs
    BY <2>1, InputIsInput
  <2>3. Stored(EvaluateThermal(Input(d, seen(d), w))) \in Evaluations
    BY <2>2, StoredIsEvaluation
  <2>4. stored[d] \in Evaluations
    BY DEF Evaluated
  <2>5. QED
    BY <1>2, <2>1, <2>2, <2>3, <2>4
<1>4. Bad = {}
  <2>1. SUFFICES ASSUME Bad # {} PROVE FALSE
    OBVIOUS
  <2>2. Bad \in SUBSET Nat
    BY TopologyAssumption
  <2>3. PICK d \in Bad : \A x \in Bad : d <= x
    BY <2>1, <2>2, MinIsLeast
  <2>4. \A x \in Domains : x < d => new[x] \in Evaluations
    <3>1. \A x \in Domains : x \in Nat /\ d \in Nat
      BY TopologyAssumption
    <3>2. \A x \in Domains : x < d => ~(d <= x)
      BY <3>1
    <3>3. QED
      BY <2>3, <3>2
  <2> HIDE DEF seen
  <2>5. new[d] \in Evaluations
    BY <1>3, <2>3, <2>4
  <2>6. QED
    BY <2>3, <2>5
<1>5. \A d \in Domains : new[d] \in Evaluations
  BY <1>4
<1>6. new \in Evaluated
  BY <1>1, <1>5 DEF Evaluated
<1>7. \A d \in Domains : seen(d) \in Evaluated /\ Input(d, seen(d), w) \in Inputs
  BY <1>3, <1>5
<1>8. QED
  BY <1>2, <1>6, <1>7 DEF new

\* RecoveryHistory::push keeps the newest samples, as many as the configuration allows.
LEMMA PushIsBounded ==
  ASSUME NEW S, NEW samples \in Seq(S), NEW sample \in S, Len(samples) <= Capacity
  PROVE  Pushed(samples, sample) \in Seq(S) /\ Len(Pushed(samples, sample)) <= Capacity
<1> DEFINE longer == Append(samples, sample)
           drop == Len(longer) - Capacity
<1>1. longer \in Seq(S) /\ Len(longer) \in Nat /\ Len(longer) = Len(samples) + 1
  OBVIOUS
<1>2. Capacity \in Nat \ {0}
  BY TimingAssumption
<1> HIDE DEF longer
<1>3. CASE Len(longer) > Capacity
  <2>1. \A i \in (drop + 1)..Len(longer) : longer[i] \in S
    BY <1>1, <1>2, <1>3
  <2>2. SubSeq(longer, drop + 1, Len(longer)) \in Seq(S)
    BY <1>1, <1>2, <2>1
  <2>3. Len(SubSeq(longer, drop + 1, Len(longer))) = Capacity
    BY <1>1, <1>2, <1>3
  <2>4. Pushed(samples, sample) = SubSeq(longer, drop + 1, Len(longer))
    BY <1>3 DEF Pushed, longer
  <2>5. QED
    BY <1>2, <2>2, <2>3, <2>4
<1>4. CASE ~(Len(longer) > Capacity)
  <2>1. Pushed(samples, sample) = longer
    BY <1>4 DEF Pushed, longer
  <2>2. QED
    BY <1>1, <1>2, <1>4, <2>1
<1>5. QED
  BY <1>3, <1>4

\* One sample after another: taken when it is of the boot, passed over otherwise.
TakenWhen(kept, sample, b) == IF sample.boot = b THEN Append(kept, sample) ELSE kept
UpTo(S, n) == {x \in Seq(S) : Len(x) <= n}
IsKept(f, samples, b, N) ==
  f[0] = <<>> /\ \A n \in 1..N : f[n] = TakenWhen(f[n - 1], samples[n], b)

KeptBy(f, samples, b, N) ==
  f = [n \in 0..N |-> IF n = 0 THEN <<>> ELSE TakenWhen(f[n - 1], samples[n], b)]

LEMMA KeptAgree ==
  ASSUME NEW samples, NEW b, NEW N \in Nat, NEW f, NEW g,
         IsKept(f, samples, b, N), IsKept(g, samples, b, N), NEW n \in 0..N
  PROVE  f[n] = g[n]
<1> DEFINE Bad == {k \in Nat : k <= N /\ f[k] # g[k]}
<1>1. SUFFICES ASSUME Bad # {} PROVE FALSE
  OBVIOUS
<1>2. PICK k \in Bad : \A j \in Bad : k <= j
  BY <1>1, MinIsLeast
<1>3. k # 0
  BY <1>2 DEF IsKept
<1>4. k - 1 \in Nat /\ k - 1 \notin Bad /\ k \in 1..N
  BY <1>2, <1>3
<1>5. f[k - 1] = g[k - 1]
  BY <1>2, <1>4
<1>6. QED
  BY <1>2, <1>4, <1>5 DEF IsKept

LEMMA OneMoreTaken ==
  ASSUME NEW S, NEW n \in Nat \ {0}, NEW x \in UpTo(S, n - 1), NEW sample \in S, NEW b
  PROVE  TakenWhen(x, sample, b) \in UpTo(S, n)
BY DEF TakenWhen, UpTo

LEMMA KeptExists ==
  ASSUME NEW S, NEW samples, NEW b, NEW N \in Nat, \A n \in 1..N : samples[n] \in S
  PROVE  \E f : /\ KeptBy(f, samples, b, N)
                /\ \A n \in 0..N : f[n] \in UpTo(S, n)
<1> DEFINE Kept(m) == \E f : /\ f = [n \in 0..m |-> f[n]]
                             /\ IsKept(f, samples, b, m)
                             /\ \A n \in 0..m : f[n] \in UpTo(S, n)
           Bad == {m \in Nat : m <= N /\ ~Kept(m)}
<1>1. ASSUME Bad # {} PROVE FALSE
  <2>1. PICK m \in Bad : \A k \in Bad : m <= k
    BY <1>1, MinIsLeast
  <2>2. m # 0
    <3> DEFINE f == [n \in 0..0 |-> <<>>]
    <3>1. <<>> \in UpTo(S, 0)
      BY DEF UpTo
    <3>2. f = [n \in 0..0 |-> f[n]] /\ IsKept(f, samples, b, 0) /\ \A n \in 0..0 : f[n] \in UpTo(S, n)
      BY <3>1 DEF IsKept
    <3>3. QED
      BY <2>1, <3>2
  <2>3. m \in Nat /\ m - 1 \in Nat /\ m - 1 \notin Bad /\ m <= N
    BY <2>1, <2>2
  <2>4. PICK f : /\ f = [n \in 0..(m - 1) |-> f[n]]
                 /\ IsKept(f, samples, b, m - 1)
                 /\ \A n \in 0..(m - 1) : f[n] \in UpTo(S, n)
    BY <2>3
  <2> DEFINE last == TakenWhen(f[m - 1], samples[m], b)
             g == [n \in 0..m |-> IF n = m THEN last ELSE f[n]]
  <2>5. last \in UpTo(S, m)
    <3>1. f[m - 1] \in UpTo(S, m - 1) /\ samples[m] \in S /\ m \in Nat \ {0}
      BY <2>2, <2>3, <2>4
    <3>2. QED
      BY <3>1, OneMoreTaken
  <2>6. g[0] = <<>>
    BY <2>2, <2>3, <2>4 DEF IsKept
  <2>7. ASSUME NEW n \in 1..m PROVE g[n] = TakenWhen(g[n - 1], samples[n], b)
    <3>1. n \in 0..m /\ n - 1 \in 0..m /\ n - 1 # m /\ (n = m \/ n \in 1..(m - 1))
      BY <2>3
    <3>2. g[n - 1] = f[n - 1]
      BY <3>1
    <3>3. CASE n = m
      BY <3>1, <3>2, <3>3
    <3>4. CASE n # m
      BY <2>4, <3>1, <3>2, <3>4 DEF IsKept
    <3>5. QED
      BY <3>3, <3>4
  <2> HIDE DEF last
  <2>8. \A n \in 0..m : g[n] \in UpTo(S, n)
    BY <2>3, <2>4, <2>5
  <2>9. g = [n \in 0..m |-> g[n]]
    OBVIOUS
  <2> HIDE DEF g
  <2>10. Kept(m)
    BY <2>6, <2>7, <2>8, <2>9 DEF IsKept
  <2>11. QED
    BY <2>1, <2>10
<1>2. PICK f : /\ f = [n \in 0..N |-> f[n]]
               /\ IsKept(f, samples, b, N)
               /\ \A n \in 0..N : f[n] \in UpTo(S, n)
  BY <1>1
<1>3. \A n \in 0..N : f[n] = IF n = 0 THEN <<>> ELSE TakenWhen(f[n - 1], samples[n], b)
  BY <1>2 DEF IsKept
<1>4. KeptBy(f, samples, b, N)
  BY <1>2, <1>3 DEF KeptBy
<1>5. QED
  BY <1>2, <1>4

\* RecoveryHistory::invalidate_for_boot: what is kept are samples that were there.
LEMMA RetiredHistory ==
  ASSUME NEW S, NEW samples \in Seq(S), NEW b
  PROVE  OfBoot(samples, b) \in Seq(S) /\ Len(OfBoot(samples, b)) <= Len(samples)
<1> DEFINE L == Len(samples)
           kept == CHOOSE f : KeptBy(f, samples, b, L)
<1>1. L \in Nat /\ \A n \in 1..L : samples[n] \in S
  OBVIOUS
<1>2. OfBoot(samples, b) = kept[L]
  BY DEF OfBoot, TakenWhen, KeptBy
<1> HIDE DEF L
<1>3. PICK f : /\ KeptBy(f, samples, b, L)
               /\ \A n \in 0..L : f[n] \in UpTo(S, n)
  BY <1>1, KeptExists, Zenon
<1>4. KeptBy(kept, samples, b, L)
  BY <1>3, Zenon
<1> HIDE DEF kept
<1>5. ASSUME NEW h, KeptBy(h, samples, b, L)
      PROVE  IsKept(h, samples, b, L)
  <2>1. \A n \in 0..L : h[n] = IF n = 0 THEN <<>> ELSE TakenWhen(h[n - 1], samples[n], b)
    BY <1>5 DEF KeptBy
  <2>2. 0 \in 0..L /\ \A n \in 1..L : n \in 0..L /\ n # 0
    BY <1>1
  <2>3. QED
    BY <2>1, <2>2 DEF IsKept
<1>6. IsKept(f, samples, b, L) /\ IsKept(kept, samples, b, L) /\ L \in 0..L
  BY <1>1, <1>3, <1>4, <1>5
<1>7. kept[L] = f[L]
  BY <1>1, <1>6, KeptAgree
<1>8. kept[L] \in UpTo(S, L)
  BY <1>3, <1>6, <1>7
<1>9. QED
  BY <1>2, <1>8 DEF L, UpTo

--------------------------------------------------------------------------------
(* Type correctness *)

PublishedReadings ==
  [temperature : Temperatures, throttled : BOOLEAN, age : 0..AgeCap, boot : 1..MaxBoot,
   limit : Range(LimitOf)]

EvidenceOK ==
  /\ reading \in [Devices -> {NoReading} \cup PublishedReadings]
  /\ invalidated \in SUBSET Devices
  /\ history \in [Domains -> Seq(Samples)] /\ \A d \in Domains : Len(history[d]) <= Capacity

TopologyOK ==
  /\ boot \in [Workers -> 1..MaxBoot] /\ alive \in [Workers -> BOOLEAN]
  /\ capability \in [Devices -> CapabilityChoices]
  /\ couplings \in SUBSET PossibleCouplings
  /\ explicit \in SUBSET Domains

EvaluationOK == evaluation \in Evaluated

LEMMA TypeParts == TypeOK <=> EvidenceOK /\ TopologyOK /\ EvaluationOK
BY DEF TypeOK, EvidenceOK, TopologyOK, EvaluationOK, Evaluated, Evaluations, PublishedReadings

LEMMA AgesAreNatural ==
  /\ AgeCap \in Nat /\ MaxDelay \in Nat /\ MaxDelay <= AgeCap
  /\ MaxBoot \in Nat /\ 1 \in 1..MaxBoot
BY ValidPolicy, TimingAssumption DEF AgeCap

LEMMA BoundsAreNatural == Temperatures \subseteq Int /\ 0..AgeCap \subseteq Nat /\ 1..MaxBoot \subseteq Nat
BY DeviceAssumption, AgesAreNatural

LEMMA SamplesAreSamples == Samples \subseteq AnySamples
BY BoundsAreNatural DEF Samples, AnySamples

LEMMA ReadingsAreReadings == {NoReading} \cup PublishedReadings \subseteq Readings
<1>1. Range(LimitOf) \subseteq Int
  BY DeviceAssumption DEF Range
<1>2. PublishedReadings \subseteq Readings
  BY <1>1, BoundsAreNatural DEF PublishedReadings, Readings
<1>3. QED
  BY <1>2, NoReadingIsReading

LEMMA SeqIsMonotone ==
  ASSUME NEW S, NEW T, S \subseteq T
  PROVE  Seq(S) \subseteq Seq(T)
OBVIOUS

\* What is evaluated is evaluated on well-formed evidence.
LEMMA WorldIsOK == EvidenceOK /\ TopologyOK => WorldOK(World)
<1> SUFFICES ASSUME EvidenceOK, TopologyOK PROVE WorldOK(World)
  OBVIOUS
<1>1. reading \in [Devices -> Readings]
  BY ReadingsAreReadings DEF EvidenceOK
<1>2. history \in [Domains -> Seq(AnySamples)]
  <2>1. Seq(Samples) \subseteq Seq(AnySamples)
    BY SamplesAreSamples, SeqIsMonotone
  <2>2. history \in [Domains -> Seq(Samples)]
    BY DEF EvidenceOK
  <2>3. QED
    BY <2>1, <2>2
<1>3. capability \in [Devices -> CapabilityChoices] /\ couplings \in Edges
  BY CouplingsAreEdges DEF TopologyOK
<1>4. QED
  BY <1>1, <1>2, <1>3 DEF WorldOK, World

LEMMA NoEvaluationIsEvaluation == NoEvaluation \in Evaluations
BY DEF NoEvaluation, Evaluations, ThermalStates, Unresolved, DeratingLevels, RestrictionRank

LEMMA InitTyped == Init => TypeOK
<1> SUFFICES ASSUME Init PROVE TypeOK
  OBVIOUS
<1>1. EvidenceOK
  BY TimingAssumption DEF Init, EvidenceOK
<1>2. TopologyOK
  BY AgesAreNatural DEF Init, TopologyOK
<1>3. [d \in Domains |-> NoEvaluation] \in Evaluated
  BY NoEvaluationIsEvaluation DEF Evaluated
<1>4. EvaluationOK
  BY <1>1, <1>2, <1>3, WorldIsOK, PassAt DEF Init, EvaluationOK
<1>5. QED
  BY <1>1, <1>2, <1>4, TypeParts

LEMMA WorkersMeasure ==
  ASSUME NEW device \in Devices
  PROVE  WorkerOf[device] \in Workers /\ LimitOf[device] \in Range(LimitOf)
BY DeviceAssumption DEF Workers, Range

LEMMA AgedIsTyped ==
  /\ \A r \in PublishedReadings : Older(r) \in PublishedReadings
  /\ \A s \in Samples : Older(s) \in Samples
BY AgesAreNatural DEF Older, PublishedReadings, Samples

LEMMA PublishTyped ==
  ASSUME EvidenceOK, TopologyOK, NEW device \in Devices, NEW temperature \in Temperatures,
         NEW throttled \in Throttles, NEW age \in 0..MaxDelay,
         Publish(device, temperature, throttled, age)
  PROVE  EvidenceOK' /\ TopologyOK'
<1> DEFINE r == Taken(device, temperature, throttled, age)
<1>1. r \in PublishedReadings /\ Sample(r) \in Samples
  <2>1. boot[WorkerOf[device]] \in 1..MaxBoot /\ LimitOf[device] \in Range(LimitOf)
    BY WorkersMeasure DEF TopologyOK
  <2>2. throttled \in BOOLEAN /\ age \in 0..AgeCap
    BY TimingAssumption, AgesAreNatural
  <2>3. QED
    BY <2>1, <2>2 DEF Taken, Sample, PublishedReadings, Samples
<1> HIDE DEF r
<1>2. /\ reading' = [reading EXCEPT ![device] = r]
      /\ invalidated' = invalidated \ {device}
      /\ history' = [d \in Domains |-> IF d \in Holding(device) THEN Pushed(history[d], Sample(r)) ELSE history[d]]
      /\ UNCHANGED <<workerVars, topologyVars>>
  BY DEF Publish, r
<1>3. ASSUME NEW d \in Domains
      PROVE  history'[d] \in Seq(Samples) /\ Len(history'[d]) <= Capacity
  <2>1. history[d] \in Seq(Samples) /\ Len(history[d]) <= Capacity
    BY DEF EvidenceOK
  <2>2. Pushed(history[d], Sample(r)) \in Seq(Samples) /\ Len(Pushed(history[d], Sample(r))) <= Capacity
    BY <1>1, <2>1, PushIsBounded
  <2>3. QED
    BY <1>2, <2>1, <2>2
<1>4. history' \in [Domains -> Seq(Samples)] /\ \A d \in Domains : Len(history'[d]) <= Capacity
  BY <1>2, <1>3
<1>5. reading' \in [Devices -> {NoReading} \cup PublishedReadings] /\ invalidated' \in SUBSET Devices
  BY <1>1, <1>2 DEF EvidenceOK
<1>6. TopologyOK'
  BY <1>2 DEF TopologyOK, workerVars, topologyVars
<1>7. QED
  BY <1>4, <1>5, <1>6 DEF EvidenceOK

LEMMA TickTyped ==
  ASSUME EvidenceOK, TopologyOK, Tick
  PROVE  EvidenceOK' /\ TopologyOK'
<1>1. reading' \in [Devices -> {NoReading} \cup PublishedReadings] /\ invalidated' \in SUBSET Devices
  BY AgedIsTyped DEF Tick, EvidenceOK
<1>2. ASSUME NEW d \in Domains
      PROVE  history'[d] \in Seq(Samples) /\ Len(history'[d]) <= Capacity
  <2>1. history[d] \in Seq(Samples) /\ Len(history[d]) <= Capacity
    BY DEF EvidenceOK
  <2>2. history'[d] = [i \in 1..Len(history[d]) |-> Older(history[d][i])]
    BY <2>1 DEF Tick
  <2>3. \A i \in 1..Len(history[d]) : Older(history[d][i]) \in Samples
    BY <2>1, AgedIsTyped
  <2>4. QED
    BY <2>1, <2>2, <2>3
<1>3. history' = [d \in Domains |-> history'[d]]
  BY DEF Tick
<1>4. history' \in [Domains -> Seq(Samples)]
  BY <1>2, <1>3
<1>5. TopologyOK'
  BY DEF Tick, TopologyOK, workerVars, topologyVars
<1>6. QED
  BY <1>1, <1>2, <1>4, <1>5 DEF EvidenceOK

LEMMA RetireTyped ==
  ASSUME EvidenceOK, NEW worker \in Workers, RetireBoot(worker)
  PROVE  EvidenceOK'
<1>1. ASSUME NEW d \in Domains
      PROVE  history'[d] \in Seq(Samples) /\ Len(history'[d]) <= Capacity
  <2>1. history[d] \in Seq(Samples) /\ Len(history[d]) <= Capacity
    BY DEF EvidenceOK
  <2>2. OfBoot(history[d], boot[worker]) \in Seq(Samples)
        /\ Len(OfBoot(history[d], boot[worker])) <= Len(history[d])
    BY <2>1, RetiredHistory
  <2>3. history'[d] = OfBoot(history[d], boot[worker])
    BY DEF RetireBoot
  <2>4. Len(history[d]) \in Nat /\ Len(OfBoot(history[d], boot[worker])) \in Nat /\ Capacity \in Nat
    BY <2>1, <2>2, TimingAssumption
  <2>5. QED
    BY <2>1, <2>2, <2>3, <2>4
<1>2. history' = [d \in Domains |-> history'[d]]
  BY DEF RetireBoot
<1>3. history' \in [Domains -> Seq(Samples)]
  BY <1>1, <1>2
<1>4. reading' = reading /\ invalidated' \in SUBSET Devices
  BY DEF RetireBoot, EvidenceOK
<1>5. QED
  BY <1>1, <1>3, <1>4 DEF EvidenceOK

LEMMA WorldTypedNext ==
  ASSUME EvidenceOK, TopologyOK, [Next]_vars
  PROVE  EvidenceOK' /\ TopologyOK'
<1>1. CASE Tick
  BY <1>1, TickTyped
<1>2. ASSUME NEW device \in Devices, PublishSome(device) PROVE EvidenceOK' /\ TopologyOK'
  BY <1>2, PublishTyped DEF PublishSome
<1>3. ASSUME NEW worker \in Workers, NoteWorkerDeath(worker) PROVE EvidenceOK' /\ TopologyOK'
  <2>1. EvidenceOK'
    BY <1>3, RetireTyped DEF NoteWorkerDeath
  <2>2. TopologyOK'
    BY <1>3 DEF NoteWorkerDeath, TopologyOK, topologyVars
  <2>3. QED
    BY <2>1, <2>2
<1>4. ASSUME NEW worker \in Workers, Reincarnate(worker) PROVE EvidenceOK' /\ TopologyOK'
  <2>1. EvidenceOK'
    BY <1>4, RetireTyped DEF Reincarnate
  <2>2. boot[worker] + 1 \in 1..MaxBoot
    BY <1>4, AgesAreNatural DEF Reincarnate, TopologyOK
  <2>3. TopologyOK'
    BY <1>4, <2>2 DEF Reincarnate, TopologyOK, topologyVars
  <2>4. QED
    BY <2>1, <2>3
<1>5. ASSUME NEW worker \in Workers, Heartbeat(worker) PROVE EvidenceOK' /\ TopologyOK'
  BY <1>5 DEF Heartbeat, EvidenceOK, TopologyOK, evidenceVars, topologyVars
<1>6. ASSUME NEW d \in Domains, Evaluate(d) \/ AuthorizeRecovery(d) \/ RevokeRecovery(d)
      PROVE  EvidenceOK' /\ TopologyOK'
  <2>1. EvidenceOK' /\ UNCHANGED <<workerVars, capability, couplings>>
    BY <1>6 DEF Evaluate, AuthorizeRecovery, RevokeRecovery, EvidenceOK, evidenceVars, topologyVars
  <2>2. explicit' \in SUBSET Domains
    BY <1>6 DEF Evaluate, AuthorizeRecovery, RevokeRecovery, TopologyOK, topologyVars
  <2>3. QED
    BY <2>1, <2>2 DEF TopologyOK, workerVars
<1>7. ASSUME NEW edge \in PossibleCouplings, RegisterCoupling(edge) \/ RemoveCoupling(edge)
      PROVE  EvidenceOK' /\ TopologyOK'
  BY <1>7 DEF RegisterCoupling, RemoveCoupling, EvidenceOK, TopologyOK, evidenceVars, workerVars
<1>8. ASSUME NEW device \in Devices, NEW choice \in CapabilityChoices, PublishCapabilities(device, choice)
      PROVE  EvidenceOK' /\ TopologyOK'
  BY <1>8 DEF PublishCapabilities, EvidenceOK, TopologyOK, evidenceVars, workerVars
<1>9. CASE UNCHANGED vars
  BY <1>9 DEF vars, evidenceVars, workerVars, topologyVars, EvidenceOK, TopologyOK
<1>10. QED
  BY <1>1, <1>2, <1>3, <1>4, <1>5, <1>6, <1>7, <1>8, <1>9 DEF Next

\* The domains that hold a device or lie around one that does: what a publication refreshes.
Neighbours(device) == UNION {Around(d, couplings) : d \in Holding(device)}

\* Every step stores what one pass of recomputation yields, or two in a publication.
LEMMA EvaluationSteps ==
  ASSUME [Next]_vars
  PROVE  \/ UNCHANGED evaluation /\ Tick
         \/ UNCHANGED <<evaluation, reading, invalidated, history, capability, couplings, explicit>>
         \/ \E scope \in SUBSET Domains :
              /\ Recompute(scope) /\ UNCHANGED reading
              /\ scope = Domains \/ UNCHANGED <<invalidated, capability, couplings>>
         \/ \E device \in Devices :
              /\ PublishSome(device)
              /\ evaluation' = Recomputed(Neighbours(device), Recomputed(Holding(device), evaluation, World'), World')
<1>1. CASE Tick
  BY <1>1 DEF Tick
<1>2. ASSUME NEW device \in Devices, PublishSome(device)
      PROVE  evaluation' = Recomputed(Neighbours(device), Recomputed(Holding(device), evaluation, World'), World')
  BY <1>2 DEF PublishSome, Publish, Neighbours
<1>3. ASSUME NEW worker \in Workers, NoteWorkerDeath(worker) \/ Reincarnate(worker)
      PROVE  Recompute(Domains) /\ UNCHANGED reading
  BY <1>3 DEF NoteWorkerDeath, Reincarnate, RetireBoot
<1>4. ASSUME NEW worker \in Workers, Heartbeat(worker)
      PROVE  UNCHANGED <<evaluation, reading, invalidated, history, capability, couplings, explicit>>
  BY <1>4 DEF Heartbeat, evidenceVars, topologyVars
<1>5. ASSUME NEW d \in Domains, Evaluate(d) \/ AuthorizeRecovery(d) \/ RevokeRecovery(d)
      PROVE  Recompute({d}) /\ UNCHANGED <<reading, invalidated, capability, couplings>>
  BY <1>5 DEF Evaluate, AuthorizeRecovery, RevokeRecovery, evidenceVars, topologyVars
<1>6. ASSUME NEW edge \in PossibleCouplings, RegisterCoupling(edge) \/ RemoveCoupling(edge)
      PROVE  Recompute(Domains) /\ UNCHANGED reading
  BY <1>6 DEF RegisterCoupling, RemoveCoupling, evidenceVars
<1>7. ASSUME NEW device \in Devices, NEW choice \in CapabilityChoices, PublishCapabilities(device, choice)
      PROVE  Recompute(Domains) /\ UNCHANGED reading
  BY <1>7 DEF PublishCapabilities, evidenceVars
<1>8. CASE UNCHANGED vars
  BY <1>8 DEF vars, evidenceVars, topologyVars
<1> HIDE DEF Recompute
<1>9. QED
  BY <1>1, <1>2, <1>3, <1>4, <1>5, <1>6, <1>7, <1>8 DEF Next

LEMMA WorldIsOKNext ==
  ASSUME EvidenceOK, TopologyOK, [Next]_vars
  PROVE  WorldOK(World')
<1>1. EvidenceOK' /\ TopologyOK'
  BY WorldTypedNext
<1>2. EvidenceOK' /\ TopologyOK' => (WorldOK(World))'
  BY WorldIsOK, PTL
<1>3. QED
  BY <1>1, <1>2 DEF WorldOK

LEMMA NextTyped == TypeOK /\ [Next]_vars => TypeOK'
<1> SUFFICES ASSUME TypeOK, [Next]_vars PROVE TypeOK'
  OBVIOUS
<1>1. EvidenceOK /\ TopologyOK /\ evaluation \in Evaluated
  BY TypeParts DEF EvaluationOK
<1>2. EvidenceOK' /\ TopologyOK' /\ WorldOK(World')
  BY <1>1, WorldTypedNext, WorldIsOKNext
<1>3. evaluation' \in Evaluated
  <2>1. ASSUME NEW scope \in SUBSET Domains, Recompute(scope) PROVE evaluation' \in Evaluated
    BY <1>1, <1>2, <2>1, PassAt DEF Recompute
  <2>2. ASSUME NEW device \in Devices,
               evaluation' = Recomputed(Neighbours(device), Recomputed(Holding(device), evaluation, World'), World')
        PROVE  evaluation' \in Evaluated
    <3>1. Recomputed(Holding(device), evaluation, World') \in Evaluated
      BY <1>1, <1>2, PassAt
    <3>2. QED
      BY <1>2, <2>2, <3>1, PassAt
  <2>3. QED
    BY <1>1, <2>1, <2>2, EvaluationSteps
<1>4. EvaluationOK'
  BY <1>3 DEF EvaluationOK, Evaluated
<1>5. TypeOK' <=> EvidenceOK' /\ TopologyOK' /\ EvaluationOK'
  BY TypeParts, PTL
<1>6. QED
  BY <1>2, <1>4, <1>5

\* Every reading, history, evaluation and registration stays well-formed and the histories
\* stay within the configured number of samples.
THEOREM TypeCorrect == Spec => []TypeOK
BY InitTyped, NextTyped, PTL DEF Spec

--------------------------------------------------------------------------------
(* A hot member, and admissions *)

LEMMA PlaceOfMember ==
  ASSUME NEW d \in Domains, NEW m \in Range(Members[d]), NEW w, w.reading[m] # NoReading
  PROVE  \E i \in Reporting(d, w) : Members[d][i] = m
<1>1. PICK i \in DOMAIN Members[d] : Members[d][i] = m
  BY DEF Range
<1>2. i \in Reporting(d, w)
  BY <1>1 DEF Reporting
<1>3. QED
  BY <1>1, <1>2

\* A hot member keeps its domain from being judged healthy, whatever else is read.
LEMMA HotVerdict ==
  ASSUME NEW d \in Domains, NEW stored \in Evaluated, NEW w, WorldOK(w),
         NEW m \in Range(Members[d]), w.reading[m] # NoReading,
         w.reading[m].temperature >= Policy.derating
  PROVE  Stored(EvaluateThermal(Input(d, stored, w))).state \notin Healthy
<1> DEFINE in == Input(d, stored, w)
<1>1. in \in Inputs
  BY InputIsInput
<1>2. PICK i \in Reporting(d, w) : Members[d][i] = m
  BY PlaceOfMember
<1>3. TemperatureAt(d, i, w) <= w.reading[Hottest(d, w)].temperature
  BY <1>2, GatheredIsHottest
<1>4. w.reading[m] \in Readings /\ w.reading[Hottest(d, w)] \in Readings /\ w.reading[Front(d, w)] \in Readings
  BY <1>2, GatheredIsHottest, MembersAreDevices DEF WorldOK
<1>5. Gathered(d, w).temperature = w.reading[Hottest(d, w)].temperature
  BY <1>2, <1>4, GatheredIsHottest DEF Readings
<1>6. Policy.derating \in Int
  BY ValidPolicy
<1>7. ~(Gathered(d, w).temperature < Policy.derating)
  BY <1>2, <1>3, <1>4, <1>5, <1>6 DEF TemperatureAt, Readings
<1>8. in.reading = Gathered(d, w)
  BY DEF Input
<1> HIDE DEF in
<1>9. EvaluateThermal(in).state \notin Healthy
  BY <1>1, <1>7, <1>8, HealthyVerdictIsCool
<1>10. QED
  BY <1>9 DEF Stored, in

HotIn(d, readings) ==
  \E m \in Range(Members[d]) : readings[m] # NoReading /\ readings[m].temperature >= Policy.derating

LEMMA PassKeepsHot ==
  ASSUME NEW scope, NEW stored \in Evaluated, NEW w, WorldOK(w), NEW d \in Domains,
         HotIn(d, w.reading), d \in scope \/ stored[d].state \notin Healthy
  PROVE  Recomputed(scope, stored, w)[d].state \notin Healthy
<1> DEFINE new == Recomputed(scope, stored, w)
           seen == Seen(d, scope, new, stored)
<1>1. CASE d \notin scope
  BY <1>1, PassAt
<1>2. CASE d \in scope
  <2>1. seen \in Evaluated /\ new[d] = Stored(EvaluateThermal(Input(d, seen, w)))
    BY <1>2, PassAt
  <2> HIDE DEF seen, new
  <2>2. PICK m \in Range(Members[d]) : w.reading[m] # NoReading /\ w.reading[m].temperature >= Policy.derating
    BY DEF HotIn
  <2>3. Stored(EvaluateThermal(Input(d, seen, w))).state \notin Healthy
    BY <2>1, <2>2, HotVerdict
  <2>4. QED
    BY <2>1, <2>3 DEF new
<1>3. QED
  BY <1>1, <1>2

LEMMA HotKept == TypeOK /\ HotNeverHealthy /\ [Next]_vars => HotNeverHealthy'
<1> SUFFICES ASSUME TypeOK, HotNeverHealthy, [Next]_vars, NEW d \in Domains, HotIn(d, reading')
             PROVE  evaluation'[d].state \notin Healthy
  BY DEF HotNeverHealthy, HotIn
<1>1. EvidenceOK /\ TopologyOK /\ evaluation \in Evaluated
  BY TypeParts DEF EvaluationOK
<1>2. WorldOK(World') /\ World'.reading = reading'
  BY <1>1, WorldIsOKNext DEF World
<1>3. HotIn(d, reading) => evaluation[d].state \notin Healthy
  BY DEF HotNeverHealthy, HotIn
<1>4. CASE UNCHANGED evaluation /\ Tick
  <2>1. PICK m \in Range(Members[d]) : reading'[m] # NoReading /\ reading'[m].temperature >= Policy.derating
    BY DEF HotIn
  <2>2. m \in Devices
    BY MembersAreDevices
  <2>3. reading[m] # NoReading /\ reading'[m] = Older(reading[m]) /\ reading[m] \in PublishedReadings
    BY <1>1, <1>4, <2>1, <2>2 DEF Tick, EvidenceOK
  <2>4. reading'[m].temperature = reading[m].temperature
    BY <2>3 DEF Older, PublishedReadings
  <2>5. HotIn(d, reading)
    BY <2>1, <2>3, <2>4 DEF HotIn
  <2>6. QED
    BY <1>3, <1>4, <2>5
<1>5. CASE UNCHANGED <<evaluation, reading, invalidated, history, capability, couplings, explicit>>
  BY <1>3, <1>5
<1>6. ASSUME NEW scope \in SUBSET Domains, Recompute(scope), UNCHANGED reading
      PROVE  evaluation'[d].state \notin Healthy
  <2>1. evaluation[d].state \notin Healthy
    BY <1>3, <1>6
  <2>2. QED
    BY <1>1, <1>2, <1>6, <2>1, PassKeepsHot DEF Recompute
<1>7. ASSUME NEW device \in Devices, PublishSome(device),
             evaluation' = Recomputed(Neighbours(device), Recomputed(Holding(device), evaluation, World'), World')
      PROVE  evaluation'[d].state \notin Healthy
  <2> DEFINE mid == Recomputed(Holding(device), evaluation, World')
  <2>1. d \in Holding(device) \/ evaluation[d].state \notin Healthy
    <3>1. SUFFICES ASSUME d \notin Holding(device) PROVE HotIn(d, reading)
      BY <1>3
    <3>2. \A m \in Range(Members[d]) : m # device /\ m \in Devices
      BY <3>1, MembersAreDevices DEF Holding
    <3>3. \A m \in Range(Members[d]) : reading'[m] = reading[m]
      BY <1>1, <1>7, <3>2 DEF PublishSome, Publish, EvidenceOK
    <3>4. QED
      BY <3>3 DEF HotIn
  <2>2. mid[d].state \notin Healthy /\ mid \in Evaluated
    BY <1>1, <1>2, <2>1, PassKeepsHot, PassAt
  <2> HIDE DEF mid
  <2>3. Recomputed(Neighbours(device), mid, World')[d].state \notin Healthy
    BY <1>2, <2>2, PassKeepsHot
  <2>4. QED
    BY <1>7, <2>3 DEF mid
<1>8. QED
  BY <1>4, <1>5, <1>6, <1>7, EvaluationSteps

\* publish_evidence, recompute_domain: a domain with a member last read at or above the derating
\* threshold is never stored as healthy, whatever is published, retired or coupled afterwards.
THEOREM HotDomainsAreNeverHealthy == Spec => []HotNeverHealthy
<1>1. Init => HotNeverHealthy
  <2>1. SUFFICES ASSUME Init, NEW d \in Domains, NEW m \in Range(Members[d]), reading[m] # NoReading
                 PROVE  FALSE
    BY DEF HotNeverHealthy
  <2>2. m \in Devices
    BY MembersAreDevices
  <2>3. QED
    BY <2>1, <2>2 DEF Init
<1>2. QED
  BY <1>1, HotKept, TypeCorrect, PTL DEF Spec

\* Without a verdict on fresh evidence only the policy's own exception lets derated work in.
LEMMA AdmittedIsJudged ==
  ASSUME NEW in \in Inputs, NEW request,
         EvaluateAdmission(request, EvaluateThermal(in)) \in {"ADMIT", "ADMIT_DERATED"}
  PROVE  \/ HasReading(in) /\ in.fresh
         \/ EvaluateThermal(in).state = "UNKNOWN" /\ Policy.unknownBehavior = "ALLOW_DERATED"
<1> DEFINE e == EvaluateThermal(in)
<1>1. e.decision \in Decisions
  BY VerdictIsDecision
<1>2. e.decision \in {"ALLOW", "ALLOW_DERATED"}
  <2> HIDE DEF e
  <2>1. Listed(request.profile)
    BY DEF EvaluateAdmission, e
  <2>2. e.decision # "DEFER"
    <3>1. ASSUME e.decision = "DEFER" PROVE FALSE
      <4>1. EvaluateAdmission(request, e) \in {"DEFER", "DENY"}
        BY <2>1, <3>1 DEF EvaluateAdmission
      <4>2. QED
        BY <4>1 DEF e
    <3>2. QED
      BY <3>1
  <2>3. ASSUME e.decision \notin {"ALLOW", "ALLOW_DERATED", "DEFER"} PROVE FALSE
    <3>1. EvaluateAdmission(request, e) = e.decision
      BY <2>1, <2>3 DEF EvaluateAdmission
    <3>2. QED
      BY <1>1, <3>1 DEF e, Decisions, UnknownBehaviors, UnsupportedBehaviors
  <2>4. QED
    BY <2>2, <2>3
<1>3. CASE EvaluateThermal(in) = Judged(in) /\ HasReading(in) /\ in.fresh
  BY <1>3
<1>4. ASSUME NEW state \in Unresolved, EvaluateThermal(in) = Unjudged(state)
      PROVE  state = "UNKNOWN" /\ Policy.unknownBehavior = "ALLOW_DERATED"
  <2>1. e.decision = Decision(state, 0)
    BY <1>4 DEF Unjudged
  <2>2. CASE state = "REVALIDATION_REQUIRED"
    <3>1. Decision(state, 0) = "REVALIDATION_REQUIRED"
      BY <2>2 DEF Decision, Healthy
    <3>2. QED
      BY <1>2, <2>1, <3>1
  <2>3. CASE state = "UNSUPPORTED"
    <3>1. Decision(state, 0) = Policy.unsupportedBehavior
      BY <2>3 DEF Decision, Healthy
    <3>2. QED
      BY <1>2, <2>1, <3>1, ValidPolicy DEF UnsupportedBehaviors
  <2>4. CASE state = "UNKNOWN"
    <3>1. Decision(state, 0) = Policy.unknownBehavior
      BY <2>4 DEF Decision, Healthy
    <3>2. QED
      BY <1>2, <2>1, <2>4, <3>1, ValidPolicy DEF UnknownBehaviors
  <2>5. QED
    BY <2>2, <2>3, <2>4 DEF Unresolved
<1>5. \/ EvaluateThermal(in) = Judged(in) /\ HasReading(in) /\ in.fresh
      \/ \E state \in Unresolved : EvaluateThermal(in) = Unjudged(state)
  BY DEF EvaluateThermal, Inputs, CapabilityStates, Unresolved
<1>6. QED
  BY <1>3, <1>4, <1>5 DEF Unjudged

LEMMA TypedAdmissionIsSafe == TypeOK => AdmissionIsSafe
<1> SUFFICES ASSUME TypeOK, NEW d \in Domains, NEW request \in Requests
    PROVE  LET now == EvaluateDomain(d, evaluation, World)
               answer == EvaluateAdmission(request, now)
           IN  /\ answer = "ADMIT" =>
                    \A i \in Reporting(d, World) :
                      LET t == TemperatureAt(d, i, World) IN
                      /\ t < Policy.derating
                      /\ t + Policy.safetyMargin + Policy.minHeadroom + Demand(request.profile) <= Policy.critical
               /\ answer \in {"ADMIT", "ADMIT_DERATED"} =>
                    \/ /\ Reporting(d, World) # {}
                       /\ Hottest(d, World) \notin invalidated
                       /\ reading[Front(d, World)].age <= Policy.maxAge
                    \/ now.state = "UNKNOWN" /\ Policy.unknownBehavior = "ALLOW_DERATED"
  BY DEF AdmissionIsSafe
<1> DEFINE w == World
           in == Input(d, evaluation, w)
           e == EvaluateThermal(in)
<1>1. EvidenceOK /\ TopologyOK /\ evaluation \in Evaluated /\ WorldOK(w)
  BY TypeParts, WorldIsOK DEF EvaluationOK
<1>2. in \in Inputs
  BY <1>1, InputIsInput
<1>3. EvaluateDomain(d, evaluation, World) = e
  BY DEF EvaluateDomain
<1>4. in.reading = Gathered(d, w) /\ in.fresh = Fresh(d, w)
  BY DEF Input
<1>5. w.reading = reading /\ w.invalidated = invalidated
  BY DEF World
<1> HIDE DEF in, w
<1>6. ASSUME in.fresh
      PROVE  /\ Reporting(d, w) # {}
             /\ Hottest(d, w) \notin invalidated
             /\ reading[Front(d, w)].age <= Policy.maxAge
             /\ in.reading.temperature \in Int /\ in.reading.limit \in Int
             /\ \A i \in Reporting(d, w) : TemperatureAt(d, i, w) \in Int
                                           /\ TemperatureAt(d, i, w) <= in.reading.temperature
  <2>1. Reporting(d, w) # {} /\ Hottest(d, w) \notin invalidated /\ Gathered(d, w).age <= Policy.maxAge
    BY <1>4, <1>5, <1>6 DEF Fresh
  <2>2. w.reading[Hottest(d, w)] \in Readings /\ w.reading[Front(d, w)] \in Readings
    BY <1>1, <2>1, GatheredIsHottest, MembersAreDevices DEF WorldOK
  <2>3. /\ Gathered(d, w).temperature = w.reading[Hottest(d, w)].temperature
        /\ Gathered(d, w).age = w.reading[Front(d, w)].age
    BY <1>1, <2>1, <2>2, GatheredIsHottest DEF Readings
  <2>4. \A i \in Reporting(d, w) : w.reading[Members[d][i]] \in Readings
    BY <1>1, MembersAreDevices DEF Reporting, WorldOK
  <2>5. \A i \in Reporting(d, w) : TemperatureAt(d, i, w) \in Int
    BY <2>4 DEF TemperatureAt, Readings
  <2>6. in.reading.temperature \in Int /\ in.reading.limit \in Int
    BY <1>2 DEF Inputs, Readings
  <2>7. QED
    BY <1>1, <1>4, <1>5, <2>1, <2>3, <2>5, <2>6, GatheredIsHottest
<1>7. ASSUME EvaluateAdmission(request, e) = "ADMIT", NEW i \in Reporting(d, w)
      PROVE  /\ TemperatureAt(d, i, w) < Policy.derating
             /\ TemperatureAt(d, i, w) + Policy.safetyMargin + Policy.minHeadroom + Demand(request.profile)
                  <= Policy.critical
  <2>1. request \in [profile : STRING, class : ExecutionClasses, concurrency : 0..100]
    BY DeviceAssumption
  <2>2. /\ Listed(request.profile) /\ e.state \in Healthy /\ in.fresh
        /\ EffectiveHeadroom(in.reading) >= Policy.minHeadroom + Demand(request.profile)
    BY <1>2, <1>7, <2>1, AdmissionIsCovered
  <2>3. in.reading.temperature < Policy.derating
    BY <1>2, <2>2, HealthyVerdictIsCool
  <2>4. Demand(request.profile) \in Nat
    BY ValidPolicy DEF Demand
  <2>5. /\ Policy.derating \in Int /\ Policy.critical \in Int /\ Policy.safetyMargin \in Nat
        /\ Policy.uncertaintyMargin \in Nat /\ Policy.minHeadroom \in Nat
    BY ValidPolicy
  <2>6. GoverningLimit(in.reading) \in Int /\ GoverningLimit(in.reading) <= Policy.critical
    BY <1>6, <2>2, <2>5 DEF GoverningLimit
  <2>7. TemperatureAt(d, i, w) \in Int /\ TemperatureAt(d, i, w) <= in.reading.temperature
        /\ in.reading.temperature \in Int
    BY <1>6, <1>7, <2>2
  <2> HIDE DEF e
  <2>8. GoverningLimit(in.reading) - in.reading.temperature - Policy.safetyMargin - Policy.uncertaintyMargin
          >= Policy.minHeadroom + Demand(request.profile)
    BY <2>2 DEF EffectiveHeadroom
  <2>9. QED
    BY <2>3, <2>4, <2>5, <2>6, <2>7, <2>8
<1>8. ASSUME EvaluateAdmission(request, e) \in {"ADMIT", "ADMIT_DERATED"}
      PROVE  \/ /\ Reporting(d, w) # {}
                /\ Hottest(d, w) \notin invalidated
                /\ reading[Front(d, w)].age <= Policy.maxAge
             \/ e.state = "UNKNOWN" /\ Policy.unknownBehavior = "ALLOW_DERATED"
  BY <1>2, <1>6, <1>8, AdmittedIsJudged
<1> HIDE DEF e
<1>9. QED
  BY <1>3, <1>7, <1>8 DEF w

\* evaluate_admission: work is admitted without derating only when every member that reports is
\* below the derating threshold and the demand fits under the critical one, and never under a
\* reading of a retired incarnation or a stale one, unless the policy allows derated work unread.
THEOREM AdmissionsAreSafe == Spec => []AdmissionIsSafe
BY TypeCorrect, TypedAdmissionIsSafe, PTL

--------------------------------------------------------------------------------
(* Leaving and keeping a restriction *)

\* A reading that is published differs from the one it replaces.
LEMMA PublishedIsNew ==
  ASSUME EvidenceOK, TopologyOK, NEW device \in Devices, PublishSome(device)
  PROVE  Republished(device)
<1>1. PICK temperature \in Temperatures, throttled \in Throttles, age \in 0..MaxDelay :
        Publish(device, temperature, throttled, age)
  BY DEF PublishSome
<1> DEFINE r == Taken(device, temperature, throttled, age)
<1>2. reading'[device] = r
  BY <1>1 DEF Publish, EvidenceOK
<1>3. r.boot = boot[WorkerOf[device]] /\ r.age = age
  BY DEF Taken
<1>4. reading[device].boot = boot[WorkerOf[device]] => reading[device].age - age >= Period
  BY <1>1 DEF Publish, Measurable
<1> HIDE DEF r
<1>5. ASSUME r = reading[device] PROVE FALSE
  <2>1. reading[device].age - age >= Period /\ reading[device].age = age
    BY <1>3, <1>4, <1>5
  <2>2. age \in Int /\ Period \in Nat \ {0}
    BY TimingAssumption
  <2>3. QED
    BY <2>1, <2>2
<1>6. QED
  BY <1>2, <1>5 DEF Republished

\* The two evaluations of a publication, the second on what the first stored.
LEMMA PublicationIsTwoPasses ==
  ASSUME EvidenceOK, TopologyOK, NEW device \in Devices, PublishSome(device)
  PROVE  /\ Republished(device)
         /\ evaluation' = Recomputed(Neighbours(device), Between(device), World')
         /\ Between(device) = Recomputed(Holding(device), evaluation, World')
<1>1. Republished(device)
  BY PublishedIsNew
<1>2. evaluation' = Recomputed(Neighbours(device), Recomputed(Holding(device), evaluation, World'), World')
  BY DEF PublishSome, Publish, Neighbours
<1>3. QED
  BY <1>1, <1>2 DEF Between

Leveled(stored) == \A d \in Domains : stored[d].state \in Restrictive => stored[d].derating # "UNKNOWN"

\* A restricted domain has a derating level to compare with.
LevelKnown == Leveled(evaluation)

LEMMA OwnPrevious ==
  ASSUME NEW d \in Domains, NEW scope, NEW new, NEW stored, NEW w
  PROVE  Input(d, Seen(d, scope, new, stored), w).previous = stored[d]
<1>1. ~(d < d)
  BY TopologyAssumption
<1>2. QED
  BY <1>1 DEF Input, Seen

LEMMA RanksAreIntegers == \A level \in DeratingLevels : RestrictionRank[level] \in Int
BY DEF DeratingLevels, RestrictionRank

LEMMA PassTightens ==
  ASSUME NEW scope, NEW stored \in Evaluated, NEW w, WorldOK(w), Leveled(stored)
  PROVE  /\ Leveled(Recomputed(scope, stored, w))
         /\ \A d \in Domains :
              stored[d].state \in Restrictive /\ Recomputed(scope, stored, w)[d].state \in Restrictive =>
                RestrictionRank[Recomputed(scope, stored, w)[d].derating] >= RestrictionRank[stored[d].derating]
<1> DEFINE new == Recomputed(scope, stored, w)
<1> SUFFICES ASSUME NEW d \in Domains, new[d].state \in Restrictive
             PROVE  /\ new[d].derating # "UNKNOWN"
                    /\ stored[d].state \in Restrictive =>
                         RestrictionRank[new[d].derating] >= RestrictionRank[stored[d].derating]
  BY DEF Leveled
<1>1. CASE d \notin scope
  <2>1. new[d] = stored[d]
    BY <1>1, PassAt
  <2>2. stored[d].derating \in DeratingLevels
    BY DEF Evaluated, Evaluations
  <2> HIDE DEF new
  <2>3. QED
    BY <2>1, <2>2, RanksAreIntegers DEF Leveled
<1>2. CASE d \in scope
  <2> DEFINE in == Input(d, Seen(d, scope, new, stored), w)
  <2>1. in \in Inputs /\ new[d] = Stored(EvaluateThermal(in))
    BY <1>2, PassAt
  <2>2. in.previous = stored[d]
    BY OwnPrevious
  <2> HIDE DEF new, in
  <2>3. EvaluateThermal(in).state \in Restrictive /\ new[d].derating = EvaluateThermal(in).derating
    BY <2>1 DEF Stored
  <2>4. new[d].derating # "UNKNOWN"
    BY <2>1, <2>3, VerdictIsEvaluation
  <2>5. ASSUME stored[d].state \in Restrictive
        PROVE  RestrictionRank[new[d].derating] >= RestrictionRank[stored[d].derating]
    <3>1. in.previous.derating # "UNKNOWN"
      BY <2>2, <2>5 DEF Leveled
    <3>2. QED
      BY <2>1, <2>2, <2>3, <3>1, DeratingOnlyTightens
  <2>6. QED
    BY <2>4, <2>5
<1>3. QED
  BY <1>1, <1>2

LEMMA LevelsKept == TypeOK /\ LevelKnown /\ [Next]_vars => LevelKnown'
<1> SUFFICES ASSUME TypeOK, Leveled(evaluation), [Next]_vars PROVE Leveled(evaluation')
  BY DEF LevelKnown, Leveled
<1>1. EvidenceOK /\ TopologyOK /\ evaluation \in Evaluated
  BY TypeParts DEF EvaluationOK
<1>2. WorldOK(World')
  BY <1>1, WorldIsOKNext
<1>3. ASSUME NEW scope \in SUBSET Domains, Recompute(scope) PROVE Leveled(evaluation')
  BY <1>1, <1>2, <1>3, PassTightens DEF Recompute
<1>4. ASSUME NEW device \in Devices, PublishSome(device) PROVE Leveled(evaluation')
  <2>1. evaluation' = Recomputed(Neighbours(device), Between(device), World')
        /\ Between(device) = Recomputed(Holding(device), evaluation, World')
    BY <1>1, <1>4, PublicationIsTwoPasses
  <2>2. Between(device) \in Evaluated /\ Leveled(Between(device))
    BY <1>1, <1>2, <2>1, PassAt, PassTightens
  <2>3. QED
    BY <1>2, <2>1, <2>2, PassTightens
<1>5. QED
  BY <1>3, <1>4, EvaluationSteps

LEMMA AlwaysLeveled == Spec => []LevelKnown
<1>1. Init => LevelKnown
  <2> SUFFICES ASSUME Init PROVE Leveled(evaluation)
    BY DEF LevelKnown
  <2>1. EvidenceOK /\ TopologyOK
    BY InitTyped, TypeParts
  <2>2. [d \in Domains |-> NoEvaluation] \in Evaluated
    BY NoEvaluationIsEvaluation DEF Evaluated
  <2>3. Leveled([d \in Domains |-> NoEvaluation])
    BY DEF Leveled, NoEvaluation, Restrictive
  <2>4. QED
    BY <2>1, <2>2, <2>3, WorldIsOK, PassTightens DEF Init
<1>2. QED
  BY <1>1, LevelsKept, TypeCorrect, PTL DEF Spec

LEMMA StepTightens ==
  ASSUME TypeOK, LevelKnown, [Next]_vars, NEW d \in Domains,
         evaluation[d].state \in Restrictive, evaluation'[d].state \in Restrictive
  PROVE  \/ RestrictionRank[evaluation'[d].derating] >= RestrictionRank[evaluation[d].derating]
         \/ LiftedBetween(d)
<1>1. EvidenceOK /\ TopologyOK /\ evaluation \in Evaluated /\ Leveled(evaluation)
  BY TypeParts DEF EvaluationOK, LevelKnown
<1>2. WorldOK(World')
  BY <1>1, WorldIsOKNext
<1>3. RestrictionRank[evaluation[d].derating] \in Int
  BY <1>1, RanksAreIntegers DEF Evaluated, Evaluations
<1>4. CASE UNCHANGED evaluation
  BY <1>3, <1>4
<1>5. ASSUME NEW scope \in SUBSET Domains, Recompute(scope)
      PROVE  RestrictionRank[evaluation'[d].derating] >= RestrictionRank[evaluation[d].derating]
  BY <1>1, <1>2, <1>5, PassTightens DEF Recompute
<1>6. ASSUME NEW device \in Devices, PublishSome(device)
      PROVE  \/ RestrictionRank[evaluation'[d].derating] >= RestrictionRank[evaluation[d].derating]
             \/ LiftedBetween(d)
  <2> DEFINE mid == Between(device)
  <2>1. /\ Republished(device)
        /\ evaluation' = Recomputed(Neighbours(device), mid, World')
        /\ mid = Recomputed(Holding(device), evaluation, World')
    BY <1>1, <1>6, PublicationIsTwoPasses
  <2>2. CASE mid[d].state \notin Restrictive
    BY <2>1, <2>2 DEF LiftedBetween
  <2> HIDE DEF mid
  <2>3. CASE mid[d].state \in Restrictive
    <3>1. mid \in Evaluated /\ Leveled(mid)
      BY <1>1, <1>2, <2>1, PassAt, PassTightens
    <3>2. RestrictionRank[mid[d].derating] >= RestrictionRank[evaluation[d].derating]
      BY <1>1, <1>2, <2>1, <2>3, PassTightens
    <3>3. RestrictionRank[evaluation'[d].derating] >= RestrictionRank[mid[d].derating]
      BY <1>2, <2>1, <2>3, <3>1, PassTightens
    <3>4. evaluation' \in Evaluated
      BY <1>2, <2>1, <3>1, PassAt
    <3>5. mid[d].derating \in DeratingLevels /\ evaluation'[d].derating \in DeratingLevels
      BY <3>1, <3>4 DEF Evaluated, Evaluations
    <3>6. QED
      BY <1>3, <3>2, <3>3, <3>5, RanksAreIntegers
  <2>4. QED
    BY <2>2, <2>3 DEF mid
<1>7. QED
  BY <1>4, <1>5, <1>6, EvaluationSteps

\* README, "Derating cannot expand": from one restriction to another the level only tightens,
\* unless a publication lifts the restriction in between and imposes a new one.
THEOREM RestrictionsOnlyTighten == Spec => DeratingNeverExpands
<1>1. TypeOK /\ LevelKnown /\ [Next]_vars =>
        [\A d \in Domains :
           evaluation[d].state \in Restrictive /\ evaluation'[d].state \in Restrictive =>
             \/ RestrictionRank[evaluation'[d].derating] >= RestrictionRank[evaluation[d].derating]
             \/ LiftedBetween(d)]_vars
  BY StepTightens
<1>2. QED
  BY <1>1, AlwaysLeveled, TypeCorrect, PTL DEF Spec, DeratingNeverExpands

\* What a recovery has to show of the evidence it is made on.
Earned(d, samples, authorised) ==
  /\ Len(samples) >= Policy.requiredSamples
  /\ \A s \in Newest(Policy.requiredSamples, samples) :
       s.temperature < RecoveryGate /\ (Policy.requireNoThrottle => ~s.throttled)
  /\ Policy.requireSameBoot => Cardinality({s.boot : s \in Newest(Policy.requiredSamples, samples)}) = 1
  /\ \E s \in Range(samples), t \in Newest(1, samples) : s.age - t.age >= Policy.minSpan
  /\ Policy.requireExplicit => d \in authorised

\* A restriction is left on an earned recovery, with every source seen healthy.
LEMMA VerdictIsEarned ==
  ASSUME NEW d \in Domains, NEW seen \in Evaluated, NEW w, WorldOK(w),
         seen[d].state \in Restrictive,
         EvaluateThermal(Input(d, seen, w)).state \in Healthy
  PROVE  /\ Earned(d, w.history[d], w.explicit)
         /\ \A s \in Reaching(d, w.couplings, Policy.depth) : seen[s].state \in Healthy
<1> DEFINE in == Input(d, seen, w)
           n == Policy.requiredSamples
           samples == w.history[d]
           L == Len(samples)
<1>1. /\ in.previous = seen[d] /\ in.history = samples /\ in.explicit = (d \in w.explicit)
      /\ in.upstream = {seen[s].state : s \in Reaching(d, w.couplings, Policy.depth)}
  BY DEF Input
<1>2. in \in Inputs
  BY InputIsInput
<1> HIDE DEF in
<1>3. /\ L >= n
      /\ \A i \in (L - n + 1)..L :
           /\ samples[i].temperature < RecoveryGate
           /\ Policy.requireNoThrottle => ~samples[i].throttled
           /\ Policy.requireSameBoot => samples[i].boot = in.reading.boot
      /\ in.upstream \subseteq Healthy
      /\ Policy.requireExplicit => in.explicit
  BY <1>1, <1>2, RestrictionIsLeftByRecovery DEF in
<1>4. \E first \in 1..L : samples[first].age - samples[L].age >= Policy.minSpan
  BY <1>1, <1>2, RecoveryIsSpread DEF in
<1>5. L \in Nat /\ DOMAIN samples = 1..L
  BY DEF WorldOK
<1>6. n \in Nat \ {0}
  BY ValidPolicy
<1> HIDE DEF samples, L, n
<1>7. \A i \in 1..L : i > L - n => i \in (L - n + 1)..L
  BY <1>5, <1>6
<1>8. \A s \in Newest(n, samples) : \E i \in (L - n + 1)..L : s = samples[i]
  BY <1>5, <1>7 DEF Newest, L
<1>9. samples[L] \in Newest(n, samples) /\ samples[L] \in Newest(1, samples)
  <2>1. L \in 1..L /\ L > L - n /\ L > L - 1
    BY <1>3, <1>5, <1>6
  <2>2. QED
    BY <1>5, <2>1 DEF Newest, L
<1>10. Policy.requireSameBoot => Cardinality({s.boot : s \in Newest(n, samples)}) = 1
  <2>1. ASSUME Policy.requireSameBoot PROVE {s.boot : s \in Newest(n, samples)} = {in.reading.boot}
    BY <1>3, <1>8, <1>9, <2>1
  <2>2. Cardinality({in.reading.boot}) = 1
    BY FS_Singleton
  <2>3. QED
    BY <2>1, <2>2
<1>11. \E s \in Range(samples), t \in Newest(1, samples) : s.age - t.age >= Policy.minSpan
  <2>1. PICK first \in 1..L : samples[first].age - samples[L].age >= Policy.minSpan
    BY <1>4
  <2>2. samples[first] \in Range(samples)
    BY <1>5, <2>1 DEF Range
  <2>3. QED
    BY <1>9, <2>1, <2>2
<1>12. \A s \in Newest(n, samples) : s.temperature < RecoveryGate /\ (Policy.requireNoThrottle => ~s.throttled)
  BY <1>3, <1>8
<1>13. Earned(d, samples, w.explicit)
  BY <1>1, <1>3, <1>10, <1>11, <1>12 DEF Earned, n, L
<1>14. \A s \in Reaching(d, w.couplings, Policy.depth) : seen[s].state \in Healthy
  BY <1>1, <1>3
<1>15. QED
  BY <1>13, <1>14 DEF samples

LEMMA PassEarns ==
  ASSUME NEW scope, NEW stored \in Evaluated, NEW w, WorldOK(w), NEW d \in Domains,
         stored[d].state \in Restrictive, Recomputed(scope, stored, w)[d].state \in Healthy
  PROVE  /\ Earned(d, w.history[d], w.explicit)
         /\ \A s \in Reaching(d, w.couplings, Policy.depth) :
              stored[s].state \in Healthy \/ Recomputed(scope, stored, w)[s].state \in Healthy
<1> DEFINE new == Recomputed(scope, stored, w)
           seen == Seen(d, scope, new, stored)
<1>1. d \in scope
  <2>1. Restrictive \cap Healthy = {}
    BY DEF Restrictive, Healthy
  <2>2. QED
    BY <2>1, PassAt
<1>2. seen \in Evaluated /\ new[d] = Stored(EvaluateThermal(Input(d, seen, w)))
  BY <1>1, PassAt
<1>3. seen[d] = stored[d]
  BY TopologyAssumption DEF Seen
<1>4. \A s \in Domains : seen[s] = stored[s] \/ seen[s] = new[s]
  BY DEF Seen
<1>5. \A s \in Reaching(d, w.couplings, Policy.depth) : s \in Domains
  BY ReachingIsDomains, ValidPolicy DEF WorldOK
<1> HIDE DEF new, seen
<1>6. EvaluateThermal(Input(d, seen, w)).state \in Healthy
  BY <1>2 DEF Stored, new
<1>7. /\ Earned(d, w.history[d], w.explicit)
      /\ \A s \in Reaching(d, w.couplings, Policy.depth) : seen[s].state \in Healthy
  BY <1>2, <1>3, <1>6, VerdictIsEarned
<1>8. QED
  BY <1>4, <1>5, <1>7 DEF new

\* The hard predicates of a domain depend on its evidence alone.
JudgeableAt(d, w) ==
  /\ Weakest({w.capability[m].temperature : m \in Range(Members[d])}) = "SUPPORTED"
  /\ Gathered(d, w) # NoReading /\ Fresh(d, w)

LEMMA JudgeableByEvidence ==
  ASSUME NEW d, NEW stored, NEW w
  PROVE  Judgeable(Input(d, stored, w)) <=> JudgeableAt(d, w)
BY DEF Judgeable, JudgeableAt, HasReading, Input

\* Unless coupled states escalate, an evaluation is resolved exactly when the evidence is.
LEMMA PassResolves ==
  ASSUME NEW scope, NEW stored \in Evaluated, NEW w, WorldOK(w), NEW d \in Domains, d \in scope
  PROVE  LET state == Recomputed(scope, stored, w)[d].state
         IN  /\ state \in Healthy \cup Restrictive => JudgeableAt(d, w)
             /\ JudgeableAt(d, w) /\ ~Escalates => state \in Healthy \cup Restrictive
<1> DEFINE new == Recomputed(scope, stored, w)
           in == Input(d, Seen(d, scope, new, stored), w)
<1>1. in \in Inputs /\ new[d] = Stored(EvaluateThermal(in))
  BY PassAt
<1>2. Judgeable(in) <=> JudgeableAt(d, w)
  BY JudgeableByEvidence
<1> HIDE DEF in, new
<1>3. new[d].state = EvaluateThermal(in).state
  BY <1>1 DEF Stored
<1>4. new[d].state \in Healthy \cup Restrictive => Judgeable(in)
  BY <1>1, <1>3, UnjudgedIsUnresolved DEF Judgeable
<1>5. Judgeable(in) /\ ~Escalates => new[d].state \in Healthy \cup Restrictive
  BY <1>1, <1>3, VerdictIsResolved
<1>6. QED
  BY <1>2, <1>4, <1>5 DEF new

LEMMA StepEarns ==
  ASSUME TypeOK, [Next]_vars, ~Escalates, NEW d \in Domains,
         evaluation[d].state \in Restrictive, evaluation'[d].state \in Healthy
  PROVE  /\ Earned(d, history'[d], explicit')
         /\ \A s \in Reaching(d, couplings', Policy.depth) :
              \/ {evaluation[s].state, evaluation'[s].state} \cap Healthy # {}
              \/ HealthyBetween(s)
<1>1. EvidenceOK /\ TopologyOK /\ evaluation \in Evaluated
  BY TypeParts DEF EvaluationOK
<1>2. /\ WorldOK(World')
      /\ World'.history = history' /\ World'.explicit = explicit' /\ World'.couplings = couplings'
  BY <1>1, WorldIsOKNext DEF World
<1>3. Restrictive \cap Healthy = {}
  BY DEF Restrictive, Healthy
<1>4. evaluation' # evaluation
  BY <1>3
<1>5. ASSUME NEW scope \in SUBSET Domains, Recompute(scope)
      PROVE  /\ Earned(d, history'[d], explicit')
             /\ \A s \in Reaching(d, couplings', Policy.depth) :
                  {evaluation[s].state, evaluation'[s].state} \cap Healthy # {}
  BY <1>1, <1>2, <1>5, PassEarns DEF Recompute
<1>6. ASSUME NEW device \in Devices, PublishSome(device)
      PROVE  /\ Earned(d, history'[d], explicit')
             /\ \A s \in Reaching(d, couplings', Policy.depth) :
                  \/ {evaluation[s].state, evaluation'[s].state} \cap Healthy # {}
                  \/ HealthyBetween(s)
  <2> DEFINE mid == Between(device)
  <2>1. /\ Republished(device)
        /\ evaluation' = Recomputed(Neighbours(device), mid, World')
        /\ mid = Recomputed(Holding(device), evaluation, World')
    BY <1>1, <1>6, PublicationIsTwoPasses
  <2>2. \A s : mid[s].state \in Healthy => HealthyBetween(s)
    BY <2>1 DEF HealthyBetween
  <2> HIDE DEF mid
  <2>3. mid \in Evaluated
    BY <1>1, <1>2, <2>1, PassAt
  <2>4. CASE mid[d].state \in Healthy
    <3>1. /\ Earned(d, history'[d], explicit')
          /\ \A s \in Reaching(d, couplings', Policy.depth) :
               evaluation[s].state \in Healthy \/ mid[s].state \in Healthy
      BY <1>1, <1>2, <2>1, <2>4, PassEarns
    <3>2. QED
      BY <2>2, <3>1
  <2>5. CASE mid[d].state \in Restrictive
    <3>1. /\ Earned(d, history'[d], explicit')
          /\ \A s \in Reaching(d, couplings', Policy.depth) :
               mid[s].state \in Healthy \/ evaluation'[s].state \in Healthy
      BY <1>2, <2>1, <2>3, <2>5, PassEarns
    <3>2. QED
      BY <2>2, <3>1
  <2>6. CASE mid[d].state \notin Healthy \cup Restrictive
    <3>1. d \in Holding(device)
      BY <1>1, <1>2, <2>1, <2>6, PassAt
    <3>2. ~JudgeableAt(d, World')
      BY <1>1, <1>2, <2>1, <2>6, <3>1, PassResolves
    <3>3. d \in Neighbours(device)
      BY <1>2, <2>1, <2>3, <2>6, PassAt
    <3>4. evaluation'[d].state \notin Healthy
      BY <1>2, <2>1, <2>3, <3>2, <3>3, PassResolves
    <3>5. QED
      BY <3>4
  <2>7. QED
    BY <2>4, <2>5, <2>6
<1>7. QED
  BY <1>4, <1>5, <1>6, EvaluationSteps

\* README, "Recovery is explicit": a domain leaves a restriction for a healthy state on enough
\* newest samples, cool, spread, of one incarnation where the policy asks for it and authorised,
\* with its sources recovered, in the first or the second evaluation of a publication alike.
\* Where unresolved neighbours escalate, a publication can lead through an unresolved state.
THEOREM RecoveriesAreEarned ==
  ASSUME ~Escalates
  PROVE  Spec => RecoveryIsEarned
<1>1. TypeOK /\ [Next]_vars =>
        [\A d \in Domains :
           evaluation[d].state \in Restrictive /\ evaluation'[d].state \in Healthy =>
             /\ Len(history'[d]) >= Policy.requiredSamples
             /\ \A s \in Newest(Policy.requiredSamples, history'[d]) :
                  s.temperature < RecoveryGate /\ (Policy.requireNoThrottle => ~s.throttled)
             /\ Policy.requireSameBoot =>
                  Cardinality({s.boot : s \in Newest(Policy.requiredSamples, history'[d])}) = 1
             /\ \E s \in Range(history'[d]), t \in Newest(1, history'[d]) : s.age - t.age >= Policy.minSpan
             /\ Policy.requireExplicit => d \in explicit'
             /\ \A s \in Reaching(d, couplings', Policy.depth) :
                  \/ {evaluation[s].state, evaluation'[s].state} \cap Healthy # {}
                  \/ HealthyBetween(s)]_vars
  BY StepEarns DEF Earned
<1>2. QED
  BY <1>1, TypeCorrect, PTL DEF Spec, RecoveryIsEarned

--------------------------------------------------------------------------------
(* Coupled domains *)

\* An edge is seen from its destination at every depth.
LEMMA EdgeReaches ==
  ASSUME NEW d \in Domains, NEW s \in Domains, s # d, NEW E \in Edges, <<s, d>> \in E,
         NEW depth \in Nat \ {0}
  PROVE  s \in Reaching(d, E, depth)
<1> DEFINE Bad == {n \in Nat : n # 0 /\ s \notin Within(d, E, n)}
<1>1. ASSUME Bad # {} PROVE FALSE
  <2>1. PICK n \in Bad : \A k \in Bad : n <= k
    BY <1>1, MinIsLeast
  <2>2. n \in Nat /\ n # 0 /\ n - 1 \in Nat /\ n - 1 + 1 = n /\ n - 1 \notin Bad
    BY <2>1
  <2>3. Within(d, E, n) = WithSources(Within(d, E, n - 1), E)
    BY <2>2, WithinByDepth
  <2>4. CASE n - 1 = 0
    <3>1. Within(d, E, n) = WithSources({d}, E)
      BY <2>3, <2>4, WithinByDepth
    <3>2. s \in WithSources({d}, E)
      BY DEF WithSources
    <3>3. QED
      BY <2>1, <3>1, <3>2
  <2>5. CASE n - 1 # 0
    <3>1. s \in Within(d, E, n - 1)
      BY <2>2, <2>5
    <3>2. QED
      BY <2>1, <2>3, <3>1 DEF WithSources
  <2>6. QED
    BY <2>4, <2>5
<1>2. s \in Within(d, E, depth)
  BY <1>1
<1>3. QED
  BY <1>2 DEF Reaching

\* Nothing reaches a domain without a coupled source.
LEMMA NothingReaches ==
  ASSUME NEW d \in Domains, NEW E \in Edges, \A e \in E : e[2] # d, NEW depth \in Nat
  PROVE  Reaching(d, E, depth) = {}
<1> DEFINE Bad == {n \in Nat : Within(d, E, n) # {d}}
<1>1. ASSUME Bad # {} PROVE FALSE
  <2>1. PICK n \in Bad : \A k \in Bad : n <= k
    BY <1>1, MinIsLeast
  <2>2. n # 0
    BY <2>1, WithinByDepth
  <2>3. PICK k \in Nat : n = k + 1
    <3>1. n - 1 \in Nat /\ n = n - 1 + 1
      BY <2>1, <2>2
    <3>2. QED
      BY <3>1
  <2>4. k \notin Bad
    <3>1. ~(n <= k)
      BY <2>3
    <3>2. QED
      BY <2>1, <3>1
  <2>5. Within(d, E, k) = {d}
    BY <2>4
  <2> HIDE DEF Bad
  <2>6. Within(d, E, n) = WithSources({d}, E)
    <3>1. Within(d, E, k + 1) = WithSources(Within(d, E, k), E)
      BY WithinByDepth
    <3>2. QED
      BY <2>3, <2>5, <3>1
  <2>7. WithSources({d}, E) = {d}
    BY DEF WithSources
  <2>8. QED
    BY <2>1, <2>6, <2>7 DEF Bad
<1>2. Within(d, E, depth) = {d}
  BY <1>1
<1>3. QED
  BY <1>2 DEF Reaching

\* Two domains that cannot both be healed: neither is healthy, and each is restricted, without
\* evidence to judge it on, or escalated by the other.
Held(d, stored, w) ==
  /\ stored[d].state \notin Healthy
  /\ stored[d].state \in Restrictive \/ ~JudgeableAt(d, w) \/ Escalates

LEMMA UnhealthyPressure ==
  ASSUME NEW upstream \in SUBSET ThermalStates, NEW state \in upstream, state \notin Healthy
  PROVE  /\ state \in Restrictive \cup Unresolved
         /\ Escalates => Pressure(upstream) # {}
         /\ state \in Restrictive /\ Policy.coDerate => Pressure(upstream) # {}
BY DEF Escalates, Pressure, ThermalStates

LEMMA VerdictHolds ==
  ASSUME NEW d \in Domains, NEW s \in Domains, NEW seen \in Evaluated, NEW w, WorldOK(w),
         s \in Reaching(d, w.couplings, Policy.depth), Held(d, seen, w), Held(s, seen, w)
  PROVE  LET state == EvaluateThermal(Input(d, seen, w)).state
         IN  state \notin Healthy /\ (state \in Restrictive \/ ~JudgeableAt(d, w) \/ Escalates)
<1> DEFINE in == Input(d, seen, w)
<1>1. in \in Inputs /\ in.upstream \in SUBSET ThermalStates
  BY InputIsInput DEF Inputs
<1>2. in.previous = seen[d] /\ seen[s].state \in in.upstream
  BY DEF Input
<1>3. Judgeable(in) <=> JudgeableAt(d, w)
  BY JudgeableByEvidence
<1> HIDE DEF in
<1>4. ASSUME EvaluateThermal(in).state \in Healthy PROVE FALSE
  <2>1. Judgeable(in) /\ Pressure(in.upstream) = {}
    BY <1>1, <1>4, HealthyVerdictIsCool DEF Judgeable
  <2>2. CASE seen[d].state \in Restrictive
    <3>1. in.upstream \subseteq Healthy
      BY <1>1, <1>2, <1>4, <2>2, RestrictionIsLeftByRecovery
    <3>2. QED
      BY <1>2, <3>1 DEF Held
  <2>3. CASE ~JudgeableAt(d, w)
    BY <1>3, <2>1, <2>3
  <2>4. CASE Escalates
    BY <1>1, <1>2, <2>1, <2>4, UnhealthyPressure DEF Held
  <2>5. QED
    BY <2>2, <2>3, <2>4 DEF Held
<1>5. JudgeableAt(d, w) /\ ~Escalates => EvaluateThermal(in).state \in Healthy \cup Restrictive
  BY <1>1, <1>3, VerdictIsResolved
<1>6. QED
  BY <1>4, <1>5 DEF in

Coupled(d, s, w) == {<<d, s>>, <<s, d>>} \subseteq w.couplings

LEMMA CoupledReach ==
  ASSUME NEW d \in Domains, NEW s \in Domains, d # s, NEW w, WorldOK(w), Coupled(d, s, w), Policy.depth > 0
  PROVE  s \in Reaching(d, w.couplings, Policy.depth) /\ d \in Reaching(s, w.couplings, Policy.depth)
<1>1. Policy.depth \in Nat \ {0}
  BY ValidPolicy
<1>2. w.couplings \in Edges /\ <<d, s>> \in w.couplings /\ <<s, d>> \in w.couplings
  BY DEF WorldOK, Coupled
<1>3. QED
  BY <1>1, <1>2, EdgeReaches

LEMMA PassHolds ==
  ASSUME NEW scope, NEW stored \in Evaluated, NEW w, WorldOK(w), Policy.depth > 0,
         NEW d \in Domains, NEW s \in Domains, d < s, Coupled(d, s, w),
         Held(d, stored, w), Held(s, stored, w)
  PROVE  Held(d, Recomputed(scope, stored, w), w) /\ Held(s, Recomputed(scope, stored, w), w)
<1> DEFINE new == Recomputed(scope, stored, w)
           seen(x) == Seen(x, scope, new, stored)
<1>1. d \in Nat /\ s \in Nat /\ d # s
  BY TopologyAssumption
<1>2. s \in Reaching(d, w.couplings, Policy.depth) /\ d \in Reaching(s, w.couplings, Policy.depth)
  BY <1>1, CoupledReach
<1>3. seen(d)[d] = stored[d] /\ seen(d)[s] = stored[s] /\ seen(s)[s] = stored[s]
  BY <1>1 DEF Seen
<1>4. seen(s)[d] = IF d \in scope THEN new[d] ELSE stored[d]
  BY <1>1 DEF Seen
<1>5. \A x \in {d, s} : /\ x \notin scope => new[x] = stored[x]
                        /\ seen(x) \in Evaluated
                        /\ x \in scope => new[x] = Stored(EvaluateThermal(Input(x, seen(x), w)))
  BY PassAt
<1> HIDE DEF new, seen
<1>6. \A x, f, g : f[x] = g[x] /\ Held(x, f, w) => Held(x, g, w)
  BY DEF Held
<1>7. ASSUME NEW x \in {d, s}, x \in scope, NEW y \in {d, s}, x # y,
             Held(x, seen(x), w), Held(y, seen(x), w)
      PROVE  Held(x, new, w)
  <2>1. LET state == EvaluateThermal(Input(x, seen(x), w)).state
        IN  state \notin Healthy /\ (state \in Restrictive \/ ~JudgeableAt(x, w) \/ Escalates)
    BY <1>2, <1>5, <1>7, VerdictHolds
  <2>2. new[x].state = EvaluateThermal(Input(x, seen(x), w)).state
    BY <1>5, <1>7 DEF Stored
  <2>3. QED
    BY <2>1, <2>2 DEF Held
<1>8. Held(d, new, w)
  <2>1. Held(d, seen(d), w) /\ Held(s, seen(d), w)
    BY <1>3, <1>6
  <2>2. QED
    BY <1>1, <1>5, <1>6, <1>7, <2>1
<1>9. Held(s, new, w)
  <2>1. Held(s, seen(s), w) /\ Held(d, seen(s), w)
    BY <1>3, <1>4, <1>6, <1>8
  <2>2. QED
    BY <1>1, <1>5, <1>6, <1>7, <2>1
<1>10. QED
  BY <1>8, <1>9 DEF new

LEMMA StepHolds ==
  ASSUME TypeOK, [Next]_vars, Policy.depth > 0, NEW d \in Domains, NEW s \in Domains, d < s,
         {<<d, s>>, <<s, d>>} \subseteq couplings',
         evaluation[d].state \in Restrictive, evaluation[s].state \in Restrictive
  PROVE  evaluation'[d].state \notin Healthy /\ evaluation'[s].state \notin Healthy
<1>1. EvidenceOK /\ TopologyOK /\ evaluation \in Evaluated
  BY TypeParts DEF EvaluationOK
<1>2. WorldOK(World') /\ Coupled(d, s, World')
  BY <1>1, WorldIsOKNext DEF World, Coupled
<1>3. Held(d, evaluation, World') /\ Held(s, evaluation, World')
  BY DEF Held, Restrictive, Healthy
<1> DEFINE w == World'
<1> HIDE DEF w
<1>4. CASE UNCHANGED evaluation
  BY <1>3, <1>4 DEF Held
<1>5. ASSUME NEW scope \in SUBSET Domains, Recompute(scope)
      PROVE  evaluation'[d].state \notin Healthy /\ evaluation'[s].state \notin Healthy
  <2>1. evaluation' = Recomputed(scope, evaluation, w)
    BY <1>5 DEF Recompute, w
  <2>2. Held(d, Recomputed(scope, evaluation, w), w) /\ Held(s, Recomputed(scope, evaluation, w), w)
    BY <1>1, <1>2, <1>3, PassHolds DEF w
  <2>3. QED
    BY <2>1, <2>2 DEF Held
<1>6. ASSUME NEW device \in Devices, PublishSome(device)
      PROVE  evaluation'[d].state \notin Healthy /\ evaluation'[s].state \notin Healthy
  <2> DEFINE mid == Between(device)
  <2>1. evaluation' = Recomputed(Neighbours(device), mid, w)
        /\ mid = Recomputed(Holding(device), evaluation, w)
    BY <1>1, <1>6, PublicationIsTwoPasses DEF w
  <2> HIDE DEF mid
  <2>2. mid \in Evaluated
    BY <1>1, <1>2, <2>1, PassAt DEF w
  <2>3. Held(d, mid, w) /\ Held(s, mid, w)
    BY <1>1, <1>2, <1>3, <2>1, PassHolds DEF w
  <2>4. Held(d, Recomputed(Neighbours(device), mid, w), w) /\ Held(s, Recomputed(Neighbours(device), mid, w), w)
    BY <1>2, <2>2, <2>3, PassHolds DEF w
  <2>5. QED
    BY <2>1, <2>4 DEF Held
<1>7. QED
  BY <1>4, <1>5, <1>6, EvaluationSteps

\* Coupled recovery: two restricted domains that heat each other are not healed in one step,
\* neither directly nor through the unresolved state of the other.
THEOREM MutualRestrictionIsHeld ==
  ASSUME Policy.depth > 0
  PROVE  Spec => MutualRestrictionHolds
<1>1. TypeOK /\ [Next]_vars =>
        [\A d, s \in Domains :
           /\ {<<d, s>>, <<s, d>>} \subseteq couplings'
           /\ evaluation[d].state \in Restrictive /\ evaluation[s].state \in Restrictive
           => evaluation'[d].state \notin Healthy]_vars
  <2> SUFFICES ASSUME TypeOK, [Next]_vars, NEW d \in Domains, NEW s \in Domains,
                      {<<d, s>>, <<s, d>>} \subseteq couplings',
                      evaluation[d].state \in Restrictive, evaluation[s].state \in Restrictive
               PROVE  evaluation'[d].state \notin Healthy
    OBVIOUS
  <2>1. d # s
    <3>1. couplings' \in SUBSET PossibleCouplings
      BY WorldTypedNext, TypeParts DEF TopologyOK
    <3>2. QED
      BY <3>1, TopologyAssumption
  <2>2. d < s \/ s < d
    BY <2>1, TopologyAssumption
  <2>3. {<<s, d>>, <<d, s>>} \subseteq couplings'
    OBVIOUS
  <2>4. QED
    BY <2>2, <2>3, StepHolds
<1>2. QED
  BY <1>1, TypeCorrect, PTL DEF Spec, MutualRestrictionHolds

\* The band of a domain's evidence.
BandAt(d, w) ==
  Band([reading |-> Gathered(d, w),
        throttleCapability |-> Weakest({w.capability[m].throttle : m \in Range(Members[d])})])

LEMMA BandByEvidence ==
  ASSUME NEW d, NEW stored, NEW w
  PROVE  Band(Input(d, stored, w)) = BandAt(d, w)
BY DEF BandAt, Band, ThrottleObserved, Input

\* Time passes over the evidence of a domain, or retires it: nothing that was read changes.
OnlyAges(d, w, v) ==
  \A m \in Range(Members[d]) :
    /\ w.capability[m] = v.capability[m]
    /\ m \in w.invalidated => m \in v.invalidated
    /\ w.reading[m] = NoReading <=> v.reading[m] = NoReading
    /\ w.reading[m] # NoReading => w.reading[m].boot # 0
    /\ w.reading[m].temperature = v.reading[m].temperature
    /\ w.reading[m].throttled = v.reading[m].throttled
    /\ w.reading[m].age <= v.reading[m].age

LEMMA AgedEvidence ==
  ASSUME NEW d \in Domains, NEW w, NEW v, WorldOK(w), WorldOK(v), OnlyAges(d, w, v),
         JudgeableAt(d, v), BandAt(d, v) \in Restrictive
  PROVE  JudgeableAt(d, w) /\ BandAt(d, w) \in Restrictive
<1>1. \A i \in DOMAIN Members[d] : Members[d][i] \in Range(Members[d])
  BY DEF Range
<1>2. Reporting(d, w) = Reporting(d, v)
  BY <1>1 DEF Reporting, OnlyAges
<1>3. Reporting(d, v) # {}
  BY DEF JudgeableAt, Fresh
<1>4. Front(d, w) = Front(d, v)
  BY <1>2 DEF Front
<1>5. \A i \in Reporting(d, v) : TemperatureAt(d, i, w) = TemperatureAt(d, i, v)
  BY <1>1 DEF Reporting, TemperatureAt, OnlyAges
<1>6. {i \in Reporting(d, w) : \A j \in Reporting(d, w) : TemperatureAt(d, j, w) <= TemperatureAt(d, i, w)}
      = {i \in Reporting(d, v) : \A j \in Reporting(d, v) : TemperatureAt(d, j, v) <= TemperatureAt(d, i, v)}
  BY <1>2, <1>5
<1>7. Hottest(d, w) = Hottest(d, v)
  BY <1>6 DEF Hottest
<1>8. Front(d, w) \in Range(Members[d]) /\ Hottest(d, w) \in Range(Members[d])
  BY <1>2, <1>3, GatheredIsHottest
<1>9. /\ w.reading[Front(d, w)] \in Readings /\ v.reading[Front(d, w)] \in Readings
      /\ w.reading[Front(d, w)] # NoReading
  BY <1>2, <1>3, <1>8, GatheredIsHottest, MembersAreDevices DEF WorldOK
<1>10. /\ Gathered(d, w) = [w.reading[Front(d, w)] EXCEPT !.temperature = w.reading[Hottest(d, w)].temperature]
       /\ Gathered(d, v) = [v.reading[Front(d, w)] EXCEPT !.temperature = v.reading[Hottest(d, w)].temperature]
  BY <1>2, <1>3, <1>4, <1>7, GatheredIsHottest
<1>11. /\ w.reading[Front(d, w)].boot # 0
       /\ w.reading[Front(d, w)].throttled = v.reading[Front(d, w)].throttled
       /\ w.reading[Front(d, w)].age <= v.reading[Front(d, w)].age
       /\ w.reading[Hottest(d, w)].temperature = v.reading[Hottest(d, w)].temperature
       /\ Hottest(d, w) \in w.invalidated => Hottest(d, w) \in v.invalidated
  BY <1>8, <1>9 DEF OnlyAges
<1>12. /\ Gathered(d, w).boot # 0
       /\ Gathered(d, w).throttled = Gathered(d, v).throttled
       /\ Gathered(d, w).temperature = Gathered(d, v).temperature
       /\ Gathered(d, w).age = w.reading[Front(d, w)].age
       /\ Gathered(d, v).age = v.reading[Front(d, w)].age
  BY <1>9, <1>10, <1>11 DEF Readings
<1>13. {w.capability[m].temperature : m \in Range(Members[d])} = {v.capability[m].temperature : m \in Range(Members[d])}
       /\ {w.capability[m].throttle : m \in Range(Members[d])} = {v.capability[m].throttle : m \in Range(Members[d])}
  BY DEF OnlyAges
<1>14. Gathered(d, w) # NoReading
  BY <1>12 DEF NoReading
<1>15. Fresh(d, w)
  <2>1. Hottest(d, w) \notin v.invalidated /\ Gathered(d, v).age <= Policy.maxAge
    BY <1>7 DEF JudgeableAt, Fresh
  <2>2. Gathered(d, w).age <= Policy.maxAge
    BY <1>9, <1>11, <1>12, <2>1, ValidPolicy DEF Readings
  <2>3. QED
    BY <1>2, <1>3, <1>11, <2>1, <2>2 DEF Fresh
<1>16. JudgeableAt(d, w)
  BY <1>13, <1>14, <1>15 DEF JudgeableAt
<1>17. BandAt(d, w) = BandAt(d, v)
  BY <1>12, <1>13 DEF BandAt, Band, ThrottleObserved
<1>18. QED
  BY <1>16, <1>17

Alone(d, E) == \A e \in E : e[2] # d

\* What is hot enough on the evidence of the moment is stored as restricted.
HeatSeenAt(d, stored, w) ==
  JudgeableAt(d, w) /\ BandAt(d, w) \in Restrictive => stored[d].state \in Restrictive

\* A domain that nothing heats is evaluated whenever its evidence is renewed.
HeatIsSeen == \A d \in Domains : Alone(d, couplings) => HeatSeenAt(d, evaluation, World)

LEMMA HotAloneIsRestricted ==
  ASSUME NEW in \in Inputs, in.upstream = {}, Judgeable(in), Band(in) \in Restrictive
  PROVE  EvaluateThermal(in).state \in Restrictive
<1>1. Pressure(in.upstream) = {}
  BY DEF Pressure
<1>2. MostSevere({Band(in)}) = Band(in)
  BY MostSevereIsMaximum DEF ThermalStates
<1>3. {Band(in)} \cup {} = {Band(in)}
  OBVIOUS
<1>4. Candidate(in) = Band(in)
  BY <1>1, <1>2, <1>3 DEF Candidate
<1>5. NextThermalState(in) \in Restrictive
  BY <1>4 DEF NextThermalState, Restrictive
<1>6. EvaluateThermal(in).state = NextThermalState(in)
  BY DEF Judgeable, EvaluateThermal, Judged
<1>7. QED
  BY <1>5, <1>6

LEMMA PassSeesHeat ==
  ASSUME NEW scope, NEW stored \in Evaluated, NEW w, WorldOK(w), NEW d \in Domains, Alone(d, w.couplings)
  PROVE  LET new == Recomputed(scope, stored, w)
         IN  /\ d \in scope \/ HeatSeenAt(d, stored, w) => HeatSeenAt(d, new, w)
             /\ HeatSeenAt(d, stored, w) /\ new[d].state \in Restrictive => stored[d].state \in Restrictive
<1> DEFINE new == Recomputed(scope, stored, w)
           in == Input(d, Seen(d, scope, new, stored), w)
<1>1. CASE d \notin scope
  <2>1. new[d] = stored[d]
    BY <1>1, PassAt
  <2> HIDE DEF new
  <2>2. QED
    BY <1>1, <2>1 DEF HeatSeenAt, new
<1>2. CASE d \in scope
  <2>1. in \in Inputs /\ new[d] = Stored(EvaluateThermal(in))
    BY <1>2, PassAt
  <2>2. Reaching(d, w.couplings, Policy.depth) = {}
    BY NothingReaches, ValidPolicy DEF WorldOK, Alone
  <2>3. in.upstream = {} /\ in.previous = stored[d]
    BY <2>2, OwnPrevious DEF Input
  <2>4. (Judgeable(in) <=> JudgeableAt(d, w)) /\ Band(in) = BandAt(d, w)
    BY JudgeableByEvidence, BandByEvidence
  <2> HIDE DEF new, in
  <2>5. new[d].state = EvaluateThermal(in).state
    BY <2>1 DEF Stored
  <2>6. HeatSeenAt(d, new, w)
    BY <2>1, <2>3, <2>4, <2>5, HotAloneIsRestricted DEF HeatSeenAt
  <2>7. HeatSeenAt(d, stored, w) /\ new[d].state \in Restrictive => stored[d].state \in Restrictive
    BY <2>1, <2>3, <2>4, <2>5, AloneByItsBand DEF HeatSeenAt
  <2>8. QED
    BY <2>6, <2>7 DEF new
<1>3. QED
  BY <1>1, <1>2

LEMMA PassFeels ==
  ASSUME NEW scope, NEW stored \in Evaluated, NEW w, WorldOK(w), Policy.depth > 0, Policy.coDerate,
         NEW s \in Domains, NEW d \in Domains, s < d, <<s, d>> \in w.couplings, d \in scope,
         Recomputed(scope, stored, w)[s].state \in Restrictive
  PROVE  Recomputed(scope, stored, w)[d].state \notin Healthy
<1> DEFINE new == Recomputed(scope, stored, w)
           seen == Seen(d, scope, new, stored)
           in == Input(d, seen, w)
<1>1. seen \in Evaluated /\ in \in Inputs /\ new[d] = Stored(EvaluateThermal(in))
  BY PassAt
<1>2. s \notin scope => new[s] = stored[s]
  BY PassAt
<1> HIDE DEF new
<1>3. seen[s] = new[s]
  BY <1>2 DEF Seen
<1>4. s \in Reaching(d, w.couplings, Policy.depth)
  <2>1. Policy.depth \in Nat \ {0} /\ s # d
    BY ValidPolicy, TopologyAssumption
  <2>2. w.couplings \in Edges
    BY DEF WorldOK
  <2>3. QED
    BY <2>1, <2>2, EdgeReaches
<1> HIDE DEF seen
<1>5. new[s].state \in in.upstream
  BY <1>3, <1>4 DEF Input
<1>6. in.upstream \in SUBSET ThermalStates
  BY <1>1 DEF Inputs
<1> HIDE DEF in
<1>7. Pressure(in.upstream) # {}
  <2>1. new[s].state \in Restrictive
    BY DEF new
  <2>2. new[s].state \notin Healthy
    BY <2>1 DEF Restrictive, Healthy
  <2>3. QED
    BY <1>5, <1>6, <2>1, <2>2, UnhealthyPressure
<1>8. EvaluateThermal(in).state \notin Healthy
  BY <1>1, <1>7, HealthyVerdictIsCool
<1>9. QED
  BY <1>1, <1>8 DEF Stored, new

LEMMA ReadingIsOfABoot ==
  ASSUME EvidenceOK, NEW m \in Devices
  PROVE  /\ reading[m] \in Readings
         /\ reading[m] # NoReading => reading[m].boot # 0 /\ reading[m] \in PublishedReadings
<1>1. reading[m] \in {NoReading} \cup PublishedReadings
  BY DEF EvidenceOK
<1>2. \A r \in PublishedReadings : r.boot # 0
  BY AgesAreNatural DEF PublishedReadings
<1>3. QED
  BY <1>1, <1>2, ReadingsAreReadings

\* Evidence that a step leaves alone is worth no more after it than before.
LEMMA UntouchedEvidence ==
  ASSUME EvidenceOK, NEW d \in Domains, NEW v,
         \A m \in Range(Members[d]) :
           v.reading[m] = reading[m] /\ v.capability[m] = capability[m]
           /\ (m \in invalidated => m \in v.invalidated)
  PROVE  OnlyAges(d, World, v)
<1>1. \A m \in Range(Members[d]) : m \in Devices
  BY MembersAreDevices
<1>2. \A m \in Range(Members[d]) : reading[m].age <= reading[m].age /\ (reading[m] # NoReading => reading[m].boot # 0)
  BY <1>1, ReadingIsOfABoot DEF Readings
<1>3. World.reading = reading /\ World.capability = capability /\ World.invalidated = invalidated
  BY DEF World
<1>4. QED
  BY <1>2, <1>3 DEF OnlyAges

LEMMA TickOnlyAges ==
  ASSUME EvidenceOK, Tick, NEW d \in Domains
  PROVE  OnlyAges(d, World, World')
<1> SUFFICES ASSUME NEW m \in Range(Members[d])
             PROVE  /\ reading[m] = NoReading <=> reading'[m] = NoReading
                    /\ reading[m] # NoReading => reading[m].boot # 0
                    /\ reading[m].temperature = reading'[m].temperature
                    /\ reading[m].throttled = reading'[m].throttled
                    /\ reading[m].age <= reading'[m].age
  BY DEF OnlyAges, World, Tick, topologyVars
<1>1. m \in Devices
  BY MembersAreDevices
<1>2. reading[m] \in Readings /\ (reading[m] # NoReading => reading[m].boot # 0 /\ reading[m] \in PublishedReadings)
  BY <1>1, ReadingIsOfABoot
<1>3. reading'[m] = IF reading[m] = NoReading THEN NoReading ELSE Older(reading[m])
  BY <1>1 DEF Tick
<1>4. CASE reading[m] = NoReading
  BY <1>2, <1>3, <1>4 DEF Readings
<1>5. CASE reading[m] # NoReading
  <2>1. /\ Older(reading[m]).temperature = reading[m].temperature
        /\ Older(reading[m]).throttled = reading[m].throttled
        /\ Older(reading[m]).boot = reading[m].boot
        /\ reading[m].age <= Older(reading[m]).age
    BY <1>2, <1>5, AgesAreNatural DEF Older, PublishedReadings
  <2>2. Older(reading[m]) # NoReading
    BY <1>2, <1>5, <2>1 DEF NoReading
  <2>3. QED
    BY <1>2, <1>3, <1>5, <2>1, <2>2
<1>6. QED
  BY <1>4, <1>5

\* A publication leaves the evidence of the domains that do not hold its device alone.
LEMMA PublishLeavesOthers ==
  ASSUME EvidenceOK, TopologyOK, NEW device \in Devices, PublishSome(device),
         NEW d \in Domains, d \notin Holding(device)
  PROVE  OnlyAges(d, World, World')
<1>1. \A m \in Range(Members[d]) : m # device /\ m \in Devices
  BY MembersAreDevices DEF Holding
<1>2. /\ \A m \in Devices : m # device => reading'[m] = reading[m]
      /\ invalidated' = invalidated \ {device} /\ capability' = capability
  BY DEF PublishSome, Publish, EvidenceOK, topologyVars
<1>3. World'.reading = reading' /\ World'.capability = capability' /\ World'.invalidated = invalidated'
  BY DEF World
<1> DEFINE v == World'
<1> HIDE DEF v
<1>4. \A m \in Range(Members[d]) :
        v.reading[m] = reading[m] /\ v.capability[m] = capability[m]
        /\ (m \in invalidated => m \in v.invalidated)
  BY <1>1, <1>2, <1>3 DEF v
<1>5. OnlyAges(d, World, v)
  BY <1>4, UntouchedEvidence
<1>6. QED
  BY <1>5 DEF v

LEMMA SeenWhileAging ==
  ASSUME NEW d \in Domains, NEW w, NEW v, WorldOK(w), WorldOK(v), OnlyAges(d, w, v), NEW stored,
         HeatSeenAt(d, stored, w)
  PROVE  HeatSeenAt(d, stored, v)
BY AgedEvidence DEF HeatSeenAt

\* What a step leaves of the evidence a domain was evaluated on.
LEMMA StepsOfEvidence ==
  ASSUME EvidenceOK, TopologyOK, [Next]_vars
  PROVE  \/ UNCHANGED <<evaluation, couplings>> /\ \A d \in Domains : OnlyAges(d, World, World')
         \/ Recompute(Domains)
         \/ \E scope \in SUBSET Domains :
              Recompute(scope) /\ UNCHANGED couplings /\ \A d \in Domains : OnlyAges(d, World, World')
         \/ \E device \in Devices : PublishSome(device) /\ UNCHANGED couplings
<1>1. CASE Tick
  BY <1>1, TickOnlyAges DEF Tick, topologyVars
<1>2. ASSUME UNCHANGED <<reading, invalidated, capability>>, NEW d \in Domains
      PROVE  OnlyAges(d, World, World')
  <2> DEFINE v == World'
  <2>1. v.reading = reading /\ v.capability = capability /\ v.invalidated = invalidated
    BY <1>2 DEF World
  <2> HIDE DEF v
  <2>2. OnlyAges(d, World, v)
    BY <2>1, UntouchedEvidence
  <2>3. QED
    BY <2>2 DEF v
<1>3. ASSUME NEW device \in Devices, PublishSome(device) PROVE UNCHANGED couplings
  BY <1>3 DEF PublishSome, Publish, topologyVars
<1> HIDE DEF Recompute, PublishSome, Tick
<1>4. CASE UNCHANGED <<evaluation, reading, invalidated, history, capability, couplings, explicit>>
  BY <1>2, <1>4
<1>5. ASSUME NEW scope \in SUBSET Domains, Recompute(scope), UNCHANGED reading,
             UNCHANGED <<invalidated, capability, couplings>>
      PROVE  UNCHANGED couplings /\ \A d \in Domains : OnlyAges(d, World, World')
  BY <1>2, <1>5
<1>6. QED
  BY <1>1, <1>3, <1>4, <1>5, EvaluationSteps

LEMMA HeatKept == TypeOK /\ HeatIsSeen /\ [Next]_vars => HeatIsSeen'
<1> DEFINE w == World'
<1> SUFFICES ASSUME TypeOK, HeatIsSeen, [Next]_vars, NEW d \in Domains, Alone(d, couplings')
             PROVE  HeatSeenAt(d, evaluation', w)
  BY DEF HeatIsSeen, HeatSeenAt, Alone, JudgeableAt, BandAt, Fresh, Gathered, Reporting, Front, Hottest, TemperatureAt, World
<1>1. EvidenceOK /\ TopologyOK /\ evaluation \in Evaluated /\ WorldOK(World)
  BY TypeParts, WorldIsOK DEF EvaluationOK
<1>2. WorldOK(w) /\ Alone(d, w.couplings)
  BY <1>1, WorldIsOKNext DEF World
<1>3. couplings' = couplings /\ OnlyAges(d, World, w) => HeatSeenAt(d, evaluation, w)
  <2>1. couplings' = couplings => HeatSeenAt(d, evaluation, World)
    BY DEF HeatIsSeen
  <2> HIDE DEF w
  <2>2. QED
    BY <1>1, <1>2, <2>1, SeenWhileAging
<1> HIDE DEF w
<1>4. CASE UNCHANGED <<evaluation, couplings>> /\ OnlyAges(d, World, w)
  BY <1>3, <1>4
<1>5. ASSUME NEW scope \in SUBSET Domains, Recompute(scope),
             scope = Domains \/ (UNCHANGED couplings /\ OnlyAges(d, World, w))
      PROVE  HeatSeenAt(d, evaluation', w)
  <2>1. evaluation' = Recomputed(scope, evaluation, w)
    BY <1>5 DEF Recompute, w
  <2>2. d \in scope \/ HeatSeenAt(d, evaluation, w)
    BY <1>3, <1>5
  <2>3. QED
    BY <1>1, <1>2, <2>1, <2>2, PassSeesHeat
<1>6. ASSUME NEW device \in Devices, PublishSome(device), UNCHANGED couplings
      PROVE  HeatSeenAt(d, evaluation', w)
  <2> DEFINE mid == Between(device)
  <2>1. evaluation' = Recomputed(Neighbours(device), mid, w)
        /\ mid = Recomputed(Holding(device), evaluation, w)
    BY <1>1, <1>6, PublicationIsTwoPasses DEF w
  <2> HIDE DEF mid
  <2>2. d \in Holding(device) \/ HeatSeenAt(d, evaluation, w)
    BY <1>1, <1>3, <1>6, PublishLeavesOthers DEF w
  <2>3. HeatSeenAt(d, mid, w) /\ mid \in Evaluated
    BY <1>1, <1>2, <2>1, <2>2, PassSeesHeat, PassAt
  <2>4. QED
    BY <1>2, <2>1, <2>3, PassSeesHeat
<1>7. QED
  BY <1>1, <1>4, <1>5, <1>6, StepsOfEvidence DEF w

\* The destination of an edge lies around its source, and the source around the destination.
LEMMA EdgeIsAround ==
  ASSUME NEW s \in Domains, NEW d \in Domains, s # d, NEW E \in Edges, <<s, d>> \in E
  PROVE  d \in Around(s, E) /\ s \in Around(d, E)
<1>1. Reversed(E) \in Edges /\ <<d, s>> \in Reversed(E)
  BY DEF Reversed, Edges
<1>2. d \in Reaching(s, Reversed(E), 3) /\ s \in Reaching(d, E, 3)
  BY <1>1, EdgeReaches
<1>3. QED
  BY <1>2 DEF Around

LEMMA StepFeels ==
  ASSUME TypeOK, HeatIsSeen, PressureIsFelt, [Next]_vars, Policy.depth > 0, Policy.coDerate,
         NEW s \in Domains, NEW d \in Domains, s < d, <<s, d>> \in couplings', Alone(s, couplings'),
         evaluation'[s].state \in Restrictive
  PROVE  evaluation'[d].state \notin Healthy
<1> DEFINE w == World'
<1>1. EvidenceOK /\ TopologyOK /\ evaluation \in Evaluated /\ WorldOK(World)
  BY TypeParts, WorldIsOK DEF EvaluationOK
<1>2. WorldOK(w) /\ Alone(s, w.couplings) /\ <<s, d>> \in w.couplings /\ w.couplings = couplings'
  BY <1>1, WorldIsOKNext DEF World
<1>3. couplings' = couplings /\ evaluation[s].state \in Restrictive => evaluation[d].state \notin Healthy
  <2>1. <<s, d>>[1] = s /\ <<s, d>>[2] = d
    OBVIOUS
  <2>2. QED
    BY <2>1 DEF PressureIsFelt, Alone
<1>4. couplings' = couplings /\ OnlyAges(s, World, w) => HeatSeenAt(s, evaluation, w)
  <2>1. couplings' = couplings => HeatSeenAt(s, evaluation, World)
    BY DEF HeatIsSeen
  <2> HIDE DEF w
  <2>2. QED
    BY <1>1, <1>2, <2>1, SeenWhileAging
<1> HIDE DEF w
<1>5. CASE UNCHANGED <<evaluation, couplings>>
  BY <1>3, <1>5
<1>6. ASSUME NEW scope \in SUBSET Domains, Recompute(scope),
             scope = Domains \/ (UNCHANGED couplings /\ OnlyAges(s, World, w))
      PROVE  evaluation'[d].state \notin Healthy
  <2>1. evaluation' = Recomputed(scope, evaluation, w)
    BY <1>6 DEF Recompute, w
  <2>2. CASE d \in scope
    BY <1>1, <1>2, <2>1, <2>2, PassFeels
  <2>3. CASE d \notin scope
    <3>1. couplings' = couplings /\ HeatSeenAt(s, evaluation, w)
      BY <1>4, <1>6, <2>3
    <3>2. evaluation[s].state \in Restrictive
      BY <1>1, <1>2, <2>1, <3>1, PassSeesHeat
    <3>3. evaluation'[d] = evaluation[d]
      BY <1>1, <1>2, <2>1, <2>3, PassAt
    <3>4. QED
      BY <1>3, <3>1, <3>2, <3>3
  <2>4. QED
    BY <2>2, <2>3
<1>7. ASSUME NEW device \in Devices, PublishSome(device), UNCHANGED couplings
      PROVE  evaluation'[d].state \notin Healthy
  <2> DEFINE mid == Between(device)
  <2>1. evaluation' = Recomputed(Neighbours(device), mid, w)
        /\ mid = Recomputed(Holding(device), evaluation, w)
    BY <1>1, <1>7, PublicationIsTwoPasses DEF w
  <2> HIDE DEF mid
  <2>2. mid \in Evaluated
    BY <1>1, <1>2, <2>1, PassAt
  <2>3. CASE d \in Neighbours(device)
    BY <1>2, <2>1, <2>2, <2>3, PassFeels
  <2>4. CASE d \notin Neighbours(device)
    <3>1. d \in Around(s, couplings)
      <4>1. couplings \in Edges /\ <<s, d>> \in couplings /\ s # d
        BY <1>1, <1>7, CouplingsAreEdges, TopologyAssumption DEF TopologyOK
      <4>2. QED
        BY <4>1, EdgeIsAround
    <3>2. s \notin Holding(device)
      BY <2>4, <3>1 DEF Neighbours
    <3>3. mid[s] = evaluation[s]
      BY <1>1, <1>2, <2>1, <3>2, PassAt
    <3>4. HeatSeenAt(s, mid, w)
      BY <1>1, <1>4, <1>7, <3>2, <3>3, PublishLeavesOthers DEF w, HeatSeenAt
    <3>5. mid[s].state \in Restrictive
      BY <1>2, <2>1, <2>2, <3>4, PassSeesHeat
    <3>6. evaluation[d].state \notin Healthy
      BY <1>3, <1>7, <3>3, <3>5
    <3>7. mid[d].state \notin Healthy
      <4>1. CASE d \in Holding(device)
        BY <1>1, <1>2, <2>1, <3>5, <4>1, PassFeels
      <4>2. CASE d \notin Holding(device)
        BY <1>1, <1>2, <2>1, <3>6, <4>2, PassAt
      <4>3. QED
        BY <4>1, <4>2
    <3>8. QED
      BY <1>2, <2>1, <2>2, <2>4, <3>7, PassAt
  <2>5. QED
    BY <2>3, <2>4
<1>8. QED
  BY <1>1, <1>5, <1>6, <1>7, StepsOfEvidence DEF w

LEMMA AlwaysSeen == Spec => []HeatIsSeen
<1>1. Init => HeatIsSeen
  <2> SUFFICES ASSUME Init, NEW d \in Domains PROVE ~JudgeableAt(d, World)
    BY DEF HeatIsSeen, HeatSeenAt
  <2>1. \A i \in DOMAIN Members[d] : reading[Members[d][i]] = NoReading
    BY MembersAreDevices DEF Init
  <2>2. Reporting(d, World) = {}
    BY <2>1 DEF Reporting, World
  <2>3. QED
    BY <2>2 DEF JudgeableAt, Fresh
<1>2. QED
  BY <1>1, HeatKept, TypeCorrect, PTL DEF Spec

\* Coupled pressure: the destination of a restricted domain that nothing heats itself is never
\* stored as healthy once the recomputation that follows every change is over.
THEOREM CoupledPressureIsFelt ==
  ASSUME Policy.depth > 0, Policy.coDerate
  PROVE  Spec => []PressureIsFelt
<1>1. Init => PressureIsFelt
  BY DEF Init, PressureIsFelt
<1>2. TypeOK /\ HeatIsSeen /\ PressureIsFelt /\ [Next]_vars => PressureIsFelt'
  <2> SUFFICES ASSUME TypeOK, HeatIsSeen, PressureIsFelt, [Next]_vars, NEW e \in couplings',
                      e[1] < e[2], \A x \in couplings' : x[2] # e[1], evaluation'[e[1]].state \in Restrictive
               PROVE  evaluation'[e[2]].state \notin Healthy
    BY DEF PressureIsFelt
  <2>1. couplings' \in Edges
    BY WorldTypedNext, TypeParts, CouplingsAreEdges DEF TopologyOK
  <2>2. e[1] \in Domains /\ e[2] \in Domains /\ e = <<e[1], e[2]>>
    BY <2>1 DEF Edges
  <2>3. QED
    BY <2>2, StepFeels DEF Alone
<1>3. QED
  BY <1>1, <1>2, AlwaysSeen, TypeCorrect, PTL DEF Spec
================================================================================
