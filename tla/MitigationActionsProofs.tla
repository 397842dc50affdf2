----------------------- MODULE MitigationActionsProofs -----------------------
(***************************************************************************)
(* Proofs about MitigationActions for every value of its constants.        *)
(***************************************************************************)
EXTENDS MitigationActions, TLAPS

(***************************************************************************)
(* Type correctness                                                        *)
(***************************************************************************)

\* The starting state is in the type invariant.
LEMMA InitTypeOK == Init => TypeOK
BY NamesAssumption, BoundsAssumption
   DEF Init, TypeOK, ClockOK, WorkersOK, ConfigOK, EvidenceOK, ActionsOK, CallsOK, ActionIds,
       NoEvidence, NoAuthority, NoCall, Lifecycles, Live, InFlight, Terminal, Verified

\* What a step leaves alone keeps its type.
LEMMA Frames ==
  /\ TypeOK /\ UNCHANGED clockVars => ClockOK'
  /\ TypeOK /\ UNCHANGED workerVars => WorkersOK'
  /\ TypeOK /\ UNCHANGED configVars => ConfigOK'
  /\ TypeOK /\ UNCHANGED evidenceVars => EvidenceOK'
  /\ TypeOK /\ UNCHANGED actionVars => ActionsOK'
  /\ TypeOK /\ UNCHANGED calls => CallsOK'
BY DEF TypeOK, ClockOK, WorkersOK, ConfigOK, EvidenceOK, ActionsOK, CallsOK,
       clockVars, workerVars, configVars, evidenceVars, actionVars

\* Storing an admitted reading keeps the evidence in its type.
LEMMA StoreType ==
  ASSUME TypeOK, NEW d \in Domains, NEW e \in Readings, Store(<<d, deviceGeneration[d]>>, e)
  PROVE  EvidenceOK'
BY DEF TypeOK, ConfigOK, EvidenceOK, Keys, Store

\* A step that only moves lifecycles between positions of created actions.
LEMMA LifecycleType ==
  ASSUME TypeOK,
         lifecycle' \in [ActionIds -> Lifecycles],
         \A i \in ActionIds : lifecycle'[i] = "PLANNED" <=> lifecycle[i] = "PLANNED",
         UNCHANGED <<actionGeneration, authority>>,
         dispatchedAt' \in [ActionIds -> 0..MaxTime],
         \A i \in ActionIds : lifecycle[i] = "PLANNED" => dispatchedAt'[i] = dispatchedAt[i],
         baselines' \in SUBSET ActionIds,
         verifications' \in Seq(Verifications)
  PROVE  ActionsOK'
BY DEF TypeOK, ActionsOK

\* The retirement of a boot keeps evidence and actions in their types.
LEMMA RetireType ==
  ASSUME TypeOK, NEW w, NEW b, RetireBoot(w, b)
  PROVE  EvidenceOK' /\ ActionsOK'
<1>1. EvidenceOK'
  BY DEF TypeOK, EvidenceOK, RetireBoot
<1>2. ActionsOK'
  <2>1. \A i \in LiveBoundTo(w, b) : lifecycle[i] # "PLANNED"
    BY DEF LiveBoundTo, Live, InFlight
  <2>2. lifecycle' \in [ActionIds -> Lifecycles]
    BY DEF TypeOK, ActionsOK, RetireBoot, Lifecycles, Terminal
  <2>3. \A i \in ActionIds : lifecycle'[i] = "PLANNED" <=> lifecycle[i] = "PLANNED"
    BY <2>1 DEF RetireBoot
  <2>4. QED
    BY <2>2, <2>3, LifecycleType DEF TypeOK, ActionsOK, RetireBoot
<1>3. QED
  BY <1>1, <1>2

\* An authorisation creates the next record under generations that are in use.
LEMMA AuthorizeType ==
  ASSUME TypeOK, NEW d \in Domains, NEW known \in BOOLEAN, Authorize(d, known)
  PROVE  ActionsOK'
<1> DEFINE i == actionGeneration + 1
           a == [domain |-> d, domainGeneration |-> domainGeneration[d],
                 deviceGeneration |-> IF HasEvidence(d) THEN memberGeneration[d] ELSE 0,
                 policyGeneration |-> policy[GoverningPolicy(d)],
                 telemetry |-> Held(d).telemetry, worker |-> Held(d).worker,
                 boot |-> Held(d).boot, topologyGeneration |-> topologyGeneration,
                 capabilityGeneration |-> capabilityGeneration,
                 provenance |-> IF known THEN "KNOWN" ELSE "UNKNOWN"]
<1>1. i \in ActionIds
  BY BoundsAssumption DEF Authorize, TypeOK, ActionsOK, ActionIds
<1>2. policy[GoverningPolicy(d)] \in 1..MaxPolicyGeneration
  BY NamesAssumption, BoundsAssumption DEF GoverningPolicy, TypeOK, ConfigOK
<1>3. /\ Held(d).telemetry \in 0..MaxSequence
      /\ Held(d).worker \in Workers \cup {NoWorker}
      /\ Held(d).boot \in 0..MaxBoot
  <2>1. MemberKey(d) \in Keys
    BY DEF MemberKey, Keys, TypeOK, ConfigOK
  <2>2. Held(d) \in Readings \cup {NoEvidence}
    BY <2>1 DEF Held, TypeOK, EvidenceOK
  <2>3. QED
    BY <2>2, BoundsAssumption DEF Readings, NoEvidence
<1>4. a \in Authorities
  BY <1>2, <1>3, BoundsAssumption DEF Authorities, TypeOK, ConfigOK
<1>5. /\ actionGeneration' = i /\ i \in 1..(MaxActions + 1)
      /\ lifecycle' = [lifecycle EXCEPT ![i] = "AUTHORIZED"]
      /\ authority' = [authority EXCEPT ![i] = a]
      /\ baselines' = baselines \cup {i}
      /\ UNCHANGED <<dispatchedAt, verifications>>
  BY <1>1 DEF Authorize, ActionIds
<1>6. QED
  BY <1>1, <1>4, <1>5, BoundsAssumption
     DEF TypeOK, ActionsOK, ActionIds, Lifecycles, Live

\* Every step preserves the type invariant.
LEMMA NextTypeOK == TypeOK /\ [Next]_vars => TypeOK'
<1> SUFFICES ASSUME TypeOK, [Next]_vars PROVE TypeOK'
  OBVIOUS
<1> USE Frames DEF TypeOK
<1>1. CASE Tick
  BY <1>1, BoundsAssumption
     DEF Tick, ClockOK, clockVars, workerVars, configVars, evidenceVars, actionVars
<1>2. ASSUME NEW d \in Domains, NEW e \in Readings, Publish(d, e) PROVE TypeOK'
  BY <1>2, StoreType DEF Publish
<1>3. ASSUME NEW w \in Workers, NEW b \in 1..MaxBoot, RegisterWorker(w, b) PROVE TypeOK'
  <2>1. ClockOK' /\ ConfigOK' /\ CallsOK'
    BY <1>3 DEF RegisterWorker
  <2>2. WorkersOK'
    <3>1. /\ boot' = boot \/ boot' = [boot EXCEPT ![w] = b]
          /\ alive' = [alive EXCEPT ![w] = TRUE] \/ alive' = [alive EXCEPT ![w] = FALSE]
      BY <1>3 DEF RegisterWorker
    <3>2. b \in 0..MaxBoot
      BY BoundsAssumption
    <3>3. QED
      BY <3>1, <3>2 DEF WorkersOK
  <2>3. EvidenceOK' /\ ActionsOK'
    <3>1. \/ UNCHANGED <<evidenceVars, actionVars>>
          \/ RetireBoot(w, boot[w])
      BY <1>3 DEF RegisterWorker
    <3>2. QED
      BY <3>1, RetireType
  <2>4. QED
    BY <2>1, <2>2, <2>3
<1>4. ASSUME NEW w \in Workers, Heartbeat(w) PROVE TypeOK'
  BY <1>4 DEF Heartbeat, WorkersOK
<1>5. ASSUME NEW w \in Workers, NoteWorkerDeath(w) PROVE TypeOK'
  BY <1>5, RetireType DEF NoteWorkerDeath, WorkersOK
<1>6. ASSUME NEW p \in Policies, NEW g \in 1..MaxPolicyGeneration, SetPolicy(p, g) PROVE TypeOK'
  BY <1>6, BoundsAssumption DEF SetPolicy, ConfigOK
<1>7. ASSUME NEW d \in Domains, NEW g \in 1..MaxDeviceGeneration, RegisterDevice(d, g)
      PROVE TypeOK'
  BY <1>7, BoundsAssumption DEF RegisterDevice, ConfigOK
<1>8. ASSUME NEW d \in Domains, NEW g \in 1..MaxDomainGeneration,
             NEW m \in 1..MaxDeviceGeneration, UpdateDomain(d, g, m)
      PROVE TypeOK'
  <2>1. ConfigOK'
    BY <1>8, BoundsAssumption DEF UpdateDomain, ConfigOK
  <2>2. EvidenceOK'
    BY <1>8 DEF UpdateDomain, EvidenceOK
  <2>3. QED
    BY <1>8, <2>1, <2>2 DEF UpdateDomain
<1>9. CASE PublishCapabilities
  BY <1>9, BoundsAssumption DEF PublishCapabilities, ConfigOK
<1>10. CASE ChangeCoupling
  BY <1>10, BoundsAssumption DEF ChangeCoupling, ConfigOK
<1>11. ASSUME NEW d \in Domains, NEW known \in BOOLEAN, Authorize(d, known) PROVE TypeOK'
  BY <1>11, AuthorizeType DEF Authorize
<1>12. ASSUME NEW i \in ActionIds, Dispatch(i) PROVE TypeOK'
  <2>1. ActionsOK'
    <3>1. \E l \in {"DISPATCHED", "SUPERSEDED"} :
             lifecycle[i] = "AUTHORIZED" /\ lifecycle' = [lifecycle EXCEPT ![i] = l]
      BY <1>12 DEF Dispatch
    <3>2. /\ lifecycle' \in [ActionIds -> Lifecycles]
          /\ \A j \in ActionIds : lifecycle'[j] = "PLANNED" <=> lifecycle[j] = "PLANNED"
      BY <3>1 DEF ActionsOK, Lifecycles, Live, InFlight, Terminal
    <3>3. dispatchedAt' = [dispatchedAt EXCEPT ![i] = now] \/ dispatchedAt' = dispatchedAt
      BY <1>12 DEF Dispatch
    <3>4. /\ dispatchedAt' \in [ActionIds -> 0..MaxTime]
          /\ \A j \in ActionIds : lifecycle[j] = "PLANNED" => dispatchedAt'[j] = dispatchedAt[j]
      <4>1. now \in 0..MaxTime
        BY BoundsAssumption DEF ClockOK
      <4>2. dispatchedAt \in [ActionIds -> 0..MaxTime]
        BY DEF ActionsOK
      <4>3. QED
        BY <3>1, <3>3, <4>1, <4>2
    <3>5. QED
      BY <1>12, <3>2, <3>4, LifecycleType DEF Dispatch, ActionsOK
  <2>2. QED
    BY <1>12, <2>1 DEF Dispatch
<1>13. ASSUME NEW i \in ActionIds, Cancel(i) PROVE TypeOK'
  BY <1>13, LifecycleType DEF Cancel, ActionsOK, Lifecycles, Live, InFlight, Terminal
<1>14. ASSUME NEW i \in ActionIds, NEW b \in 0..MaxBoot, NEW yes \in BOOLEAN, Ack(i, b, yes)
       PROVE TypeOK'
  BY <1>14, LifecycleType DEF Ack, ActionsOK, Lifecycles, Live, InFlight, Terminal
<1>15. ASSUME NEW i \in ActionIds, NEW b \in 0..MaxBoot, NEW g \in 1..MaxPolicyGeneration,
              NEW yes \in BOOLEAN, Result(i, b, g, yes)
       PROVE TypeOK'
  BY <1>15, LifecycleType
     DEF Result, FromBoundBoot, ActionsOK, Lifecycles, Live, InFlight, Terminal
<1>16. ASSUME NEW c \in Callers, NEW i \in ActionIds, NEW d \in Domains, NEW e \in Readings,
              BeginVerify(c, i, d, e)
       PROVE TypeOK'
  <2>1. CallsOK'
    BY <1>16 DEF BeginVerify, CallsOK, PendingCalls, Readings
  <2>2. QED
    BY <1>16, <2>1, StoreType DEF BeginVerify
<1>17. ASSUME NEW c \in Callers, NEW l \in Lifecycles, Commit(c, l) PROVE TypeOK'
  <2>1. PICK i \in ActionIds :
               calls[c].action = i /\ lifecycle[i] \in InFlight /\ i \in baselines
    BY <1>17 DEF Commit, Verifiable, ActionsOK
  <2>2. l \in Verified \cup {"SUPERSEDED"}
    BY <1>17 DEF Commit, Conclusions
  <2>3. i <= actionGeneration /\ authority[i] \in Authorities
    <3>1. i <= actionGeneration
      BY <2>1, BoundsAssumption DEF ActionsOK, InFlight, ActionIds
    <3>2. QED
      BY <3>1 DEF ActionsOK
  <2>4. Held(authority[i].domain) \in Readings \cup {NoEvidence}
    BY <2>3 DEF Held, MemberKey, Authorities, Keys, ConfigOK, EvidenceOK
  <2>5. verifications' \in Seq(Verifications)
    <3> DEFINE h == Held(authority[i].domain)
               v == [action |-> i, lifecycle |-> l, evidenceAt |-> h.measuredAt]
    <3>1. h.measuredAt \in 0..MaxTime
      BY <2>4, BoundsAssumption DEF Readings, NoEvidence
    <3>2. v \in Verifications
      BY <2>2, <3>1 DEF Verifications
    <3>3. verifications' = Append(verifications, v)
      BY <1>17, <2>1 DEF Commit
    <3>4. QED
      BY <3>2, <3>3 DEF ActionsOK
  <2>6. ActionsOK'
    <3>1. lifecycle' = [lifecycle EXCEPT ![i] = l] /\ lifecycle[i] # "PLANNED" /\ l # "PLANNED"
      BY <1>17, <2>1, <2>2 DEF Commit, InFlight, Verified
    <3>2. lifecycle' \in [ActionIds -> Lifecycles]
      BY <3>1, <2>2 DEF ActionsOK, Lifecycles, Terminal
    <3>3. UNCHANGED <<actionGeneration, authority, dispatchedAt, baselines>>
      BY <1>17 DEF Commit
    <3>4. QED
      BY <2>5, <3>1, <3>2, <3>3, LifecycleType DEF ActionsOK
  <2>7. CallsOK'
    BY <1>17 DEF Commit, CallsOK
  <2>8. QED
    BY <1>17, <2>6, <2>7 DEF Commit
<1>18. ASSUME NEW c \in Callers, RefuseCommit(c) PROVE TypeOK'
  BY <1>18 DEF RefuseCommit, CallsOK
<1>19. CASE BeginShutdown
  BY <1>19 DEF BeginShutdown, ClockOK
<1>20. CASE FinishShutdown
  <2>1. ActionsOK'
    BY <1>20, LifecycleType
       DEF FinishShutdown, Classified, ActionsOK, Lifecycles, Live, InFlight, Terminal
  <2>2. QED
    BY <1>20, <2>1 DEF FinishShutdown, ClockOK
<1>21. CASE UNCHANGED vars
  BY <1>21 DEF vars
<1>22. QED
  BY <1>1, <1>2, <1>3, <1>4, <1>5, <1>6, <1>7, <1>8, <1>9, <1>10, <1>11, <1>12, <1>13, <1>14,
     <1>15, <1>16, <1>17, <1>18, <1>19, <1>20, <1>21 DEF Next

\* Every variable stays in its set in every reachable state.
THEOREM TypeCorrect == Spec => []TypeOK
<1>1. Init => TypeOK
  BY InitTypeOK
<1>2. TypeOK /\ [Next]_vars => TypeOK'
  BY NextTypeOK
<1>3. QED
  BY <1>1, <1>2, PTL DEF Spec

(***************************************************************************)
(* The contract of the lifecycle                                           *)
(***************************************************************************)

\* A step that moves one action and records no dispatch is a step of the contract.
LEMMA MoveKeepsContract ==
  ASSUME NEW i \in ActionIds, NEW l, lifecycle' = [lifecycle EXCEPT ![i] = l],
         UNCHANGED dispatchedAt,
         \/ lifecycle[i] = "PLANNED" /\ l = "AUTHORIZED"
         \/ lifecycle[i] = "AUTHORIZED" /\ l = "CANCELLED"
         \/ lifecycle[i] = "DISPATCHED" /\ l = "ACKNOWLEDGED"
         \/ lifecycle[i] \in {"DISPATCHED", "ACKNOWLEDGED"} /\ l = "FAILED"
         \/ lifecycle[i] \in InFlight /\ l \in Verified \cup {"VERIFYING"}
         \/ lifecycle[i] \in Live /\ l = "SUPERSEDED"
  PROVE  Contract!Next
<1>1. Contract!Advance(i)
  BY DEF Contract!Advance, Contract!Moves, Contract!InFlight, Contract!Verified, Contract!Live,
         InFlight, Verified, Live
<1>2. QED
  BY <1>1 DEF Contract!Next

\* The retirement of a boot abandons a set of live actions.
LEMMA RetireKeepsContract ==
  ASSUME NEW w, NEW b, RetireBoot(w, b)
  PROVE  Contract!Next
<1> DEFINE S == LiveBoundTo(w, b)
<1>1. S \in SUBSET ActionIds /\ \A i \in S : lifecycle[i] \in Live
  BY DEF LiveBoundTo
<1>2. Contract!Abandon(S)
  BY <1>1 DEF RetireBoot, Contract!Abandon, Contract!Live, Contract!InFlight, Live, InFlight
<1>3. QED
  BY <1>1, <1>2 DEF Contract!Next

\* What the exception does: the action is superseded, nothing was or is dispatched.
LEMMA OverruledIsSuperseded ==
  ASSUME NEW i \in ActionIds, OutcomeOverruled(i)
  PROVE  lifecycle' = [lifecycle EXCEPT ![i] = "SUPERSEDED"] /\ UNCHANGED dispatchedAt
BY DEF OutcomeOverruled, Result

\* Every step is a step of the contract, overrules one outcome or leaves the
\* contract's variables alone.
LEMMA StepKeepsContract ==
  ASSUME TypeOK, [Next]_vars
  PROVE  \/ Contract!Next
         \/ \E i \in ActionIds : OutcomeOverruled(i)
         \/ UNCHANGED <<lifecycle, dispatchedAt>>
<1> USE DEF actionVars, vars
<1>1. CASE Tick
  BY <1>1 DEF Tick
<1>2. ASSUME NEW d \in Domains, NEW e \in Readings, Publish(d, e)
      PROVE  UNCHANGED <<lifecycle, dispatchedAt>>
  BY <1>2 DEF Publish
<1>3. ASSUME NEW w \in Workers, NEW b \in 1..MaxBoot, RegisterWorker(w, b)
      PROVE  Contract!Next \/ UNCHANGED <<lifecycle, dispatchedAt>>
  BY <1>3, RetireKeepsContract DEF RegisterWorker
<1>4. ASSUME NEW w \in Workers, Heartbeat(w) PROVE UNCHANGED <<lifecycle, dispatchedAt>>
  BY <1>4 DEF Heartbeat
<1>5. ASSUME NEW w \in Workers, NoteWorkerDeath(w) PROVE Contract!Next
  BY <1>5, RetireKeepsContract DEF NoteWorkerDeath
<1>6. ASSUME NEW p \in Policies, NEW g \in 1..MaxPolicyGeneration, SetPolicy(p, g)
      PROVE  UNCHANGED <<lifecycle, dispatchedAt>>
  BY <1>6 DEF SetPolicy
<1>7. ASSUME NEW d \in Domains, NEW g \in 1..MaxDeviceGeneration, RegisterDevice(d, g)
      PROVE  UNCHANGED <<lifecycle, dispatchedAt>>
  BY <1>7 DEF RegisterDevice
<1>8. ASSUME NEW d \in Domains, NEW g \in 1..MaxDomainGeneration,
             NEW m \in 1..MaxDeviceGeneration, UpdateDomain(d, g, m)
      PROVE  UNCHANGED <<lifecycle, dispatchedAt>>
  BY <1>8 DEF UpdateDomain
<1>9. CASE PublishCapabilities
  BY <1>9 DEF PublishCapabilities
<1>10. CASE ChangeCoupling
  BY <1>10 DEF ChangeCoupling
<1>11. ASSUME NEW d \in Domains, NEW known \in BOOLEAN, Authorize(d, known) PROVE Contract!Next
  <2> DEFINE i == actionGeneration + 1
  <2>1. i \in ActionIds /\ lifecycle[i] = "PLANNED"
    BY <1>11, BoundsAssumption DEF Authorize, TypeOK, ActionsOK, ActionIds
  <2>2. lifecycle' = [lifecycle EXCEPT ![i] = "AUTHORIZED"] /\ UNCHANGED dispatchedAt
    BY <1>11 DEF Authorize
  <2>3. QED
    BY <2>1, <2>2, MoveKeepsContract
<1>12. ASSUME NEW i \in ActionIds, Dispatch(i) PROVE Contract!Next
  <2>1. CASE Revalidated(i)
    <3>1. /\ lifecycle[i] = "AUTHORIZED" /\ lifecycle' = [lifecycle EXCEPT ![i] = "DISPATCHED"]
          /\ dispatchedAt' = [dispatchedAt EXCEPT ![i] = now]
      BY <1>12, <2>1 DEF Dispatch
    <3>2. now > 0 /\ dispatchedAt \in [ActionIds -> 0..MaxTime]
      BY BoundsAssumption DEF TypeOK, ClockOK, ActionsOK
    <3>3. {j \in ActionIds : dispatchedAt'[j] > 0} = {j \in ActionIds : dispatchedAt[j] > 0} \cup {i}
      BY <3>1, <3>2
    <3>4. Contract!Dispatch(i)
      BY <3>1, <3>3 DEF Contract!Dispatch, Contract!Moves
    <3>5. QED
      BY <3>4 DEF Contract!Next
  <2>2. CASE ~Revalidated(i)
    BY <1>12, <2>2, MoveKeepsContract DEF Dispatch, Live
  <2>3. QED
    BY <2>1, <2>2
<1>13. ASSUME NEW i \in ActionIds, Cancel(i) PROVE Contract!Next
  BY <1>13, MoveKeepsContract DEF Cancel
<1>14. ASSUME NEW i \in ActionIds, NEW b \in 0..MaxBoot, NEW yes \in BOOLEAN, Ack(i, b, yes)
       PROVE  Contract!Next
  BY <1>14, MoveKeepsContract DEF Ack
<1>15. ASSUME NEW i \in ActionIds, NEW b \in 0..MaxBoot, NEW g \in 1..MaxPolicyGeneration,
              NEW yes \in BOOLEAN, Result(i, b, g, yes)
       PROVE  Contract!Next \/ OutcomeOverruled(i)
  <2>1. lifecycle[i] \in Live \cup Terminal /\ UNCHANGED dispatchedAt
    BY <1>15 DEF Result, FromBoundBoot, TypeOK, ActionsOK, Lifecycles
  <2>2. CASE PolicySuperseded(i, g) /\ IsTerminal(lifecycle[i])
    <3>1. Result(i, b, g, FALSE)
      BY <1>15, <2>2 DEF Result
    <3>2. QED
      BY <2>2, <3>1 DEF OutcomeOverruled
  <2>3. CASE PolicySuperseded(i, g) /\ lifecycle[i] \in Live
    BY <1>15, <2>1, <2>3, MoveKeepsContract DEF Result
  <2>4. CASE ~PolicySuperseded(i, g)
    BY <1>15, <2>1, <2>4, MoveKeepsContract DEF Result, InFlight
  <2>5. QED
    BY <2>1, <2>2, <2>3, <2>4 DEF IsTerminal
<1>16. ASSUME NEW c \in Callers, NEW i \in ActionIds, NEW d \in Domains, NEW e \in Readings,
              BeginVerify(c, i, d, e)
       PROVE  UNCHANGED <<lifecycle, dispatchedAt>>
  BY <1>16 DEF BeginVerify
<1>17. ASSUME NEW c \in Callers, NEW l \in Lifecycles, Commit(c, l) PROVE Contract!Next
  <2>1. calls[c].action \in ActionIds /\ lifecycle[calls[c].action] \in InFlight
    BY <1>17 DEF Commit, Verifiable, TypeOK, ActionsOK
  <2>2. /\ lifecycle' = [lifecycle EXCEPT ![calls[c].action] = l]
        /\ l \in Verified \cup {"SUPERSEDED"} /\ UNCHANGED dispatchedAt
    BY <1>17 DEF Commit, Conclusions
  <2>3. QED
    BY <2>1, <2>2, MoveKeepsContract DEF Live
<1>18. ASSUME NEW c \in Callers, RefuseCommit(c) PROVE UNCHANGED <<lifecycle, dispatchedAt>>
  BY <1>18 DEF RefuseCommit
<1>19. CASE BeginShutdown
  BY <1>19 DEF BeginShutdown
<1>20. CASE FinishShutdown
  <2>1. Contract!Stop
    BY <1>20 DEF FinishShutdown, Classified, Contract!Stop, Contract!InFlight, InFlight
  <2>2. QED
    BY <2>1 DEF Contract!Next
<1>21. CASE UNCHANGED vars
  BY <1>21
<1>22. QED
  BY <1>1, <1>2, <1>3, <1>4, <1>5, <1>6, <1>7, <1>8, <1>9, <1>10, <1>11, <1>12, <1>13, <1>14,
     <1>15, <1>16, <1>17, <1>18, <1>19, <1>20, <1>21 DEF Next

\* The runtime implements the contract of the action lifecycle, in which nothing
\* leaves a terminal position, but for the results that overrule an outcome.
THEOREM ImplementsContract == Spec => KeepsContract
<1>1. Init => Contract!Init
  BY DEF Init, Contract!Init
<1>2. TypeOK /\ [Next]_vars =>
        [Contract!Next \/ \E i \in ActionIds : OutcomeOverruled(i)]_Contract!vars
  BY StepKeepsContract DEF Contract!vars
<1>3. QED
  BY <1>1, <1>2, TypeCorrect, PTL DEF Spec, KeepsContract

\* A terminal position is left in a step that overrules the outcome only.
LEMMA StepKeepsTerminal ==
  ASSUME TypeOK, [Next]_vars, NEW i \in ActionIds, IsTerminal(lifecycle[i])
  PROVE  lifecycle'[i] = lifecycle[i] \/ OutcomeOverruled(i)
<1>1. CASE UNCHANGED <<lifecycle, dispatchedAt>>
  BY <1>1
<1>2. ASSUME NEW j \in ActionIds, Contract!Dispatch(j) \/ Contract!Advance(j)
      PROVE  lifecycle'[i] = lifecycle[i]
  BY <1>2 DEF TypeOK, ActionsOK, Contract!Dispatch, Contract!Advance, Contract!Moves,
              Contract!InFlight, Contract!Live, IsTerminal, Terminal, Verified
<1>3. ASSUME NEW S \in SUBSET ActionIds, Contract!Abandon(S)
      PROVE  lifecycle'[i] = lifecycle[i]
  BY <1>3 DEF Contract!Abandon, Contract!Live, Contract!InFlight, IsTerminal, Terminal, Verified
<1>4. CASE Contract!Stop
  BY <1>4 DEF Contract!Stop, Contract!InFlight, IsTerminal, Terminal, Verified
<1>5. ASSUME NEW j \in ActionIds, OutcomeOverruled(j)
      PROVE  lifecycle'[i] = lifecycle[i] \/ OutcomeOverruled(i)
  BY <1>5, OverruledIsSuperseded DEF TypeOK, ActionsOK
<1>6. QED
  BY StepKeepsContract, <1>1, <1>2, <1>3, <1>4, <1>5 DEF Contract!Next

\* No outcome is reopened or rewritten, but for a result that overrules it.
THEOREM TerminalKept == Spec => OutcomesAreFinal
<1>1. TypeOK /\ [Next]_vars =>
        [\A i \in ActionIds :
           IsTerminal(lifecycle[i]) => lifecycle'[i] = lifecycle[i] \/ OutcomeOverruled(i)]_vars
  BY StepKeepsTerminal
<1>2. QED
  BY <1>1, TypeCorrect, PTL DEF Spec, OutcomesAreFinal

\* In particular a terminal position is followed by itself or SUPERSEDED.
LEMMA TerminalStaysOrSupersedes ==
  ASSUME TypeOK, [Next]_vars, NEW i \in ActionIds, IsTerminal(lifecycle[i])
  PROVE  lifecycle'[i] \in {lifecycle[i], "SUPERSEDED"}
<1>1. OutcomeOverruled(i) => lifecycle'[i] = "SUPERSEDED"
  BY OverruledIsSuperseded DEF TypeOK, ActionsOK
<1>2. QED
  BY <1>1, StepKeepsTerminal

(***************************************************************************)
(* What an action's position says about its past                           *)
(***************************************************************************)

\* The inductive strengthening of VerifiedOnce and CancelledNeverRan: a
\* verification stays behind a terminal, dispatched action.
History ==
  /\ Contract!Honest
  /\ \A n \in DOMAIN verifications :
       /\ IsTerminal(lifecycle[verifications[n].action])
       /\ dispatchedAt[verifications[n].action] > 0
  /\ VerifiedOnce

\* Positions stay honest.
LEMMA StepKeepsHonest ==
  ASSUME TypeOK, Contract!Honest, [Next]_vars
  PROVE  Contract!Honest'
<1> USE DEF Contract!Honest, Contract!InFlight, Contract!Verified
<1>1. CASE UNCHANGED <<lifecycle, dispatchedAt>>
  BY <1>1
<1>2. ASSUME NEW i \in ActionIds, Contract!Dispatch(i) PROVE Contract!Honest'
  BY <1>2 DEF TypeOK, ActionsOK, Contract!Dispatch, Contract!Moves
<1>3. ASSUME NEW i \in ActionIds, Contract!Advance(i) PROVE Contract!Honest'
  BY <1>3 DEF TypeOK, ActionsOK, Contract!Advance, Contract!Moves
<1>4. ASSUME NEW S \in SUBSET ActionIds, Contract!Abandon(S) PROVE Contract!Honest'
  BY <1>4 DEF Contract!Abandon
<1>5. CASE Contract!Stop
  BY <1>5 DEF Contract!Stop
<1>6. ASSUME NEW i \in ActionIds, OutcomeOverruled(i) PROVE Contract!Honest'
  BY <1>6, OverruledIsSuperseded DEF TypeOK, ActionsOK
<1>7. QED
  BY StepKeepsContract, <1>1, <1>2, <1>3, <1>4, <1>5, <1>6 DEF Contract!Next

\* A dispatch is never forgotten.
LEMMA StepKeepsDispatched ==
  ASSUME TypeOK, [Next]_vars, NEW i \in ActionIds, dispatchedAt[i] > 0
  PROVE  dispatchedAt'[i] > 0
<1> DEFINE D == {j \in ActionIds : dispatchedAt[j] > 0}
<1>1. i \in D
  OBVIOUS
<1>2. D \subseteq D'
  BY StepKeepsContract, OverruledIsSuperseded
     DEF Contract!Next, Contract!Dispatch, Contract!Advance, Contract!Abandon, Contract!Stop
<1>3. QED
  BY <1>1, <1>2

\* Only the second section of verify_action adds a verdict or a record.
LEMMA OnlyCommitVerifies ==
  ASSUME TypeOK, [Next]_vars, ~ \E c \in Callers, l \in Lifecycles : Commit(c, l)
  PROVE  /\ UNCHANGED verifications
         /\ \A i \in ActionIds : lifecycle'[i] \in Verified => lifecycle'[i] = lifecycle[i]
<1> DEFINE P == /\ UNCHANGED verifications
                /\ \A i \in ActionIds : lifecycle'[i] \in Verified => lifecycle'[i] = lifecycle[i]
<1> USE DEF actionVars, vars
<1>1. CASE Tick \/ PublishCapabilities \/ ChangeCoupling \/ BeginShutdown \/ UNCHANGED vars
  BY <1>1 DEF Tick, PublishCapabilities, ChangeCoupling, BeginShutdown
<1>2. ASSUME NEW d \in Domains, NEW e \in Readings, Publish(d, e) PROVE P
  BY <1>2 DEF Publish
<1>3. ASSUME NEW w \in Workers, NEW b \in 1..MaxBoot, RegisterWorker(w, b) PROVE P
  BY <1>3 DEF RegisterWorker, RetireBoot, Verified
<1>4. ASSUME NEW w \in Workers, Heartbeat(w) \/ NoteWorkerDeath(w) PROVE P
  BY <1>4 DEF Heartbeat, NoteWorkerDeath, RetireBoot, Verified
<1>5. ASSUME NEW p \in Policies, NEW g \in 1..MaxPolicyGeneration, SetPolicy(p, g) PROVE P
  BY <1>5 DEF SetPolicy
<1>6. ASSUME NEW d \in Domains, NEW g \in 1..MaxDeviceGeneration, RegisterDevice(d, g) PROVE P
  BY <1>6 DEF RegisterDevice
<1>7. ASSUME NEW d \in Domains, NEW g \in 1..MaxDomainGeneration,
             NEW m \in 1..MaxDeviceGeneration, UpdateDomain(d, g, m)
      PROVE  P
  BY <1>7 DEF UpdateDomain
<1>8. ASSUME NEW d \in Domains, NEW known \in BOOLEAN, Authorize(d, known) PROVE P
  BY <1>8 DEF Authorize, Verified, TypeOK, ActionsOK
<1>9. ASSUME NEW i \in ActionIds, Dispatch(i) \/ Cancel(i) PROVE P
  BY <1>9 DEF Dispatch, Cancel, Verified, TypeOK, ActionsOK
<1>10. ASSUME NEW i \in ActionIds, NEW b \in 0..MaxBoot, NEW yes \in BOOLEAN, Ack(i, b, yes)
       PROVE  P
  BY <1>10 DEF Ack, Verified, TypeOK, ActionsOK
<1>11. ASSUME NEW i \in ActionIds, NEW b \in 0..MaxBoot, NEW g \in 1..MaxPolicyGeneration,
              NEW yes \in BOOLEAN, Result(i, b, g, yes)
       PROVE  P
  BY <1>11 DEF Result, Verified, TypeOK, ActionsOK
<1>12. ASSUME NEW c \in Callers, NEW i \in ActionIds, NEW d \in Domains, NEW e \in Readings,
              BeginVerify(c, i, d, e)
       PROVE  P
  BY <1>12 DEF BeginVerify
<1>13. ASSUME NEW c \in Callers, RefuseCommit(c) PROVE P
  BY <1>13 DEF RefuseCommit
<1>14. CASE FinishShutdown
  BY <1>14 DEF FinishShutdown, Classified, Verified
<1>15. QED
  BY <1>1, <1>2, <1>3, <1>4, <1>5, <1>6, <1>7, <1>8, <1>9, <1>10, <1>11, <1>12, <1>13, <1>14
     DEF Next

\* A verification names an action.
LEMMA VerifiedActions ==
  ASSUME TypeOK, NEW n \in DOMAIN verifications
  PROVE  verifications[n].action \in ActionIds
<1>1. verifications \in Seq(Verifications)
  BY DEF TypeOK, ActionsOK
<1>2. verifications[n] \in Verifications
  BY <1>1
<1>3. QED
  BY <1>2 DEF Verifications

\* Every step keeps the history of the actions.
LEMMA NextHistory ==
  ASSUME TypeOK, TypeOK', History, [Next]_vars
  PROVE  History'
<1>1. Contract!Honest'
  BY StepKeepsHonest DEF History
<1>2. ASSUME NEW c \in Callers, NEW l \in Lifecycles, Commit(c, l) PROVE History'
  <2> DEFINE i == calls[c].action
  <2>1. i \in ActionIds /\ lifecycle[i] \in InFlight
    BY <1>2 DEF Commit, Verifiable, TypeOK, ActionsOK
  <2>2. l \in Terminal
    BY <1>2 DEF Commit, Conclusions, Terminal
  <2>3. /\ lifecycle' = [lifecycle EXCEPT ![i] = l] /\ dispatchedAt' = dispatchedAt
        /\ lifecycle \in [ActionIds -> Lifecycles]
    BY <1>2 DEF Commit, TypeOK, ActionsOK
  <2>4. dispatchedAt[i] > 0
    BY <2>1 DEF History, Contract!Honest, Contract!InFlight, InFlight
  <2>5. PICK v : verifications' = Append(verifications, v) /\ v.action = i /\ v.lifecycle = l
    BY <1>2 DEF Commit
  <2>6. verifications \in Seq(Verifications)
    BY DEF TypeOK, ActionsOK
  <2>7. /\ DOMAIN verifications' = 1..(Len(verifications) + 1)
        /\ DOMAIN verifications = 1..Len(verifications) /\ Len(verifications) \in Nat
        /\ verifications'[Len(verifications) + 1] = v
        /\ \A n \in 1..Len(verifications) : verifications'[n] = verifications[n]
    BY <2>5, <2>6
  <2>8. \A n \in DOMAIN verifications : verifications[n].action # i
    BY <2>1 DEF History, IsTerminal, Terminal, Verified, InFlight
  <2>9. \A n \in DOMAIN verifications : verifications[n].action \in ActionIds
    BY VerifiedActions
  <2>10. \A n \in DOMAIN verifications' :
           /\ IsTerminal(lifecycle'[verifications'[n].action])
           /\ dispatchedAt'[verifications'[n].action] > 0
    BY <2>2, <2>1, <2>3, <2>4, <2>5, <2>7, <2>8, <2>9 DEF History, IsTerminal
  <2>11. \A m, n \in DOMAIN verifications' :
           verifications'[m].action = verifications'[n].action => m = n
    BY <2>5, <2>7, <2>8 DEF History, VerifiedOnce
  <2>12. ASSUME NEW j \in ActionIds, lifecycle'[j] \in Verified
         PROVE  \E n \in DOMAIN verifications' :
                  verifications'[n].action = j /\ verifications'[n].lifecycle = lifecycle'[j]
    <3>1. CASE j = i
      BY <3>1, <2>1, <2>3, <2>5, <2>7
    <3>2. CASE j # i
      <4>1. PICK n \in DOMAIN verifications :
                   verifications[n].action = j /\ verifications[n].lifecycle = lifecycle[j]
        BY <3>2, <2>1, <2>3, <2>12 DEF History, VerifiedOnce
      <4>2. QED
        BY <4>1, <3>2, <2>3, <2>7
    <3>3. QED
      BY <3>1, <3>2
  <2>13. QED
    BY <1>1, <2>10, <2>11, <2>12 DEF History, VerifiedOnce
<1>3. CASE ~ \E c \in Callers, l \in Lifecycles : Commit(c, l)
  <2>1. /\ UNCHANGED verifications
        /\ \A i \in ActionIds : lifecycle'[i] \in Verified => lifecycle'[i] = lifecycle[i]
    BY <1>3, OnlyCommitVerifies
  <2>2. \A n \in DOMAIN verifications : verifications[n].action \in ActionIds
    BY VerifiedActions
  <2>3. \A n \in DOMAIN verifications :
          /\ IsTerminal(lifecycle'[verifications[n].action])
          /\ dispatchedAt'[verifications[n].action] > 0
    BY <2>2, TerminalStaysOrSupersedes, StepKeepsDispatched DEF History, IsTerminal, Terminal
  <2>4. VerifiedOnce'
    BY <2>1 DEF History, VerifiedOnce
  <2>5. QED
    BY <1>1, <2>1, <2>3, <2>4 DEF History
<1>4. QED
  BY <1>2, <1>3

\* The history of the actions is an invariant.
THEOREM HistoryKept == Spec => []History
<1>1. Init => History
  BY DEF Init, History, VerifiedOnce, Contract!Honest, Contract!InFlight, Contract!Verified, Verified
<1>2. TypeOK /\ TypeOK' /\ History /\ [Next]_vars => History'
  BY NextHistory
<1>3. QED
  BY <1>1, <1>2, TypeCorrect, PTL DEF Spec

\* An action is verified at most once and no verdict lacks its record.
THEOREM VerifiedAtMostOnce == Spec => []VerifiedOnce
<1>1. History => VerifiedOnce
  BY DEF History
<1>2. QED
  BY <1>1, HistoryKept, PTL

\* A cancelled action never ran; what runs or was verified had been dispatched.
THEOREM CancellationIsHonest == Spec => []CancelledNeverRan
<1>1. TypeOK /\ History => CancelledNeverRan
  BY DEF TypeOK, ActionsOK, History, CancelledNeverRan, Contract!Honest, Contract!InFlight,
         Contract!Verified, InFlight, Verified
<1>2. QED
  BY <1>1, TypeCorrect, HistoryKept, PTL

(***************************************************************************)
(* Worker incarnations                                                     *)
(***************************************************************************)

\* The inductive strengthening of UsableEvidenceIsCurrent and of
\* KnownActionsDieWithTheirBoot: a worker's reading, and an action bound to it,
\* name a boot that was registered once.
Incarnations ==
  /\ \A k \in Keys : evidence[k].worker \in Workers => evidence[k].boot > 0
  /\ UsableEvidenceIsCurrent
  /\ \A i \in ActionIds :
       lifecycle[i] # "PLANNED" /\ authority[i].worker \in Workers => authority[i].boot > 0
  /\ KnownActionsDieWithTheirBoot

\* A step that creates no action makes no action live.
LEMMA LiveShrinks ==
  ASSUME TypeOK, TypeOK', [Next]_vars, UNCHANGED actionGeneration, NEW i \in ActionIds
  PROVE  /\ lifecycle'[i] \in Live => lifecycle[i] \in Live
         /\ lifecycle'[i] = "PLANNED" <=> lifecycle[i] = "PLANNED"
<1>1. lifecycle'[i] = "PLANNED" <=> lifecycle[i] = "PLANNED"
  BY BoundsAssumption DEF TypeOK, ActionsOK, ActionIds
<1>2. lifecycle[i] \in Lifecycles
  BY DEF TypeOK, ActionsOK
<1>3. IsTerminal(lifecycle[i]) => lifecycle'[i] \notin Live
  BY TerminalStaysOrSupersedes DEF IsTerminal, Terminal, Verified, Live, InFlight
<1>4. QED
  BY <1>1, <1>2, <1>3 DEF Lifecycles, IsTerminal, Live, InFlight

\* A step that touches neither boots, readings nor authorities, revalidates
\* nothing and creates no action.
LEMMA IncarnationFrame ==
  ASSUME TypeOK, TypeOK', Incarnations, [Next]_vars,
         UNCHANGED <<boot, evidence, authority, actionGeneration>>, invalidated \subseteq invalidated'
  PROVE  Incarnations'
<1>1. UsableEvidenceIsCurrent'
  BY DEF Incarnations, UsableEvidenceIsCurrent
<1>2. KnownActionsDieWithTheirBoot'
  BY LiveShrinks DEF Incarnations, KnownActionsDieWithTheirBoot
<1>3. QED
  BY <1>1, <1>2, LiveShrinks DEF Incarnations

\* An admitted reading is stored by the incarnation its worker runs under.
LEMMA StoreKeepsIncarnations ==
  ASSUME TypeOK, Incarnations, NEW d \in Domains, NEW e \in Readings,
         Admitted(e), Store(<<d, deviceGeneration[d]>>, e),
         UNCHANGED <<boot, actionVars>>
  PROVE  Incarnations'
<1>1. <<d, deviceGeneration[d]>> \in Keys
  BY DEF Keys, TypeOK, ConfigOK
<1>2. e.worker \in Workers => e.boot > 0 /\ e.boot = boot[e.worker]
  BY NamesAssumption DEF Admitted
<1>3. UNCHANGED <<lifecycle, authority, boot>>
  BY DEF actionVars
<1>4. QED
  BY <1>1, <1>2, <1>3
     DEF Incarnations, UsableEvidenceIsCurrent, KnownActionsDieWithTheirBoot, Store, TypeOK, EvidenceOK

\* A registration retires what the previous boot produced and was bound to.
LEMMA RegistrationKeepsIncarnations ==
  ASSUME TypeOK, TypeOK', Incarnations, [Next]_vars, NEW w \in Workers, NEW b \in 1..MaxBoot,
         RegisterWorker(w, b)
  PROVE  Incarnations'
<1>1. /\ UNCHANGED <<evidence, authority, actionGeneration>>
      /\ invalidated \subseteq invalidated'
  BY DEF RegisterWorker, RetireBoot, evidenceVars, actionVars
<1>2. CASE boot' = boot
  BY <1>1, <1>2, IncarnationFrame
<1>3. CASE boot' # boot
  <2>1. boot' = [boot EXCEPT ![w] = b]
    BY <1>3 DEF RegisterWorker
  <2>2. boot[w] > 0 => RetireBoot(w, boot[w])
    BY <1>3 DEF RegisterWorker
  <2>3. boot \in [Workers -> Nat] /\ \A v \in Workers \ {w} : boot'[v] = boot[v]
    BY <2>1, BoundsAssumption DEF TypeOK, WorkersOK
  <2>4. UsableEvidenceIsCurrent'
    BY <1>1, <2>2, <2>3 DEF Incarnations, UsableEvidenceIsCurrent, RetireBoot
  <2>5. ASSUME NEW i \in ActionIds, lifecycle'[i] \in Live, authority[i].provenance = "KNOWN",
               authority[i].worker = w
        PROVE  FALSE
    <3>1. lifecycle[i] \in Live
      BY <1>1, <2>5, LiveShrinks
    <3>2. authority[i].boot = boot[w] /\ boot[w] > 0
      BY <2>5, <3>1 DEF Incarnations, KnownActionsDieWithTheirBoot, Live, InFlight
    <3>3. lifecycle'[i] = "OUTCOME_UNKNOWN"
      BY <2>2, <2>5, <3>1, <3>2 DEF RetireBoot, LiveBoundTo
    <3>4. QED
      BY <2>5, <3>3 DEF Live, InFlight
  <2>6. KnownActionsDieWithTheirBoot'
    BY <1>1, <2>3, <2>5, LiveShrinks DEF Incarnations, KnownActionsDieWithTheirBoot
  <2>7. QED
    BY <1>1, <2>4, <2>6, LiveShrinks DEF Incarnations
<1>4. QED
  BY <1>2, <1>3

\* An authorisation binds the action to what is held, known only if it is usable.
LEMMA AuthorizeKeepsIncarnations ==
  ASSUME TypeOK, Incarnations, NEW d \in Domains, NEW known \in BOOLEAN, Authorize(d, known)
  PROVE  Incarnations'
<1> DEFINE i == actionGeneration + 1
<1>1. i \in ActionIds
  BY BoundsAssumption DEF Authorize, TypeOK, ActionsOK, ActionIds
<1>2. MemberKey(d) \in Keys
  BY DEF MemberKey, Keys, TypeOK, ConfigOK
<1>3. /\ authority'[i].worker = Held(d).worker /\ authority'[i].boot = Held(d).boot
      /\ authority'[i].provenance = "KNOWN" => MemberKey(d) \notin invalidated
      /\ \A j \in ActionIds \ {i} : authority'[j] = authority[j] /\ lifecycle'[j] = lifecycle[j]
      /\ UNCHANGED <<boot, evidence, invalidated>>
  BY <1>1 DEF Authorize, workerVars, evidenceVars, TypeOK, ActionsOK
<1>4. authority'[i].worker \in Workers => authority'[i].boot > 0
  BY <1>2, <1>3 DEF Incarnations, Held
<1>5. authority'[i].provenance = "KNOWN" /\ authority'[i].worker \in Workers =>
        authority'[i].boot = boot[authority'[i].worker]
  BY <1>2, <1>3 DEF Incarnations, UsableEvidenceIsCurrent, Held
<1>6. QED
  BY <1>3, <1>4, <1>5 DEF Incarnations, UsableEvidenceIsCurrent, KnownActionsDieWithTheirBoot

\* Every step keeps the incarnations apart.
LEMMA NextIncarnations ==
  ASSUME TypeOK, TypeOK', Incarnations, [Next]_vars
  PROVE  Incarnations'
<1> DEFINE F == /\ UNCHANGED <<boot, evidence, authority, actionGeneration>>
                /\ invalidated \subseteq invalidated'
<1> USE DEF workerVars, evidenceVars, actionVars, vars
<1>1. CASE Tick \/ PublishCapabilities \/ ChangeCoupling \/ BeginShutdown \/ FinishShutdown
           \/ UNCHANGED vars
  <2>1. F
    BY <1>1 DEF Tick, PublishCapabilities, ChangeCoupling, BeginShutdown, FinishShutdown
  <2>2. QED
    BY <2>1, IncarnationFrame
<1>2. ASSUME NEW d \in Domains, NEW e \in Readings, Publish(d, e) PROVE Incarnations'
  BY <1>2, StoreKeepsIncarnations DEF Publish
<1>3. ASSUME NEW w \in Workers, NEW b \in 1..MaxBoot, RegisterWorker(w, b) PROVE Incarnations'
  BY <1>3, RegistrationKeepsIncarnations
<1>4. ASSUME NEW w \in Workers, Heartbeat(w) \/ NoteWorkerDeath(w) PROVE Incarnations'
  <2>1. F
    BY <1>4 DEF Heartbeat, NoteWorkerDeath, RetireBoot
  <2>2. QED
    BY <2>1, IncarnationFrame
<1>5. ASSUME NEW p \in Policies, NEW g \in 1..MaxPolicyGeneration, SetPolicy(p, g)
      PROVE  Incarnations'
  BY <1>5, IncarnationFrame DEF SetPolicy
<1>6. ASSUME NEW d \in Domains, NEW g \in 1..MaxDeviceGeneration, RegisterDevice(d, g)
      PROVE  Incarnations'
  BY <1>6, IncarnationFrame DEF RegisterDevice
<1>7. ASSUME NEW d \in Domains, NEW g \in 1..MaxDomainGeneration,
             NEW m \in 1..MaxDeviceGeneration, UpdateDomain(d, g, m)
      PROVE  Incarnations'
  <2>1. F
    BY <1>7 DEF UpdateDomain
  <2>2. QED
    BY <2>1, IncarnationFrame
<1>8. ASSUME NEW d \in Domains, NEW known \in BOOLEAN, Authorize(d, known) PROVE Incarnations'
  BY <1>8, AuthorizeKeepsIncarnations
<1>9. ASSUME NEW i \in ActionIds, Dispatch(i) \/ Cancel(i) PROVE Incarnations'
  <2>1. F
    BY <1>9 DEF Dispatch, Cancel
  <2>2. QED
    BY <2>1, IncarnationFrame
<1>10. ASSUME NEW i \in ActionIds, NEW b \in 0..MaxBoot, NEW yes \in BOOLEAN, Ack(i, b, yes)
       PROVE  Incarnations'
  BY <1>10, IncarnationFrame DEF Ack
<1>11. ASSUME NEW i \in ActionIds, NEW b \in 0..MaxBoot, NEW g \in 1..MaxPolicyGeneration,
              NEW yes \in BOOLEAN, Result(i, b, g, yes)
       PROVE  Incarnations'
  BY <1>11, IncarnationFrame DEF Result
<1>12. ASSUME NEW c \in Callers, NEW i \in ActionIds, NEW d \in Domains, NEW e \in Readings,
              BeginVerify(c, i, d, e)
       PROVE  Incarnations'
  <2>1. Admitted(e) /\ UNCHANGED <<boot, actionVars>>
    BY <1>12 DEF BeginVerify
  <2>2. CASE Store(<<d, deviceGeneration[d]>>, e)
    BY <2>1, <2>2, StoreKeepsIncarnations
  <2>3. CASE UNCHANGED evidenceVars
    BY <2>1, <2>3, IncarnationFrame
  <2>4. QED
    BY <1>12, <2>2, <2>3 DEF BeginVerify
<1>13. ASSUME NEW c \in Callers, NEW l \in Lifecycles, Commit(c, l) PROVE Incarnations'
  BY <1>13, IncarnationFrame DEF Commit
<1>14. ASSUME NEW c \in Callers, RefuseCommit(c) PROVE Incarnations'
  BY <1>14, IncarnationFrame DEF RefuseCommit
<1>15. QED
  BY <1>1, <1>2, <1>3, <1>4, <1>5, <1>6, <1>7, <1>8, <1>9, <1>10, <1>11, <1>12, <1>13, <1>14
     DEF Next

\* The incarnation invariant.
THEOREM IncarnationsKept == Spec => []Incarnations
<1>1. Init => Incarnations
  BY NamesAssumption
     DEF Init, Incarnations, UsableEvidenceIsCurrent, KnownActionsDieWithTheirBoot, NoEvidence,
         Live, InFlight
<1>2. TypeOK /\ TypeOK' /\ Incarnations /\ [Next]_vars => Incarnations'
  BY NextIncarnations
<1>3. QED
  BY <1>1, <1>2, TypeCorrect, PTL DEF Spec

\* Evidence that is still trusted comes from its worker's registered boot.
THEOREM EvidenceIsCurrent == Spec => []UsableEvidenceIsCurrent
<1>1. Incarnations => UsableEvidenceIsCurrent
  BY DEF Incarnations
<1>2. QED
  BY <1>1, IncarnationsKept, PTL

\* No live action of known provenance outlives the boot it is bound to.
THEOREM ActionsDieWithTheirBoot == Spec => []KnownActionsDieWithTheirBoot
<1>1. Incarnations => KnownActionsDieWithTheirBoot
  BY DEF Incarnations
<1>2. QED
  BY <1>1, IncarnationsKept, PTL

(***************************************************************************)
(* Members and domain generations                                          *)
(***************************************************************************)

\* The inductive strengthening of MembersFencedByDomain: no action is ahead of
\* its domain's generation.
DomainFence ==
  /\ \A i \in ActionIds : lifecycle[i] # "PLANNED" =>
       authority[i].domainGeneration <= domainGeneration[authority[i].domain]
  /\ MembersFencedByDomain

\* A created action has an authority, and keeps it.
LEMMA CreatedAuthority ==
  ASSUME TypeOK, NEW i \in ActionIds, lifecycle[i] # "PLANNED"
  PROVE  authority[i] \in Authorities
BY BoundsAssumption DEF TypeOK, ActionsOK, ActionIds

\* A step that touches neither definitions nor authorities.
LEMMA DomainFenceFrame ==
  ASSUME TypeOK, TypeOK', DomainFence, [Next]_vars,
         UNCHANGED <<memberGeneration, domainGeneration, authority, actionGeneration>>
  PROVE  DomainFence'
BY LiveShrinks DEF DomainFence, MembersFencedByDomain

\* Every step keeps the members behind the domain generation.
LEMMA NextDomainFence ==
  ASSUME TypeOK, TypeOK', DomainFence, [Next]_vars
  PROVE  DomainFence'
<1> DEFINE F == UNCHANGED <<memberGeneration, domainGeneration, authority, actionGeneration>>
<1> USE DEF configVars, actionVars, vars
<1>1. CASE Tick \/ PublishCapabilities \/ ChangeCoupling \/ BeginShutdown \/ FinishShutdown
           \/ UNCHANGED vars
  <2>1. F
    BY <1>1 DEF Tick, PublishCapabilities, ChangeCoupling, BeginShutdown, FinishShutdown
  <2>2. QED
    BY <2>1, DomainFenceFrame
<1>2. ASSUME NEW d \in Domains, NEW e \in Readings, Publish(d, e) PROVE DomainFence'
  BY <1>2, DomainFenceFrame DEF Publish
<1>3. ASSUME NEW w \in Workers, NEW b \in 1..MaxBoot, RegisterWorker(w, b) PROVE DomainFence'
  <2>1. F
    BY <1>3 DEF RegisterWorker, RetireBoot
  <2>2. QED
    BY <2>1, DomainFenceFrame
<1>4. ASSUME NEW w \in Workers, Heartbeat(w) \/ NoteWorkerDeath(w) PROVE DomainFence'
  <2>1. F
    BY <1>4 DEF Heartbeat, NoteWorkerDeath, RetireBoot
  <2>2. QED
    BY <2>1, DomainFenceFrame
<1>5. ASSUME NEW p \in Policies, NEW g \in 1..MaxPolicyGeneration, SetPolicy(p, g)
      PROVE  DomainFence'
  BY <1>5, DomainFenceFrame DEF SetPolicy
<1>6. ASSUME NEW d \in Domains, NEW g \in 1..MaxDeviceGeneration, RegisterDevice(d, g)
      PROVE  DomainFence'
  BY <1>6, DomainFenceFrame DEF RegisterDevice
<1>7. ASSUME NEW d \in Domains, NEW g \in 1..MaxDomainGeneration,
             NEW m \in 1..MaxDeviceGeneration, UpdateDomain(d, g, m)
      PROVE  DomainFence'
  <2>1. /\ g > domainGeneration[d] /\ domainGeneration' = [domainGeneration EXCEPT ![d] = g]
        /\ memberGeneration' = [memberGeneration EXCEPT ![d] = m]
        /\ UNCHANGED <<lifecycle, authority>>
    BY <1>7 DEF UpdateDomain, AdvancesGeneration
  <2>2. ASSUME NEW i \in ActionIds, lifecycle[i] # "PLANNED"
        PROVE  /\ authority[i].domainGeneration <= domainGeneration'[authority[i].domain]
               /\ authority[i].deviceGeneration > 0 /\
                    domainGeneration'[authority[i].domain] = authority[i].domainGeneration =>
                  memberGeneration'[authority[i].domain] = authority[i].deviceGeneration
    <3>1. /\ authority[i].domain \in Domains
          /\ authority[i].domainGeneration \in Nat
          /\ domainGeneration \in [Domains -> Nat] /\ g \in Nat
          /\ memberGeneration \in [Domains -> 1..MaxDeviceGeneration]
      BY <2>2, CreatedAuthority, BoundsAssumption DEF Authorities, TypeOK, ConfigOK
    <3>2. authority[i].domainGeneration <= domainGeneration[authority[i].domain]
      BY <2>2 DEF DomainFence
    <3>3. CASE authority[i].domain = d
      BY <2>1, <3>1, <3>2, <3>3
    <3>4. CASE authority[i].domain # d
      BY <2>1, <2>2, <3>1, <3>2, <3>4 DEF DomainFence, MembersFencedByDomain
    <3>5. QED
      BY <3>3, <3>4
  <2>3. QED
    BY <2>1, <2>2 DEF DomainFence, MembersFencedByDomain
<1>8. ASSUME NEW d \in Domains, NEW known \in BOOLEAN, Authorize(d, known) PROVE DomainFence'
  <2> DEFINE i == actionGeneration + 1
  <2>1. i \in ActionIds
    BY <1>8, BoundsAssumption DEF Authorize, TypeOK, ActionsOK, ActionIds
  <2>2. /\ authority'[i].domain = d /\ authority'[i].domainGeneration = domainGeneration[d]
        /\ authority'[i].deviceGeneration \in {0, memberGeneration[d]}
        /\ \A j \in ActionIds \ {i} : authority'[j] = authority[j] /\ lifecycle'[j] = lifecycle[j]
        /\ UNCHANGED <<domainGeneration, memberGeneration>>
    BY <1>8, <2>1 DEF Authorize, TypeOK, ActionsOK
  <2>3. domainGeneration[d] \in Nat
    BY BoundsAssumption DEF TypeOK, ConfigOK
  <2>4. QED
    BY <2>2, <2>3 DEF DomainFence, MembersFencedByDomain
<1>9. ASSUME NEW i \in ActionIds, Dispatch(i) \/ Cancel(i) PROVE DomainFence'
  <2>1. F
    BY <1>9 DEF Dispatch, Cancel
  <2>2. QED
    BY <2>1, DomainFenceFrame
<1>10. ASSUME NEW i \in ActionIds, NEW b \in 0..MaxBoot, NEW yes \in BOOLEAN, Ack(i, b, yes)
       PROVE  DomainFence'
  BY <1>10, DomainFenceFrame DEF Ack
<1>11. ASSUME NEW i \in ActionIds, NEW b \in 0..MaxBoot, NEW g \in 1..MaxPolicyGeneration,
              NEW yes \in BOOLEAN, Result(i, b, g, yes)
       PROVE  DomainFence'
  BY <1>11, DomainFenceFrame DEF Result
<1>12. ASSUME NEW c \in Callers, NEW i \in ActionIds, NEW d \in Domains, NEW e \in Readings,
              BeginVerify(c, i, d, e)
       PROVE  DomainFence'
  BY <1>12, DomainFenceFrame DEF BeginVerify
<1>13. ASSUME NEW c \in Callers, NEW l \in Lifecycles, Commit(c, l) PROVE DomainFence'
  BY <1>13, DomainFenceFrame DEF Commit
<1>14. ASSUME NEW c \in Callers, RefuseCommit(c) PROVE DomainFence'
  BY <1>14, DomainFenceFrame DEF RefuseCommit
<1>15. QED
  BY <1>1, <1>2, <1>3, <1>4, <1>5, <1>6, <1>7, <1>8, <1>9, <1>10, <1>11, <1>12, <1>13, <1>14
     DEF Next

\* The domain fence stands in for the device fence.
THEOREM MembersFenced == Spec => []MembersFencedByDomain
<1>1. Init => DomainFence
  BY DEF Init, DomainFence, MembersFencedByDomain
<1>2. TypeOK /\ TypeOK' /\ DomainFence /\ [Next]_vars => DomainFence'
  BY NextDomainFence
<1>3. DomainFence => MembersFencedByDomain
  BY DEF DomainFence
<1>4. QED
  BY <1>1, <1>2, <1>3, TypeCorrect, PTL DEF Spec

(***************************************************************************)
(* Shutdown                                                                *)
(***************************************************************************)

\* The inductive strengthening of NothingProvenAfterShutdown: the reading of a
\* pending call was taken in the past, and after shutdown no later than the
\* dispatch of an action still in flight.
PendingIsOld ==
  \A c \in Callers : calls[c] # NoCall =>
    /\ calls[c].measuredAt <= now
    /\ shutdown = "stopped" /\ lifecycle[calls[c].action] \in InFlight =>
         calls[c].measuredAt <= dispatchedAt[calls[c].action]

\* A pending call names an action and a time.
LEMMA PendingType ==
  ASSUME TypeOK, NEW c \in Callers, calls[c] # NoCall
  PROVE  calls[c].action \in ActionIds /\ calls[c].measuredAt \in 1..MaxTime
BY DEF TypeOK, CallsOK, PendingCalls

\* A step that begins no call and leaves clock and shutdown alone keeps the
\* pending readings old if no action comes in flight by it.
LEMMA PendingFrame ==
  ASSUME TypeOK, PendingIsOld, UNCHANGED <<now, shutdown, dispatchedAt>>,
         \A c \in Callers : calls'[c] \in {calls[c], NoCall},
         \A i \in ActionIds : lifecycle'[i] \in InFlight => lifecycle[i] \in InFlight
  PROVE  PendingIsOld'
BY PendingType DEF PendingIsOld

\* Every step keeps the pending readings old.
LEMMA NextPending ==
  ASSUME TypeOK, PendingIsOld, [Next]_vars
  PROVE  PendingIsOld'
<1> DEFINE F == /\ UNCHANGED <<now, shutdown, dispatchedAt>>
                /\ \A c \in Callers : calls'[c] \in {calls[c], NoCall}
                /\ \A i \in ActionIds : lifecycle'[i] \in InFlight => lifecycle[i] \in InFlight
<1> USE DEF clockVars, actionVars, vars
<1>1. CASE Tick
  <2>1. now' = now + 1 /\ UNCHANGED <<shutdown, lifecycle, dispatchedAt, calls>>
    BY <1>1 DEF Tick
  <2>2. now \in Nat /\ \A c \in Callers : calls[c] # NoCall => calls[c].measuredAt \in Nat
    BY PendingType, BoundsAssumption DEF TypeOK, ClockOK
  <2>3. QED
    BY <2>1, <2>2 DEF PendingIsOld
<1>2. CASE PublishCapabilities \/ ChangeCoupling \/ UNCHANGED vars
  BY <1>2, PendingFrame DEF PublishCapabilities, ChangeCoupling
<1>3. ASSUME NEW d \in Domains, NEW e \in Readings, Publish(d, e) PROVE PendingIsOld'
  BY <1>3, PendingFrame DEF Publish
<1>4. ASSUME NEW w \in Workers, NEW b \in 1..MaxBoot, RegisterWorker(w, b) PROVE PendingIsOld'
  <2>1. F
    BY <1>4 DEF RegisterWorker, RetireBoot, InFlight
  <2>2. QED
    BY <2>1, PendingFrame
<1>5. ASSUME NEW w \in Workers, Heartbeat(w) \/ NoteWorkerDeath(w) PROVE PendingIsOld'
  <2>1. F
    BY <1>5 DEF Heartbeat, NoteWorkerDeath, RetireBoot, InFlight
  <2>2. QED
    BY <2>1, PendingFrame
<1>6. ASSUME NEW p \in Policies, NEW g \in 1..MaxPolicyGeneration, SetPolicy(p, g)
      PROVE  PendingIsOld'
  BY <1>6, PendingFrame DEF SetPolicy
<1>7. ASSUME NEW d \in Domains, NEW g \in 1..MaxDeviceGeneration, RegisterDevice(d, g)
      PROVE  PendingIsOld'
  BY <1>7, PendingFrame DEF RegisterDevice
<1>8. ASSUME NEW d \in Domains, NEW g \in 1..MaxDomainGeneration,
             NEW m \in 1..MaxDeviceGeneration, UpdateDomain(d, g, m)
      PROVE  PendingIsOld'
  BY <1>8, PendingFrame DEF UpdateDomain
<1>9. ASSUME NEW d \in Domains, NEW known \in BOOLEAN, Authorize(d, known) PROVE PendingIsOld'
  <2>1. F
    BY <1>9 DEF Authorize, InFlight, TypeOK, ActionsOK
  <2>2. QED
    BY <2>1, PendingFrame
<1>10. ASSUME NEW i \in ActionIds, Dispatch(i) PROVE PendingIsOld'
  <2>1. CASE Revalidated(i)
    <3>1. /\ lifecycle' = [lifecycle EXCEPT ![i] = "DISPATCHED"]
          /\ dispatchedAt' = [dispatchedAt EXCEPT ![i] = now]
          /\ UNCHANGED <<now, shutdown, calls>>
      BY <1>10, <2>1 DEF Dispatch
    <3>2. QED
      BY <3>1, PendingType DEF PendingIsOld, TypeOK, ActionsOK
  <2>2. CASE ~Revalidated(i)
    <3>1. F
      BY <1>10, <2>2 DEF Dispatch, InFlight, TypeOK, ActionsOK
    <3>2. QED
      BY <3>1, PendingFrame
  <2>3. QED
    BY <2>1, <2>2
<1>11. ASSUME NEW i \in ActionIds, Cancel(i) PROVE PendingIsOld'
  <2>1. F
    BY <1>11 DEF Cancel, InFlight, TypeOK, ActionsOK
  <2>2. QED
    BY <2>1, PendingFrame
<1>12. ASSUME NEW i \in ActionIds, NEW b \in 0..MaxBoot, NEW yes \in BOOLEAN, Ack(i, b, yes)
       PROVE  PendingIsOld'
  <2>1. F
    BY <1>12 DEF Ack, InFlight, TypeOK, ActionsOK
  <2>2. QED
    BY <2>1, PendingFrame
<1>13. ASSUME NEW i \in ActionIds, NEW b \in 0..MaxBoot, NEW g \in 1..MaxPolicyGeneration,
              NEW yes \in BOOLEAN, Result(i, b, g, yes)
       PROVE  PendingIsOld'
  <2>1. F
    BY <1>13 DEF Result, InFlight, TypeOK, ActionsOK
  <2>2. QED
    BY <2>1, PendingFrame
<1>14. ASSUME NEW c \in Callers, NEW i \in ActionIds, NEW d \in Domains, NEW e \in Readings,
              BeginVerify(c, i, d, e)
       PROVE  PendingIsOld'
  <2>1. /\ calls' = [calls EXCEPT ![c] = [action |-> i, measuredAt |-> e.measuredAt]]
        /\ e.measuredAt <= now /\ shutdown = "running"
        /\ UNCHANGED <<now, shutdown, lifecycle, dispatchedAt>>
    BY <1>14 DEF BeginVerify, Taken, Admitted
  <2>2. QED
    BY <2>1 DEF PendingIsOld, TypeOK, CallsOK
<1>15. ASSUME NEW c \in Callers, NEW l \in Lifecycles, Commit(c, l) PROVE PendingIsOld'
  <2>1. F
    BY <1>15 DEF Commit, Conclusions, InFlight, Verified, TypeOK, ActionsOK, CallsOK
  <2>2. QED
    BY <2>1, PendingFrame
<1>16. ASSUME NEW c \in Callers, RefuseCommit(c) PROVE PendingIsOld'
  <2>1. F
    BY <1>16 DEF RefuseCommit, TypeOK, CallsOK
  <2>2. QED
    BY <2>1, PendingFrame
<1>17. CASE BeginShutdown
  BY <1>17 DEF BeginShutdown, PendingIsOld
<1>18. CASE FinishShutdown
  <2>1. \A i \in ActionIds : lifecycle'[i] \notin InFlight
    BY <1>18 DEF FinishShutdown, Classified, InFlight
  <2>2. UNCHANGED <<now, dispatchedAt, calls>>
    BY <1>18 DEF FinishShutdown
  <2>3. QED
    BY <2>1, <2>2, PendingType DEF PendingIsOld
<1>19. QED
  BY <1>1, <1>2, <1>3, <1>4, <1>5, <1>6, <1>7, <1>8, <1>9, <1>10, <1>11, <1>12, <1>13, <1>14,
     <1>15, <1>16, <1>17, <1>18 DEF Next

\* A verify_action call that published before shutdown commits nothing after it.
THEOREM ShutdownEndsVerification == Spec => NothingProvenAfterShutdown
<1>1. Init => PendingIsOld
  BY DEF Init, PendingIsOld
<1>2. TypeOK /\ PendingIsOld /\ [Next]_vars => PendingIsOld'
  BY NextPending
<1>3. TypeOK /\ PendingIsOld /\ [Next]_vars =>
        [shutdown = "stopped" => verifications' = verifications]_vars
  <2>1. ASSUME TypeOK, PendingIsOld, shutdown = "stopped",
               NEW c \in Callers, NEW l \in Lifecycles, Commit(c, l)
        PROVE  FALSE
    <3>1. /\ calls[c] # NoCall /\ lifecycle[calls[c].action] \in InFlight
          /\ calls[c].measuredAt > dispatchedAt[calls[c].action]
      BY <2>1 DEF Commit, Verifiable, Proves
    <3>2. calls[c].measuredAt <= dispatchedAt[calls[c].action]
      BY <2>1, <3>1 DEF PendingIsOld
    <3>3. /\ calls[c].measuredAt \in Nat
          /\ dispatchedAt[calls[c].action] \in Nat
      BY <2>1, <3>1, PendingType, BoundsAssumption DEF TypeOK, ActionsOK
    <3>4. QED
      BY <3>1, <3>2, <3>3
  <2>2. QED
    BY <2>1, OnlyCommitVerifies
<1>4. QED
  BY <1>1, <1>2, <1>3, TypeCorrect, PTL DEF Spec, NothingProvenAfterShutdown

=============================================================================
