------------------------ MODULE MCDomainEvaluation ------------------------
(* Finite instances of DomainEvaluation for TLC. *)
EXTENDS DomainEvaluation, TLC

CONSTANTS a, b, w1

\* Bands: normal below 3, warm 3, near limit 4, derated 5 and 6, critical from 7;
\* recovery below 2.
MCPolicy ==
  [warning |-> 3, derating |-> 5, critical |-> 7, recovery |-> 2, nearLimitBand |-> 1,
   safetyMargin |-> 1, uncertaintyMargin |-> 0, recoveryMargin |-> 0, minHeadroom |-> 1,
   maxAge |-> 1, minSpan |-> 1, depth |-> 2, requiredSamples |-> 2, minWitnesses |-> 0,
   coDerate |-> TRUE, escalate |-> FALSE, denyAll |-> TRUE, deratedAdmission |-> FALSE,
   deferAllowed |-> TRUE, requireNoThrottle |-> TRUE, requireHeadroom |-> TRUE,
   requireSameBoot |-> TRUE, requireExplicit |-> FALSE,
   unknownBehavior |-> "UNKNOWN", unsupportedBehavior |-> "UNSUPPORTED",
   ceiling |-> [NORMAL |-> 100, WARM |-> 100, NEAR_LIMIT |-> 75, DERATED |-> 50, CRITICAL |-> 0],
   workload |-> [LOW_THERMAL_INTENSITY |-> [allowed |-> TRUE, class |-> "UNRESTRICTED", demand |-> 0],
                 UNKNOWN_PROFILE |-> [allowed |-> TRUE, class |-> "REDUCED_CONCURRENCY", demand |-> 1]]]

\* The same policy with recovery authorised explicitly.
MCExplicitPolicy == [MCPolicy EXCEPT !.requireExplicit = TRUE]

\* The same policy without a span, evidence being fresh in the instant it is measured.
MCEagerPolicy == [MCPolicy EXCEPT !.maxAge = 0, !.minSpan = 0]

Supported == [temperature |-> "SUPPORTED", throttle |-> "SUPPORTED"]
MCSupported == {Supported}
MCCapabilities == {Supported, [temperature |-> "UNKNOWN", throttle |-> "SUPPORTED"]}

MCRequests ==
  [profile : {"LOW_THERMAL_INTENSITY", "UNKNOWN_PROFILE", "CUSTOM"}, concurrency : {0, 80},
   class : {"UNRESTRICTED", "REDUCED_CLOCK"}]

NoLimit == [device \in Devices |-> Policy.critical]

\* One domain of one device.
OneMember == 1 :> <<a>>
\* One domain of two devices.
TwoMembers == 1 :> <<a, b>>
\* Two domains, the second device a member of both.
SharedMember == 1 :> <<a, b>> @@ 2 :> <<b>>
SameWorker == [device \in Devices |-> w1]

NoCouplings == {}
BothWays == {<<1, 2>>, <<2, 1>>}
===========================================================================
