--------------------------- MODULE ActionLifecycle ---------------------------
(***************************************************************************)
(* The lifecycle positions of a thermal mitigation action and the          *)
(* predicates the runtime asks about them (include/thermal_governor/       *)
(* action.hpp).  PLANNED is the record's default value; every record the   *)
(* runtime stores is created AUTHORIZED, so here "PLANNED" also stands for *)
(* an identifier no record has been created for yet.                       *)
(***************************************************************************)

InFlight == {"DISPATCHED", "ACKNOWLEDGED", "VERIFYING"}

Live == {"AUTHORIZED"} \cup InFlight

\* The positions thermal_governor::verify_action can conclude with while the
\* policy generation stands.
Verified == {"EFFECTIVE", "PARTIALLY_EFFECTIVE", "INEFFECTIVE", "WORSENED"}

Terminal == Verified \cup {"FAILED", "SUPERSEDED", "CANCELLED", "OUTCOME_UNKNOWN"}

Lifecycles == {"PLANNED"} \cup Live \cup Terminal

\* is_terminal
IsTerminal(l) == l \in Terminal

\* Mutation: actions waiting for verification are left to it.
ClassifiedUnlessVerifying(l) ==
  IF l = "AUTHORIZED" THEN "CANCELLED"
  ELSE IF l \in InFlight \ {"VERIFYING"} THEN "OUTCOME_UNKNOWN" ELSE l

Classified(l) ==
  IF l = "AUTHORIZED" THEN "CANCELLED" ELSE IF l \in InFlight THEN "OUTCOME_UNKNOWN" ELSE l

=============================================================================
