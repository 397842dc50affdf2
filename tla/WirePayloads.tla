----------------------------- MODULE WirePayloads -----------------------------
(***************************************************************************)
(* The payloads of the frames between coordinator, workers and command     *)
(* line clients (src/src/wire.cpp): for each of them the layout the        *)
(* encoder writes and the layout the decoder reads.                        *)
(***************************************************************************)
EXTENDS BinaryCodec

CONSTANTS
  Capabilities,   \* kThermalCapabilityCount
  MaxString, MaxDevices, MaxIntents,   \* WireLimits
  MaxCollection   \* kMaxCollection

ASSUME WireAssumption ==
  /\ Capabilities \in Nat
  /\ {MaxString, MaxDevices, MaxIntents, MaxCollection} \subseteq 0..(Beyond - 1)

\* enumerator counts the decoders compare with
Provenances == 4
Sources == 10
Integrities == 3
ThrottleClasses == 5
CapabilityStates == 5
SubjectKinds == 6
Intents == 12
Lifecycles == 13
ThermalStates == 9
Deratings == 10
Decisions == 7

-----------------------------------------------------------------------------
(* Shared parts *)

CapabilitySetWritten ==
  Alternating(Capabilities, Number(1), AnyText) \o Words(1)

\* Mutation: the generation is read before the states, as in a durable record.
GenerationFirst ==
  Words(1) \o Alternating(Capabilities, Enum(CapabilityStates), Text(MaxString))

CapabilitySetRead ==
  Alternating(Capabilities, Enum(CapabilityStates), Text(MaxString)) \o Words(1)

SubjectWritten == <<Number(1)>> \o Words(10)
SubjectRead(kind) == <<kind>> \o Words(10)

-----------------------------------------------------------------------------
(* Workers to the coordinator *)

OfferWritten == Words(6) \o <<AnyText, Number(1)>> \o CapabilitySetWritten
OfferRead == Words(6) \o <<Text(MaxString), Enum(Provenances)>> \o CapabilitySetRead

RegistrationWritten == Words(2) \o <<AnyText>> \o Words(1) \o <<AnyMany(OfferWritten)>>
RegistrationRead == Words(2) \o <<Text(MaxString)>> \o Words(1) \o <<Many(MaxDevices, OfferRead)>>

ThrottleWritten == <<Number(8), Number(1)>>
ThrottleRead == <<Number(8), Enum(ThrottleClasses)>>

CoolingWritten == Words(1) \o Times(4, Maybe(Number(8))) \o <<Maybe(Number(8)), Number(1)>>
CoolingRead == Words(1) \o Times(4, Maybe(Checked)) \o <<Maybe(Number(8)), Enum(Provenances)>>

FanWritten == <<Number(4), Maybe(Number(8)), Maybe(Number(4)), Number(1)>>
FanRead == <<Number(4), Maybe(Number(8)), Maybe(Number(4)), Enum(Provenances)>>

\* The throttle, the two limits, the two clocks, cooling, fan and confidence.
EvidenceWritten ==
  Words(1) \o SubjectWritten \o Words(2) \o Reals(1) \o <<Number(1), Number(1)>> \o Words(9) \o
  <<Number(1), Optional(ThrottleWritten), Maybe(Number(8)), Maybe(Number(8)), Maybe(Number(4)), Maybe(Number(4)),
    Optional(CoolingWritten), Optional(FanWritten), Maybe(Number(8))>>
EvidenceRead ==
  Words(1) \o SubjectRead(EnumOrReturn(SubjectKinds)) \o Words(2) \o <<Checked>> \o
  <<Enum(Sources), Enum(Provenances)>> \o Words(9) \o
  <<Enum(Integrities), Optional(ThrottleRead), Maybe(Checked), Maybe(Checked), Maybe(Number(4)), Maybe(Number(4)),
    Optional(CoolingRead), Optional(FanRead), Maybe(Number(8))>>

AckWritten == Words(6) \o <<Number(1), AnyText>>
AckRead == Words(6) \o <<Strict, Text(MaxString)>>

ResultWritten == Words(8) \o <<Number(1), AnyText>>
ResultRead == Words(8) \o <<Strict, Text(MaxString)>>

-----------------------------------------------------------------------------
(* The coordinator to workers and clients *)

ActionWritten ==
  Words(15) \o <<Number(1), Number(1), Number(1),
                 Maybe(Number(4)), Maybe(Number(8)), Maybe(Number(8)), AnyText>>
ActionRead ==
  Words(15) \o <<Enum(Intents), Enum(Lifecycles), Enum(Provenances),
                 Maybe(Number(4)), Maybe(Checked), Maybe(Checked), Text(MaxString)>>

SummaryWritten ==
  Words(4) \o Times(5, Number(1)) \o Reals(3) \o Reals(1) \o <<Number(1), Number(4), Number(4)>> \o Words(3) \o
  <<AnyMany(<<Number(1)>>), AnyMany(<<Number(2)>>)>>
SummaryRead ==
  Words(4) \o <<Enum(ThermalStates), Enum(Deratings), Enum(Decisions), Enum(ThrottleClasses), Enum(Provenances)>> \o
  Times(3, Checked) \o Reals(1) \o <<Strict, Number(4), Number(4)>> \o Words(3) \o
  <<Many(MaxIntents, <<Enum(Intents)>>), Many(MaxIntents, <<Number(2)>>)>>

StatusWritten == <<Number(4), AnyText>>
StatusRead == <<Number(4), Text(MaxString)>>

ResponseWritten == StatusWritten \o <<AnyText>>
ResponseRead == StatusRead \o <<Text(MaxCollection)>>

-----------------------------------------------------------------------------
(* Command line clients to the coordinator *)

CommandWritten == <<AnyText, AnyMany(<<AnyText>>), AnyText>>
CommandRead == <<Text(MaxString), Many(MaxIntents, <<Text(MaxString)>>), Text(MaxCollection)>>

-----------------------------------------------------------------------------

Payloads ==
  {"registration", "evidence", "action", "ack", "result", "summary", "status", "command", "response"}

Written ==
  [registration |-> RegistrationWritten, evidence |-> EvidenceWritten, action |-> ActionWritten,
   ack |-> AckWritten, result |-> ResultWritten, summary |-> SummaryWritten,
   status |-> StatusWritten, command |-> CommandWritten, response |-> ResponseWritten]

Wanted ==
  [registration |-> RegistrationRead, evidence |-> EvidenceRead, action |-> ActionRead,
   ack |-> AckRead, result |-> ResultRead, summary |-> SummaryRead,
   status |-> StatusRead, command |-> CommandRead, response |-> ResponseRead]
===============================================================================
