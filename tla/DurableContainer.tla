---------------------------- MODULE DurableContainer ----------------------------
(***************************************************************************)
(* The durable container: encode_durable_state and decode_durable_state    *)
(* with the codecs of its records (src/src/persistence.cpp).  DurableStore *)
(* writes and reads whole containers; here is what is in one.              *)
(***************************************************************************)
EXTENDS WirePayloads

CONSTANTS
  MaxFile, MaxRecords, MaxRecord, MaxText, \* PersistenceLimits: of the container, its records, one record, one string
  MaxRestrictions,                         \* of a policy
  Most                                     \* PersistenceLimits: entries of each kind

Kinds == {"policies", "devices", "domains", "couplings", "transitions", "actions", "verifications"}

ASSUME ContainerAssumption ==
  /\ {MaxFile, MaxRecords, MaxRecord, MaxText, MaxRestrictions} \subseteq 0..(Beyond - 1)
  /\ Most \in [Kinds -> 0..(Beyond - 1)]

-----------------------------------------------------------------------------
(* Records *)

CoordinatorWritten == <<Number(4)>> \o Words(5)
CoordinatorRead == CoordinatorWritten

RestrictionWritten == Times(3, Number(1)) \o Reals(1)
RestrictionRead == <<Enum(6), Strict, Enum(4)>> \o Reals(1)

PolicyWritten ==
  Words(2) \o <<AnyText>> \o Reals(4) \o Reals(4) \o <<Number(8), Number(4), Number(8), Number(4)>> \o
  Times(8, Number(1)) \o                                      \* recovery
  <<Number(1)>> \o Reals(1) \o <<Number(4)>> \o               \* verification
  Reals(1) \o Times(2, Number(1)) \o Reals(5) \o              \* admission, concurrency
  Times(4, Number(1)) \o                                      \* emergency
  <<Number(1), Number(4), Number(1), Number(1)>> \o           \* coupling
  <<Number(1), Number(1), Number(4), AnyMany(RestrictionWritten)>>
PolicyRead ==
  Words(2) \o <<Text(MaxText)>> \o Times(4, Checked) \o Reals(4) \o
  <<Number(8), Number(4), Number(8), Number(4)>> \o
  Times(8, Flag) \o
  <<Flag>> \o Reals(1) \o <<Number(4)>> \o
  Reals(1) \o Times(2, Flag) \o Reals(5) \o
  Times(4, Flag) \o
  <<Flag, Number(4), Flag, Flag>> \o
  <<Enum(5), Enum(4), Number(4), Many(MaxRestrictions, RestrictionRead)>>

DeviceWritten ==
  Words(6) \o <<AnyText, Number(1)>> \o Words(1) \o Alternating(Capabilities, Number(1), AnyText)

DeviceRead ==
  Words(6) \o <<Text(MaxText), Enum(Provenances)>> \o Words(1) \o
  Alternating(Capabilities, Enum(CapabilityStates), Text(MaxText))

MemberWritten == SubjectWritten \o Reals(1)
MemberRead == SubjectRead(Enum(SubjectKinds)) \o Reals(1)

DomainWritten ==
  Words(2) \o <<Number(1), AnyText, AnyMany(MemberWritten), Maybe(Number(8)), AnyMany(Words(1))>> \o
  Words(2) \o <<Number(1), AnyText, Number(1)>> \o Words(3) \o <<Maybe(Number(8))>>
DomainRead ==
  Words(2) \o
  <<Enum(7), Text(MaxText), Many(Most["domains"], MemberRead), Maybe(Number(8)),
    Many(Most["domains"], Words(1))>> \o
  Words(2) \o <<Enum(Provenances), Text(MaxText), Enum(4)>> \o Words(3) \o <<Maybe(Number(8))>>

CouplingWritten ==
  Words(3) \o <<Number(1)>> \o Words(1) \o <<Number(1), AnyText>> \o Reals(1) \o <<Number(1), Number(1)>>
\* The flag says whether the relation had an expiry; it is restored without.
CouplingRead ==
  Words(3) \o <<Enum(7)>> \o Words(1) \o <<Enum(Provenances), Text(MaxText)>> \o Reals(1) \o
  <<Strict, Forgotten(2)>>

TransitionWritten == Words(2) \o Times(5, Number(1)) \o Reals(1) \o Words(4)
TransitionRead ==
  Words(2) \o <<Enum(ThermalStates), Enum(ThermalStates), Enum(Deratings), Enum(Deratings), Enum(Decisions)>> \o
  <<Checked>> \o Words(4)

StoredActionWritten == ActionWritten \o Words(2) \o <<Maybe(Number(8)), AnyText>>
StoredActionRead ==
  Words(15) \o <<Enum(Intents), Enum(Lifecycles), Enum(Provenances),
                 Maybe(Number(4)), Maybe(Checked), Maybe(Checked), Text(MaxText)>> \o
  Words(2) \o <<Maybe(Number(8)), Text(MaxText)>>

VerificationWritten ==
  Words(2) \o Times(2, Number(1)) \o Reals(2) \o Reals(3) \o Times(4, Number(1)) \o Times(3, Number(1)) \o Words(3)
VerificationRead ==
  Words(2) \o <<Enum(10), Enum(Lifecycles)>> \o Times(2, Checked) \o Reals(3) \o
  <<Enum(ThermalStates), Enum(ThermalStates), Enum(Deratings), Enum(Deratings)>> \o Times(3, Flag) \o Words(3)

RecordWritten ==
  [policies |-> PolicyWritten, devices |-> DeviceWritten, domains |-> DomainWritten,
   couplings |-> CouplingWritten, transitions |-> TransitionWritten, actions |-> StoredActionWritten,
   verifications |-> VerificationWritten]
RecordRead ==
  [policies |-> PolicyRead, devices |-> DeviceRead, domains |-> DomainRead,
   couplings |-> CouplingRead, transitions |-> TransitionRead, actions |-> StoredActionRead,
   verifications |-> VerificationRead]

\* PersistenceRecordType.  Type 8, an operator's configuration, is read and
\* dropped, and never written.
CoordinatorType == 1
ConfigType == 8
TypeOf ==
  [policies |-> 2, domains |-> 3, couplings |-> 4, transitions |-> 5, actions |-> 6,
   verifications |-> 7, devices |-> 9]

-----------------------------------------------------------------------------
(* Writing *)

Magic == <<84, 79, 71, 86, 80, 69, 82, 83>>
FormatVersion == 1
HeaderSize == 36
TrailerSize == 4

Record(type, payload) ==
  LET covered == Digits(type, 2) \o Digits(0, 2) \o Digits(Len(payload), 4) \o payload
  IN covered \o Checksum(covered)

Header(version, records, length) ==
  LET covered == Magic \o Digits(version, 4) \o Digits(0, 4) \o Digits(records, 8) \o Digits(length, 8)
  IN covered \o Checksum(covered)

Container(version, records, body) == Header(version, records, Len(body)) \o body \o Checksum(body)

\* The order in which encode_durable_state goes through the kinds.
Order == <<"policies", "devices", "domains", "couplings", "transitions", "actions", "verifications">>

RecordsOf(s) ==
  <<[type |-> CoordinatorType, payload |-> Encoded(CoordinatorWritten, s["coordinator"])]>> \o
  FlattenSeq([k \in DOMAIN Order |->
    LET kind == Order[k]
    IN [i \in DOMAIN s[kind] |->
          [type |-> TypeOf[kind], payload |-> Encoded(RecordWritten[kind], s[kind][i])]]])

Sealed(records) == FlattenSeq([i \in DOMAIN records |-> Record(records[i].type, records[i].payload)])

\* encode_durable_state; empty when it refuses.
EncodedState(s) ==
  LET records == RecordsOf(s)
      body == Sealed(records)
      fits == /\ \A kind \in Kinds : Len(s[kind]) <= Most[kind]
              /\ \A i \in DOMAIN records : Len(records[i].payload) <= MaxRecord
              /\ Len(body) <= MaxFile
  IN IF fits THEN Container(FormatVersion, Len(records), body) ELSE <<>>

-----------------------------------------------------------------------------
(* Reading *)

Nothing ==
  [k \in Kinds \cup {"coordinator"} |->
     IF k = "coordinator" THEN <<Digits(FormatVersion, 4)>> \o Times(5, Digits(0, 8)) ELSE <<>>]
Refused == [accepted |-> FALSE, at |-> 0, state |-> Nothing]

\* Transitions and verifications have no identity that could be repeated.
Identified == Kinds \ {"transitions", "verifications"}

\* Mutation: an identity may be repeated.
NeverRepeated(state, kind, id) == FALSE

Repeated(state, kind, id) == kind \in Identified /\ \E i \in DOMAIN state[kind] : state[kind][i][1] = id

KindOf(type) == CHOOSE k \in Kinds : TypeOf[k] = type

\* What has been read up to at, and the record before it.
Accepted(at, state) == [accepted |-> TRUE, at |-> at, state |-> state]

CoordinatorAdded(at, state, d) ==
  IF d.accepted /\ d.value[1] = Digits(FormatVersion, 4)
  THEN Accepted(at, [state EXCEPT !["coordinator"] = d.value])
  ELSE Refused

KindAdded(at, state, kind, d) ==
  IF Len(state[kind]) < Most[kind] /\ d.accepted /\ ~Repeated(state, kind, d.value[1])
  THEN Accepted(at, [state EXCEPT ![kind] = Append(@, d.value)])
  ELSE Refused

Added(at, state, type, payload) ==
  IF type = ConfigType
  THEN IF Decoded(<<Text(MaxText)>>, payload).accepted THEN Accepted(at, state) ELSE Refused
  ELSE IF type = CoordinatorType THEN CoordinatorAdded(at, state, Decoded(CoordinatorRead, payload))
  ELSE KindAdded(at, state, KindOf(type), Decoded(RecordRead[KindOf(type)], payload))

\* One round of the loop over the declared records.
AfterRecord(body, q) ==
  LET type == Size(SubSeq(body, q.at + 1, q.at + 2))
      length == Size(SubSeq(body, q.at + 5, q.at + 8))
      end == q.at + 8 + length
  IN IF ~q.accepted THEN q
     ELSE IF /\ q.at + 8 <= Len(body)
             /\ length <= MaxRecord /\ type \in 1..9
             /\ end + TrailerSize <= Len(body)
             /\ Checksum(SubSeq(body, q.at + 1, end)) = SubSeq(body, end + 1, end + TrailerSize)
          THEN Added(end + TrailerSize, q.state, type, SubSeq(body, q.at + 9, end))
          ELSE Refused

\* The body must end with the last of them.
Ended(body, q) == IF q.accepted /\ q.at = Len(body) THEN q ELSE Refused

ReadRecords(body, records) ==
  LET after[i \in 0..records] == IF i = 0 THEN Accepted(0, Nothing) ELSE AfterRecord(body, after[i - 1])
  IN Ended(body, after[records])

\* Mutation: the header is taken as it is.
HeaderTrusted(bytes) == TRUE

HeaderIntact(bytes) == Checksum(SubSeq(bytes, 1, 32)) = SubSeq(bytes, 33, HeaderSize)

\* decode_durable_state
DecodedState(bytes) ==
  LET records == Size(SubSeq(bytes, 17, 24))
      length == Size(SubSeq(bytes, 25, 32))
      body == SubSeq(bytes, HeaderSize + 1, HeaderSize + length)
  IN IF /\ Len(bytes) <= MaxFile /\ Len(bytes) >= HeaderSize + TrailerSize
        /\ SubSeq(bytes, 1, 8) = Magic /\ SubSeq(bytes, 9, 12) = Digits(FormatVersion, 4)
        /\ HeaderIntact(bytes)
        /\ records <= MaxRecords /\ length <= MaxFile
        /\ Len(bytes) = HeaderSize + length + TrailerSize
        /\ Checksum(body) = SubSeq(bytes, HeaderSize + length + 1, Len(bytes))
     THEN ReadRecords(body, records)
     ELSE Refused
===============================================================================
