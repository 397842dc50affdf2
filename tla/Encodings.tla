------------------------------- MODULE Encodings -------------------------------
(***************************************************************************)
(* What is written is what is read.  A value is written to a frame's       *)
(* payload (encode_ functions of src/src/wire.cpp) or a state to a durable *)
(* file (encode_durable_state of src/src/persistence.cpp); on the way one  *)
(* byte may be changed, the end cut off or a byte added; then the decoder  *)
(* reads it.  A file may also be a container whose checksums are right and *)
(* which encode_durable_state did not write.                               *)
(***************************************************************************)
EXTENDS DurableContainer

CONSTANTS
  Messages,      \* for each payload: the values that are sent
  States,        \* the states that are saved
  HandWritten,   \* containers made by something else: [records, declared, version]
  Alterations    \* the bytes a byte may become

\* A state as the governor hands it over: no two policies, devices, domains,
\* couplings or actions have one identity (they are kept in maps), and a file
\* within its limit has room for fewer records than a container may declare.
Storable(s) ==
  /\ DOMAIN s = Kinds \cup {"coordinator"}
  /\ IsValue(CoordinatorRead, s["coordinator"]) /\ s["coordinator"][1] = Digits(FormatVersion, 4)
  /\ \A k \in Kinds :
       /\ Len(s[k]) \in Nat /\ s[k] = [i \in 1..Len(s[k]) |-> s[k][i]]
       /\ \A i \in 1..Len(s[k]) : IsValue(RecordRead[k], s[k][i])
       /\ k \in Identified => \A i, j \in 1..Len(s[k]) : i # j => s[k][i][1] # s[k][j][1]
  /\ EncodedState(s) # <<>> => Len(RecordsOf(s)) <= MaxRecords

\* A payload is whole: one value of its type's layout, and nothing after it.
Whole(type, payload) ==
  IF type = CoordinatorType
  THEN LET d == Decoded(CoordinatorRead, payload)
       IN d.accepted /\ d.value[1] = Digits(FormatVersion, 4)
  ELSE Decoded(IF type = ConfigType THEN <<Text(MaxText)>> ELSE RecordRead[KindOf(type)], payload).accepted

HandRecords == [type : {n \in Nat : n < 65536}, payload : Seq(Byte), whole : BOOLEAN]

ASSUME EncodingsAssumption ==
  /\ \A k \in Payloads : \A v \in Messages[k] : IsValue(Wanted[k], v)
  /\ \A s \in States : Storable(s)
  /\ \A c \in HandWritten :
       /\ c.records \in Seq(HandRecords) /\ \A n \in {c.declared, c.version, Len(Sealed(c.records))} : n \in Nat /\ Fits(n)
       /\ \A i \in DOMAIN c.records :
            LET r == c.records[i] IN r.type \in 1..9 => (r.whole <=> Whole(r.type, r.payload))
  /\ Alterations \subseteq Byte

VARIABLES
  medium,    \* "none", "payload" or "file"
  origin,    \* what was written
  bytes,
  damaged,   \* something happened to the bytes
  outcome    \* what the decoder made of them

evars == <<medium, origin, bytes, damaged, outcome>>

EInit ==
  /\ medium = "none" /\ origin = [by |-> "nobody"] /\ bytes = <<>>
  /\ damaged = FALSE /\ outcome = [read |-> FALSE]

\* What a restart makes of a state: no coupling has an expiry.
Restored(s) ==
  [s EXCEPT !["couplings"] = [i \in DOMAIN @ |-> [@[i] EXCEPT ![Len(CouplingRead)] = <<0>>]]]

-----------------------------------------------------------------------------
(* Steps *)

Write(m, o, b) ==
  /\ medium = "none"
  /\ medium' = m /\ origin' = o /\ bytes' = b
  /\ UNCHANGED <<damaged, outcome>>

Send(kind, value) ==
  Write("payload", [by |-> "sender", kind |-> kind, value |-> value], Encoded(Written[kind], value))

\* A state beyond the limits is not saved.
Save(s) ==
  /\ medium = "none" /\ EncodedState(s) # <<>>
  /\ Write("file", [by |-> "store", state |-> s], EncodedState(s))

SaveByHand(c) ==
  Write("file", [by |-> "hand", container |-> c], Container(c.version, c.declared, Sealed(c.records)))

OnItsWay == medium # "none" /\ ~damaged /\ ~outcome.read /\ origin.by # "hand"

Damage(b) ==
  /\ OnItsWay /\ b # bytes
  /\ bytes' = b /\ damaged' = TRUE
  /\ UNCHANGED <<medium, origin, outcome>>

Change(i, v) == Damage([bytes EXCEPT ![i] = v])
Cut(n) == Damage(SubSeq(bytes, 1, n))
Extend(v) == Damage(Append(bytes, v))

Received(d) == [read |-> TRUE, accepted |-> d.accepted, value |-> d.value, returned |-> d.returned]
Loaded(d) == [read |-> TRUE, accepted |-> d.accepted, state |-> d.state]

Receive ==
  /\ medium = "payload" /\ ~outcome.read
  /\ outcome' = Received(Decoded(Wanted[origin.kind], bytes))
  /\ UNCHANGED <<medium, origin, bytes, damaged>>

Load ==
  /\ medium = "file" /\ ~outcome.read
  /\ outcome' = Loaded(DecodedState(bytes))
  /\ UNCHANGED <<medium, origin, bytes, damaged>>

ENext ==
  \/ \E k \in Payloads : \E v \in Messages[k] : Send(k, v)
  \/ \E s \in States : Save(s)
  \/ \E c \in HandWritten : SaveByHand(c)
  \/ OnItsWay /\ \E i \in DOMAIN bytes : (\E v \in Alterations : Change(i, v)) \/ Cut(i - 1)
  \/ OnItsWay /\ \E v \in Alterations : Extend(v)
  \/ Receive
  \/ Load

ESpec == EInit /\ [][ENext]_evars

-----------------------------------------------------------------------------
(* Properties *)

Undamaged(writer) == outcome.read /\ ~damaged /\ origin.by = writer

\* What was written undamaged is accepted and is the same value: encoders and
\* decoders agree on every field.  Two things are not covered.  The encoder bounds
\* the body and the decoder the whole file, so a state may be saved that is too
\* long, by up to header and trailer, to be loaded: excepted here.  And no encoder
\* looks at the lengths of strings, which the decoders bound: EncodingsAssumption
\* keeps longer ones out.
WrittenIsRead ==
  /\ Undamaged("sender") => outcome.accepted /\ outcome.value = origin.value
  /\ Undamaged("store") =>
       \/ outcome.accepted /\ outcome.state = Restored(origin.state)
       \/ Len(bytes) > MaxFile /\ Len(bytes) <= MaxFile + HeaderSize + TrailerSize

\* A durable file in which a byte has changed, that was cut short or that goes
\* on after its end is refused, wherever the damage is: reserved fields,
\* lengths and the checksums themselves included.
DamagedFileIsRefused ==
  outcome.read /\ damaged /\ medium = "file" => ~outcome.accepted

\* The decoders of payloads pass over nothing: whatever reached one, the value
\* it accepts is written with exactly these bytes.  (Not for read_evidence,
\* which returns without failing on a subject of an unknown kind, and so
\* accepts a payload that ends there.)
NothingIsPassedOver ==
  outcome.read /\ medium = "payload" =>
    (outcome.accepted /\ ~outcome.returned => Encoded(Written[origin.kind], outcome.value) = bytes)

\* The records of a type that have an identity begin with it, a u64.
SameIdentity(r, q) ==
  /\ r.type = q.type /\ r.type \in {TypeOf[k] : k \in Identified}
  /\ SubSeq(r.payload, 1, 8) = SubSeq(q.payload, 1, 8)

\* The containers that are in order although encode_durable_state did not write
\* them: of this version, with the records the header declares, whole payloads
\* of known types, no identity twice and nothing beyond a limit.
InOrder(c) ==
  /\ c.version = FormatVersion /\ c.declared = Len(c.records)
  /\ \A i \in DOMAIN c.records : c.records[i].type \in 1..9 /\ c.records[i].whole
  /\ \A i, j \in DOMAIN c.records : i # j => ~SameIdentity(c.records[i], c.records[j])
  /\ c.declared <= MaxRecords
  /\ \A i \in DOMAIN c.records : Len(c.records[i].payload) <= MaxRecord
  /\ \A k \in Kinds : Cardinality({i \in DOMAIN c.records : c.records[i].type = TypeOf[k]}) <= Most[k]
  /\ HeaderSize + Len(Sealed(c.records)) + TrailerSize <= MaxFile

\* decode_durable_state accepts these and no others.
OthersWorkIsJudged ==
  Undamaged("hand") => (outcome.accepted <=> InOrder(origin.container))
================================================================================
