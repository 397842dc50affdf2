------------------------------ MODULE BinaryCodec ------------------------------
(***************************************************************************)
(* BinaryWriter and BinaryReader (src/src/binary.hpp), which the wire and  *)
(* the durable encodings share.  A layout is the sequence of fields a      *)
(* write_ or read_ function goes through.  The value of a layout is the    *)
(* sequence of its fields' values; an integer of w bytes is kept as its w  *)
(* digits in base 256, the least significant first, because TLC's own      *)
(* integers have 32 bits.                                                  *)
(*                                                                         *)
(* No layout of the code is nested deeper than this: a plain field; a      *)
(* plain field that may be absent; and parts of a layout, absent or        *)
(* present, or a list of them, that consist of the former two.             *)
(***************************************************************************)
EXTENDS Bytes, SequencesExt

-----------------------------------------------------------------------------
(* Fields *)

Number(w) == [kind |-> "number", width |-> w]       \* u8 ... u64, i64, a double that is not checked
Checked == [kind |-> "checked"]                     \* a double that goes through try_from
Enum(n) == [kind |-> "enum", bound |-> n]           \* a byte that must be below n
EnumOrReturn(n) == [kind |-> "return", bound |-> n] \* likewise, but read_evidence returns without failing
Flag == [kind |-> "flag"]                           \* a byte compared with zero
Forgotten(n) == [kind |-> "forgotten", bound |-> n] \* a checked byte whose meaning is not restored
Text(limit) == [kind |-> "text", limit |-> limit]
Maybe(field) == [kind |-> "maybe", of |-> field]
Optional(part) == [kind |-> "optional", of |-> part]
Many(limit, part) == [kind |-> "many", limit |-> limit, of |-> part]

Times(n, f) == [i \in 1..n |-> f]
Alternating(n, f, g) == [i \in 1..(2 * n) |-> IF i % 2 = 1 THEN f ELSE g]
Words(n) == Times(n, Number(8))
Reals(n) == Words(n)
Strict == Enum(2)                                   \* a flag that must be 0 or 1

\* The writer checks no limit.
AnyText == Text(Beyond)
AnyMany(part) == Many(Beyond, part)

Width(f) == IF f.kind = "number" THEN f.width ELSE IF f.kind = "checked" THEN 8 ELSE 1

-----------------------------------------------------------------------------
(* Writing *)

PlainEncoded(f, v) ==
  IF f.kind = "text" THEN Digits(Len(v), 4) \o v ELSE [j \in 1..Width(f) |-> Digit(v, j)]

SimpleEncoded(f, v) ==
  IF f.kind # "maybe" THEN PlainEncoded(f, v)
  ELSE IF v = <<>> THEN <<0>> ELSE <<1>> \o PlainEncoded(f.of, v[1])

PartEncoded(part, value) == FlattenSeq([i \in DOMAIN part |-> SimpleEncoded(part[i], value[i])])

FieldEncoded(f, v) ==
  IF f.kind = "optional" THEN IF v = <<>> THEN <<0>> ELSE <<1>> \o PartEncoded(f.of, v[1])
  ELSE IF f.kind = "many"
  THEN Digits(Len(v), 4) \o FlattenSeq([i \in DOMAIN v |-> PartEncoded(f.of, v[i])])
  ELSE SimpleEncoded(f, v)

Encoded(layout, value) == FlattenSeq([i \in DOMAIN layout |-> FieldEncoded(layout[i], value[i])])

-----------------------------------------------------------------------------
(* Reading.  A failure latches; what is read after it has no effect. *)

Start == [ok |-> TRUE, returned |-> FALSE, at |-> 0, value |-> <<>>]

Going(r) == r.ok /\ ~r.returned
Failed(r) == [r EXCEPT !.ok = FALSE]
Need(bytes, r, n) == n <= Len(bytes) - r.at
Next1(bytes, r) == bytes[r.at + 1]
Piece(bytes, r, n) == SubSeq(bytes, r.at + 1, r.at + n)
Skipped(r, n) == [r EXCEPT !.at = @ + n]
Got(r, n, v) == [Skipped(r, n) EXCEPT !.value = Append(@, v)]

\* try_from of a temperature, a difference or a percentage.  Of the plausible
\* doubles the model has those from 0 up to 2, of the others those whose top
\* digit is 255.
Plausible(d) == d[8] < 64

Passes(f, d) ==
  /\ f.kind = "checked" => Plausible(d)
  /\ f.kind \in {"enum", "forgotten"} => d[1] < f.bound

\* What the reader makes of the bytes of a field.
Kept(f, d) ==
  IF f.kind = "forgotten" THEN <<0>>
  ELSE IF f.kind = "flag" THEN IF d[1] = 0 THEN <<0>> ELSE <<1>>
  ELSE d

TakeText(bytes, r, limit) ==
  LET n == Size(Piece(bytes, r, 4))
  IN IF Need(bytes, r, 4) /\ n <= limit /\ Need(bytes, r, 4 + n)
     THEN Got(r, 4 + n, SubSeq(bytes, r.at + 5, r.at + 4 + n))
     ELSE Failed(r)

Take(bytes, r, f) ==
  LET d == Piece(bytes, r, Width(f))
      q == Got(r, Width(f), Kept(f, d))
  IN IF ~Need(bytes, r, Width(f)) \/ ~Passes(f, d) THEN Failed(r)
     ELSE IF f.kind = "return" /\ d[1] >= f.bound THEN [q EXCEPT !.returned = TRUE]
     ELSE q

PlainField(bytes, r, f) ==
  IF f.kind = "text" THEN TakeText(bytes, r, f.limit) ELSE Take(bytes, r, f)

\* What is read n bytes further on, as one value of r.
Within(r, n) == [Skipped(r, n) EXCEPT !.value = <<>>]
Wrapped(r, inner, v) == [inner EXCEPT !.value = Append(r.value, v)]

\* Mutation: any non-zero byte is taken for a presence.
LoosePresence(bytes, r) ==
  IF ~Need(bytes, r, 1) THEN "invalid" ELSE IF Next1(bytes, r) = 0 THEN "absent" ELSE "present"

Presence(bytes, r) ==
  IF ~Need(bytes, r, 1) \/ Next1(bytes, r) > 1 THEN "invalid"
  ELSE IF Next1(bytes, r) = 0 THEN "absent" ELSE "present"

SimpleField(bytes, r, f) ==
  IF f.kind # "maybe" THEN PlainField(bytes, r, f)
  ELSE IF Presence(bytes, r) = "invalid" THEN Failed(r)
  ELSE IF Presence(bytes, r) = "absent" THEN Got(r, 1, <<>>)
  ELSE LET inner == PlainField(bytes, Within(r, 1), f.of) IN Wrapped(r, inner, inner.value)

AfterSimple(bytes, r, f) == IF Going(r) THEN SimpleField(bytes, r, f) ELSE r

ReadPart(bytes, r, part) ==
  LET after[i \in 0..Len(part)] == IF i = 0 THEN r ELSE AfterSimple(bytes, after[i - 1], part[i])
  IN after[Len(part)]

AfterItem(bytes, r, part) ==
  LET inner == ReadPart(bytes, Within(r, 0), part)
  IN IF Going(r) THEN Wrapped(r, inner, inner.value) ELSE r

ReadItems(bytes, r, n, part) ==
  LET after[i \in 0..n] == IF i = 0 THEN r ELSE AfterItem(bytes, after[i - 1], part)
  IN after[n]

Counted(bytes, r, f) ==
  LET n == Size(Piece(bytes, r, 4))
  IN IF ~Need(bytes, r, 4) \/ n > f.limit THEN Failed(r)
     ELSE LET inner == ReadItems(bytes, Within(r, 4), n, f.of) IN Wrapped(r, inner, inner.value)

OptionalPart(bytes, r, f) ==
  IF Presence(bytes, r) = "invalid" THEN Failed(r)
  ELSE IF Presence(bytes, r) = "absent" THEN Got(r, 1, <<>>)
  ELSE LET inner == ReadPart(bytes, Within(r, 1), f.of) IN Wrapped(r, inner, <<inner.value>>)

Field(bytes, r, f) ==
  IF f.kind = "optional" THEN OptionalPart(bytes, r, f)
  ELSE IF f.kind = "many" THEN Counted(bytes, r, f)
  ELSE SimpleField(bytes, r, f)

AfterField(bytes, r, f) == IF Going(r) THEN Field(bytes, r, f) ELSE r

Read(bytes, r, layout) ==
  LET after[i \in 0..Len(layout)] == IF i = 0 THEN r ELSE AfterField(bytes, after[i - 1], layout[i])
  IN after[Len(layout)]

\* decode_with: the reader must be in order and exhausted.
Exhausted(bytes, r) == r.ok /\ r.at = Len(bytes)

Outcome(bytes, r) ==
  [accepted |-> Exhausted(bytes, r), value |-> IF Exhausted(bytes, r) THEN r.value ELSE <<>>,
   returned |-> r.returned]

Decoded(layout, bytes) == Outcome(bytes, Read(bytes, Start, layout))

-----------------------------------------------------------------------------
(* The values of a layout, within the limits of its reader *)

PlainValue(f, v) ==
  /\ v \in Seq(Byte)
  /\ IF f.kind = "text" THEN Len(v) <= f.limit ELSE Len(v) = Width(f) /\ Passes(f, v)
  /\ f.kind = "flag" => v[1] < 2
  /\ f.kind = "return" => v[1] < f.bound

SimpleValue(f, v) ==
  IF f.kind = "maybe" THEN v = <<>> \/ (v = <<v[1]>> /\ PlainValue(f.of, v[1])) ELSE PlainValue(f, v)

PartValue(part, value) ==
  value = [i \in DOMAIN part |-> value[i]] /\ \A i \in DOMAIN part : SimpleValue(part[i], value[i])

ItemsValue(f, v) ==
  /\ Len(v) \in 0..f.limit /\ v = [i \in 1..Len(v) |-> v[i]]
  /\ \A i \in 1..Len(v) : PartValue(f.of, v[i])

FieldValue(f, v) ==
  IF f.kind = "optional" THEN v = <<>> \/ (v = <<v[1]>> /\ PartValue(f.of, v[1]))
  ELSE IF f.kind = "many" THEN ItemsValue(f, v)
  ELSE SimpleValue(f, v)

IsValue(layout, value) ==
  value = [i \in DOMAIN layout |-> value[i]] /\ \A i \in DOMAIN layout : FieldValue(layout[i], value[i])
================================================================================
