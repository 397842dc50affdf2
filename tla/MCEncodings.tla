------------------------------ MODULE MCEncodings ------------------------------
(* Finite instances of Encodings for TLC. *)
EXTENDS Encodings

CONSTANT Fillings   \* how full the values are: subset of {"bare", "some", "full"}

\* two entries of each kind at most, one transition
MCMost == [k \in Kinds |-> IF k = "transitions" THEN 1 ELSE 2]

-----------------------------------------------------------------------------
(* Values of a layout: every field has digits of its own *)

RECURSIVE Sample(_, _, _), SampleField(_, _, _)

Present(filling, n) == filling = "full" \/ (filling = "some" /\ n % 2 = 0)

SampleField(f, filling, n) ==
  CASE f.kind \in {"number", "checked"} -> [j \in 1..Width(f) |-> (n + 8 * j) % 61]
    [] f.kind \in {"enum", "return", "forgotten"} -> <<(IF filling = "full" THEN f.bound - 1 ELSE n % f.bound)>>
    [] f.kind = "flag" -> <<n % 2>>
    [] f.kind = "text" -> IF Present(filling, n) THEN <<n % 60>> ELSE <<>>
    [] f.kind = "maybe" -> IF Present(filling, n) THEN <<SampleField(f.of, filling, n)>> ELSE <<>>
    [] f.kind = "optional" -> IF Present(filling, n) THEN <<Sample(f.of, filling, n)>> ELSE <<>>
    [] f.kind = "many" ->
         [j \in 1..(IF Present(filling, n) THEN 2 ELSE 0) |-> Sample(f.of, filling, n + 3 * j)]

Sample(layout, filling, n) == [i \in DOMAIN layout |-> SampleField(layout[i], filling, n + i)]

MCMessages == [k \in Payloads |-> {Sample(Wanted[k], filling, 1) : filling \in Fillings}]

-----------------------------------------------------------------------------
(* States; shape says how many records of each kind *)

Of(n, kinds) == [k \in Kinds |-> IF k \in kinds THEN n ELSE 0]

State(shape, filling) ==
  [k \in Kinds \cup {"coordinator"} |->
     IF k = "coordinator" THEN <<Digits(FormatVersion, 4)>> \o Sample(Words(5), filling, 1)
     ELSE [i \in 1..shape[k] |-> Sample(RecordRead[k], filling, 5 * i)]]

\* nothing; one record of each kind; two of some; more transitions than allowed;
\* and one whose container is just too long for the decoder
MCStates ==
  {State(Of(0, {}), "bare"), State(Of(1, Kinds), "some"), State(Of(2, {"domains", "couplings"}), "full"),
   State(Of(2, {"transitions"}), "bare"), State(Of(1, Kinds), "full")}

-----------------------------------------------------------------------------
(* Containers by hand, built from the records of a state *)

Parts ==
  LET records == RecordsOf(State(Of(1, Kinds), "bare"))
  IN [i \in DOMAIN records |-> records[i] @@ [whole |-> TRUE]]

By(records, declared, version) == [records |-> records, declared |-> declared, version |-> version]
Exactly(records) == By(records, Len(records), FormatVersion)

\* a record of part i under an identity of its own
Another(i) == [Parts[i] EXCEPT !.payload = [@ EXCEPT ![1] = @ + 1]]

MCHandWritten ==
  {By(Parts, Len(Parts) + n, FormatVersion) : n \in {-1, 0, 1}} \cup
  {By(Parts, Len(Parts), 2)} \cup
  {Exactly(SubSeq(Parts, 1, i) \o <<Parts[i]>> \o SubSeq(Parts, i + 1, Len(Parts))) : i \in DOMAIN Parts} \cup
  {Exactly(SubSeq(Parts, 1, i) \o <<Another(i)>> \o SubSeq(Parts, i + 1, Len(Parts))) : i \in 2..Len(Parts)} \cup
  {Exactly(SubSeq(Parts, 1, i) \o <<Another(i), Another(i)>> \o SubSeq(Parts, i + 1, Len(Parts))) :
     i \in 2..Len(Parts)} \cup
  {Exactly(SubSeq(Parts, 1, i - 1) \o SubSeq(Parts, i + 1, Len(Parts))) : i \in DOMAIN Parts} \cup
  {Exactly(Append(Parts, [type |-> t, payload |-> <<0, 0, 0, 0>>, whole |-> TRUE])) : t \in {0, ConfigType, 10}} \cup
  {Exactly([Parts EXCEPT ![i].payload = Append(@, 0), ![i].whole = FALSE]) : i \in DOMAIN Parts}

================================================================================
