--------------------------------- MODULE Bytes ---------------------------------
(***************************************************************************)
(* Integers and checksums as bytes, which the frame protocol               *)
(* (src/src/protocol.cpp) and the binary encodings (src/src/binary.hpp,    *)
(* src/src/persistence.cpp) share.  A sequence of bytes is a sequence of   *)
(* numbers below 256.                                                      *)
(***************************************************************************)
EXTENDS Integers, Sequences, FiniteSets

Byte == 0..255

\* The digits in base 256 of a natural number below 2^32, the least significant
\* first.
Place == <<1, 256, 65536, 16777216>>
Digits(n, width) == [i \in 1..width |-> IF i > 4 THEN 0 ELSE (n \div Place[i]) % 256]

\* Below 2^32: four digits hold it.
Fits(n) == n \div 65536 < 65536

\* A length or a count.  From 2^30 on it is beyond every limit, and kept as that:
\* TLC's own integers have 32 bits.
Beyond == 1073741824
Digit(d, i) == IF i <= Len(d) THEN d[i] ELSE 0
Size(d) ==
  IF Digit(d, 4) >= 64 \/ \E i \in 5..Len(d) : d[i] # 0 THEN Beyond
  ELSE Digit(d, 1) + 256 * Digit(d, 2) + 65536 * (Digit(d, 3) + 256 * Digit(d, 4))

\* In place of CRC-32C: whether a bit is set in an odd number of bytes, for each
\* of the eight bits.  Like CRC-32C it tells any one byte from another.
Power == <<1, 2, 4, 8, 16, 32, 64, 128>>
Odd(bytes, k) == Cardinality({i \in DOMAIN bytes : (bytes[i] \div Power[k]) % 2 = 1}) % 2

Checksum(bytes) == [j \in 1..4 |-> Odd(bytes, 2 * j - 1) + 2 * Odd(bytes, 2 * j)]
================================================================================
