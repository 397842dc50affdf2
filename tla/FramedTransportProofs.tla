------------------------- MODULE FramedTransportProofs -------------------------
(***************************************************************************)
(* For any frames, any splitting of them by ::send and ::recv, any one     *)
(* changed byte and any limit: what recv_frame returns is what send_frame  *)
(* took, in its order, and the error it returns otherwise has the right    *)
(* cause.                                                                  *)
(***************************************************************************)
EXTENDS FramedTransport, SequenceTheorems, FiniteSetTheorems, TLAPS

\* A part of a sequence, by its elements.
LEMMA PartIsSeq ==
  ASSUME NEW S, NEW s \in Seq(S), NEW m \in Nat \ {0}, NEW n \in Nat, n <= Len(s)
  PROVE  /\ SubSeq(s, m, n) \in Seq(S)
         /\ Len(SubSeq(s, m, n)) = IF m <= n THEN n - m + 1 ELSE 0
         /\ \A i \in 1..(n - m + 1) : SubSeq(s, m, n)[i] = s[m + i - 1]
<1>1. \A i \in m..n : s[i] \in S
  BY ElementOfSeq
<1>2. QED
  BY <1>1, SubSeqProperties

\* After its first m elements s goes on with the first n of t.
Has(s, m, n, t) == \A i \in 1..n : s[m + i] = t[i]

LEMMA HasInside ==
  ASSUME NEW s, NEW t, NEW u, NEW m \in Nat, NEW n \in Nat, NEW k \in Nat, NEW l \in Nat,
         Has(s, m, n, t), Has(t, k, l, u), k + l <= n
  PROVE  Has(s, m + k, l, u)
<1>1. ASSUME NEW i \in 1..l PROVE s[(m + k) + i] = u[i]
  <2>1. k + i \in 1..n /\ m + (k + i) = (m + k) + i
    OBVIOUS
  <2>2. s[m + (k + i)] = t[k + i] /\ t[k + i] = u[i]
    BY <2>1 DEF Has
  <2>3. QED
    BY <2>1, <2>2
<1>2. QED
  BY <1>1 DEF Has

\* A part that agrees with a sequence of its length is that sequence.
LEMMA PartIs ==
  ASSUME NEW S, NEW s \in Seq(S), NEW t \in Seq(S), NEW m \in Nat, NEW n \in Nat, Len(t) = n, m + n <= Len(s),
         Has(s, m, n, t)
  PROVE  SubSeq(s, m + 1, m + n) = t
<1> DEFINE u == SubSeq(s, m + 1, m + n)
<1>1. /\ u \in Seq(S) /\ Len(u) = IF m + 1 <= m + n THEN (m + n) - (m + 1) + 1 ELSE 0
      /\ \A i \in 1..((m + n) - (m + 1) + 1) : u[i] = s[(m + 1) + i - 1]
  BY PartIsSeq
<1> HIDE DEF u
<1>2. Len(u) = n /\ \A i \in 1..n : u[i] = s[m + i]
  BY <1>1
<1>3. QED
  BY <1>1, <1>2, SeqEqual DEF u, Has

\* The bytes of s after the first m are those of t.
Part(s, m, n, t) ==
  /\ s \in Seq(Byte) /\ t \in Seq(Byte) /\ m \in Nat /\ n \in Nat
  /\ Len(t) = n /\ m + n <= Len(s) /\ Has(s, m, n, t)

IsPart(s, m, n, t) == SubSeq(s, m + 1, m + n) = t

LEMMA PartHere ==
  ASSUME NEW s, NEW t, NEW m, NEW n, Part(s, m, n, t)
  PROVE  IsPart(s, m, n, t)
BY PartIs DEF Part, IsPart

--------------------------------------------------------------------------------
(* Checksums *)

BitOf(n, k) == (n \div Power[k]) % 2

\* A byte is determined by its bits.
LEMMA ByteByItsBits ==
  ASSUME NEW u \in Byte, NEW v \in Byte, \A k \in 1..8 : BitOf(u, k) = BitOf(v, k)
  PROVE  u = v
<1>1. /\ u % 2 = v % 2 /\ (u \div 2) % 2 = (v \div 2) % 2 /\ (u \div 4) % 2 = (v \div 4) % 2
      /\ (u \div 8) % 2 = (v \div 8) % 2 /\ (u \div 16) % 2 = (v \div 16) % 2 /\ (u \div 32) % 2 = (v \div 32) % 2
      /\ (u \div 64) % 2 = (v \div 64) % 2 /\ (u \div 128) % 2 = (v \div 128) % 2
  BY DEF BitOf, Power, Byte
<1>2. \A m, n \in Nat : m \div 2 = n \div 2 /\ m % 2 = n % 2 => m = n
  OBVIOUS
<1>3. \A n \in Byte : /\ n \div 2 \in Nat /\ n \div 4 \in Nat /\ n \div 8 \in Nat /\ n \div 16 \in Nat
                      /\ n \div 32 \in Nat /\ n \div 64 \in Nat /\ n \div 128 \in Nat
  BY DEF Byte
<1>4. \A n \in Byte : n \div 128 = (n \div 64) \div 2 /\ n \div 128 = (n \div 128) % 2
  BY DEF Byte
<1>5. \A n \in Byte : n \div 64 = (n \div 32) \div 2
  BY DEF Byte
<1>6. \A n \in Byte : n \div 32 = (n \div 16) \div 2
  BY DEF Byte
<1>7. \A n \in Byte : n \div 16 = (n \div 8) \div 2
  BY DEF Byte
<1>8. \A n \in Byte : n \div 8 = (n \div 4) \div 2 /\ n \div 4 = (n \div 2) \div 2 /\ n \in Nat
  BY DEF Byte
<1>9. u \div 128 = v \div 128
  <2>1. (u \div 128) % 2 = (v \div 128) % 2
    BY <1>1, Zenon
  <2>2. QED
    BY ONLY <1>4, <2>1, u \in Byte, v \in Byte, Zenon
<1>10. u \div 64 = v \div 64
  <2>1. u \div 64 \in Nat /\ v \div 64 \in Nat
    BY <1>3, Zenon
  <2>2. (u \div 64) \div 2 = (v \div 64) \div 2
    BY ONLY <1>4, <1>9, u \in Byte, v \in Byte, Zenon
  <2>3. (u \div 64) % 2 = (v \div 64) % 2
    BY <1>1, Zenon
  <2>4. QED
    BY ONLY <1>2, <2>1, <2>2, <2>3, Zenon
<1>11. u \div 32 = v \div 32
  <2>1. u \div 32 \in Nat /\ v \div 32 \in Nat
    BY <1>3, Zenon
  <2>2. (u \div 32) \div 2 = (v \div 32) \div 2
    BY ONLY <1>5, <1>10, u \in Byte, v \in Byte, Zenon
  <2>3. (u \div 32) % 2 = (v \div 32) % 2
    BY <1>1, Zenon
  <2>4. QED
    BY ONLY <1>2, <2>1, <2>2, <2>3, Zenon
<1>12. u \div 16 = v \div 16
  <2>1. u \div 16 \in Nat /\ v \div 16 \in Nat
    BY <1>3, Zenon
  <2>2. (u \div 16) \div 2 = (v \div 16) \div 2
    BY ONLY <1>6, <1>11, u \in Byte, v \in Byte, Zenon
  <2>3. (u \div 16) % 2 = (v \div 16) % 2
    BY <1>1, Zenon
  <2>4. QED
    BY ONLY <1>2, <2>1, <2>2, <2>3, Zenon
<1>13. u \div 8 = v \div 8
  <2>1. u \div 8 \in Nat /\ v \div 8 \in Nat
    BY <1>3, Zenon
  <2>2. (u \div 8) \div 2 = (v \div 8) \div 2
    BY ONLY <1>7, <1>12, u \in Byte, v \in Byte, Zenon
  <2>3. (u \div 8) % 2 = (v \div 8) % 2
    BY <1>1, Zenon
  <2>4. QED
    BY ONLY <1>2, <2>1, <2>2, <2>3, Zenon
<1>14. u \div 4 = v \div 4
  <2>1. u \div 4 \in Nat /\ v \div 4 \in Nat
    BY <1>3, Zenon
  <2>2. (u \div 4) \div 2 = (v \div 4) \div 2
    BY ONLY <1>8, <1>13, u \in Byte, v \in Byte, Zenon
  <2>3. (u \div 4) % 2 = (v \div 4) % 2
    BY <1>1, Zenon
  <2>4. QED
    BY ONLY <1>2, <2>1, <2>2, <2>3, Zenon
<1>15. u \div 2 = v \div 2
  <2>1. u \div 2 \in Nat /\ v \div 2 \in Nat
    BY <1>3, Zenon
  <2>2. (u \div 2) \div 2 = (v \div 2) \div 2
    BY ONLY <1>8, <1>14, u \in Byte, v \in Byte, Zenon
  <2>3. (u \div 2) % 2 = (v \div 2) % 2
    BY <1>1, Zenon
  <2>4. QED
    BY ONLY <1>2, <2>1, <2>2, <2>3, Zenon
<1>16. u \in Nat /\ v \in Nat /\ u % 2 = v % 2
  BY <1>1, <1>8, Zenon
<1>17. QED
  BY ONLY <1>2, <1>15, <1>16, Zenon

Set(s, k) == {i \in DOMAIN s : BitOf(s[i], k) = 1}

LEMMA OddIsParity ==
  ASSUME NEW s \in Seq(Byte), NEW k
  PROVE  /\ IsFiniteSet(Set(s, k)) /\ Cardinality(Set(s, k)) \in Nat
         /\ Odd(s, k) = Cardinality(Set(s, k)) % 2 /\ Odd(s, k) \in 0..1
<1>1. DOMAIN s = 1..Len(s) /\ Len(s) \in Nat
  BY LenProperties
<1>2. IsFiniteSet(1..Len(s)) /\ Set(s, k) \subseteq 1..Len(s)
  BY <1>1, FS_Interval DEF Set
<1>3. IsFiniteSet(Set(s, k)) /\ Cardinality(Set(s, k)) \in Nat
  BY <1>2, FS_Subset, FS_CardinalityType
<1>4. Odd(s, k) = Cardinality(Set(s, k)) % 2
  BY DEF Odd, Set, BitOf
<1>5. QED
  BY <1>3, <1>4

\* One bit of one byte is set in one sequence and not in the other.
LEMMA BitCounts ==
  ASSUME NEW s \in Seq(Byte), NEW t \in Seq(Byte), Len(s) = Len(t), NEW i \in 1..Len(s),
         \A j \in 1..Len(s) : j # i => s[j] = t[j], NEW k, BitOf(s[i], k) = 1, BitOf(t[i], k) # 1
  PROVE  Odd(s, k) # Odd(t, k)
<1>1. DOMAIN s = 1..Len(s) /\ DOMAIN t = 1..Len(s)
  BY LenProperties
<1>2. i \in Set(s, k) /\ Set(t, k) = Set(s, k) \ {i}
  BY <1>1 DEF Set
<1>3. Cardinality(Set(t, k)) = Cardinality(Set(s, k)) - 1
  BY <1>2, OddIsParity, FS_RemoveElement
<1> DEFINE m == Cardinality(Set(s, k))
           n == Cardinality(Set(t, k))
<1>4. m \in Nat /\ n \in Nat /\ n = m - 1 /\ Odd(s, k) = m % 2 /\ Odd(t, k) = n % 2
  BY <1>3, OddIsParity
<1> HIDE DEF m, n
<1>5. QED
  BY <1>4

LEMMA ChecksumIsFourBytes ==
  ASSUME NEW s \in Seq(Byte)
  PROVE  Checksum(s) \in Seq(Byte) /\ Len(Checksum(s)) = 4
<1>1. \A j \in 1..4 : Odd(s, 2 * j - 1) + 2 * Odd(s, 2 * j) \in Byte
  <2>1. ASSUME NEW j \in 1..4 PROVE Odd(s, 2 * j - 1) + 2 * Odd(s, 2 * j) \in Byte
    <3>1. Odd(s, 2 * j - 1) \in 0..1 /\ Odd(s, 2 * j) \in 0..1
      BY OddIsParity
    <3>2. \A p, q \in 0..1 : p + 2 * q \in Byte
      BY DEF Byte
    <3>3. QED
      BY <3>1, <3>2
  <2>2. QED
    BY <2>1
<1>2. Checksum(s) \in Seq(Byte)
  BY <1>1, IsASeq DEF Checksum
<1>3. Len(Checksum(s)) = 4
  BY DEF Checksum
<1>4. QED
  BY <1>2, <1>3

\* What the reader relies on: whichever one byte differs, the checksums differ.
LEMMA ChangedByteShows ==
  ASSUME NEW s \in Seq(Byte), NEW t \in Seq(Byte), Len(s) = Len(t), NEW i \in 1..Len(s),
         \A j \in 1..Len(s) : j # i => s[j] = t[j], s[i] # t[i]
  PROVE  Checksum(s) # Checksum(t)
<1>1. s[i] \in Byte /\ t[i] \in Byte
  BY ElementOfSeq
<1>2. PICK k \in 1..8 : BitOf(s[i], k) # BitOf(t[i], k)
  BY <1>1, ByteByItsBits
<1>3. BitOf(s[i], k) \in 0..1 /\ BitOf(t[i], k) \in 0..1
  <2>1. \A n \in Nat : n % 2 \in 0..1
    OBVIOUS
  <2>2. Power[k] \in Nat \ {0}
    BY DEF Power
  <2>3. \A n \in Byte, d \in Nat \ {0} : n \div d \in Nat
    BY DEF Byte
  <2>4. QED
    BY <1>1, <2>1, <2>2, <2>3 DEF BitOf
<1>4. Odd(s, k) # Odd(t, k)
  <2>1. CASE BitOf(s[i], k) = 1
    BY <1>2, <2>1, BitCounts
  <2>2. CASE BitOf(t[i], k) = 1
    BY <1>2, <2>2, BitCounts
  <2>3. QED
    BY <1>2, <1>3, <2>1, <2>2
<1>5. PICK j \in 1..4 : k = 2 * j - 1 \/ k = 2 * j
  <2>1. (k + 1) \div 2 \in 1..4 /\ (k = 2 * ((k + 1) \div 2) - 1 \/ k = 2 * ((k + 1) \div 2))
    OBVIOUS
  <2>2. QED
    BY <2>1
<1>6. /\ Odd(s, 2 * j - 1) \in 0..1 /\ Odd(s, 2 * j) \in 0..1
      /\ Odd(t, 2 * j - 1) \in 0..1 /\ Odd(t, 2 * j) \in 0..1
  BY OddIsParity
<1>7. Odd(s, 2 * j - 1) # Odd(t, 2 * j - 1) \/ Odd(s, 2 * j) # Odd(t, 2 * j)
  BY <1>4, <1>5
<1>8. Odd(s, 2 * j - 1) + 2 * Odd(s, 2 * j) # Odd(t, 2 * j - 1) + 2 * Odd(t, 2 * j)
  BY <1>6, <1>7
<1>9. Checksum(s)[j] # Checksum(t)[j]
  BY <1>8 DEF Checksum
<1>10. QED
  BY <1>9

--------------------------------------------------------------------------------
(* Digits *)

LEMMA DigitsAreBytes ==
  ASSUME NEW n \in Nat, NEW w \in Nat
  PROVE  Digits(n, w) \in Seq(Byte) /\ Len(Digits(n, w)) = w
<1>1. \A i \in 1..w : (IF i > 4 THEN 0 ELSE (n \div Place[i]) % 256) \in Byte
  <2>1. ASSUME NEW i \in 1..4 PROVE (n \div Place[i]) % 256 \in Byte
    <3>1. Place[i] \in Nat \ {0}
      BY DEF Place
    <3>2. n \div Place[i] \in Nat
      BY <3>1
    <3>3. \A m \in Nat : m % 256 \in Byte
      BY DEF Byte
    <3>4. QED
      BY <3>2, <3>3
  <2>2. 0 \in Byte
    BY DEF Byte
  <2>3. QED
    BY <2>1, <2>2
<1>2. Digits(n, w) \in Seq(Byte)
  BY <1>1, IsASeq DEF Digits
<1>3. Len(Digits(n, w)) = w
  BY DEF Digits
<1>4. QED
  BY <1>2, <1>3

LEMMA LowDigit ==
  ASSUME NEW n \in Nat
  PROVE  n % 256 = n - 256 * (n \div 256) /\ n \div 256 \in Nat /\ n % 256 \in 0..255
OBVIOUS

LEMMA TwoDigitsMakeIt ==
  ASSUME NEW n \in Nat, n < 65536
  PROVE  (n % 256) + 256 * ((n \div 256) % 256) = n
<1> DEFINE q == n \div 256
<1>1. q \in Nat /\ q < 256 /\ n % 256 = n - 256 * q
  BY LowDigit
<1> HIDE DEF q
<1>2. q % 256 = q
  BY <1>1
<1>3. (n % 256) + 256 * (q % 256) = n
  BY <1>1, <1>2
<1>4. QED
  BY <1>3 DEF q

LEMMA LowDigitsMakeIt ==
  ASSUME NEW n \in Nat
  PROVE  (n % 256) + 256 * ((n \div 256) % 256) = n - 65536 * (n \div 65536)
<1> DEFINE q == n \div 256
           r == q \div 256
<1>1. q \in Nat /\ n % 256 = n - 256 * q
  BY LowDigit
<1>2. n \div 65536 = r
  OBVIOUS
<1> HIDE DEF q
<1>3. r \in Nat /\ q % 256 = q - 256 * r
  BY <1>1, LowDigit
<1> HIDE DEF r
<1>4. (n % 256) + 256 * (q % 256) = n - 65536 * r
  BY <1>1, <1>3
<1>5. QED
  BY <1>2, <1>4 DEF q

\* Two bytes hold a kind or a version.
LEMMA TwoDigits ==
  ASSUME NEW n \in TwoBytes
  PROVE  Size(Digits(n, 2)) = n
<1> DEFINE d == Digits(n, 2)
<1>1. n \in Nat /\ n < 65536
  BY DEF TwoBytes
<1>2. Len(d) = 2 /\ d[1] = n % 256 /\ d[2] = (n \div 256) % 256
  BY ONLY <1>1 DEF Digits, Place
<1> HIDE DEF d
<1>3. Digit(d, 1) = d[1] /\ Digit(d, 2) = d[2] /\ Digit(d, 3) = 0 /\ Digit(d, 4) = 0 /\ 5..Len(d) = {}
  BY <1>2 DEF Digit
<1>4. d[1] + 256 * d[2] = n
  BY <1>1, <1>2, TwoDigitsMakeIt
<1>5. Size(d) = Digit(d, 1) + 256 * Digit(d, 2) + 65536 * (Digit(d, 3) + 256 * Digit(d, 4))
  BY <1>3 DEF Size
<1>6. Size(d) = (d[1] + 256 * d[2]) + 0
  <2>1. d[1] \in Nat /\ d[2] \in Nat
    BY <1>1, <1>2
  <2>2. QED
    BY <1>3, <1>5, <2>1
<1>7. QED
  BY <1>1, <1>4, <1>6 DEF d

\* Four bytes hold a length, and one that is read back is the length or beyond every limit.
LEMMA FourDigits ==
  ASSUME NEW n \in Nat, Fits(n)
  PROVE  Size(Digits(n, 4)) = IF n < Beyond THEN n ELSE Beyond
<1> DEFINE d == Digits(n, 4)
           h == n \div 65536
<1>1. /\ Len(d) = 4 /\ d[1] = n % 256 /\ d[2] = (n \div 256) % 256
      /\ d[3] = (n \div 65536) % 256 /\ d[4] = (n \div 16777216) % 256
  BY DEF Digits, Place
<1>2. n \div 16777216 = h \div 256 /\ h \in Nat /\ h < 65536 /\ (h < 16384 <=> n < 1073741824)
  <2>1. n \div 16777216 = (n \div 65536) \div 256
    OBVIOUS
  <2>2. n \div 65536 \in Nat /\ (n \div 65536 < 16384 <=> n < 1073741824)
    OBVIOUS
  <2>3. QED
    BY <2>1, <2>2 DEF Fits
<1>3. d[3] = h % 256 /\ d[4] = (h \div 256) % 256
  BY <1>1, <1>2
<1>4. d[1] + 256 * d[2] = n - 65536 * h
  BY <1>1, LowDigitsMakeIt
<1>5. d[1] \in Nat /\ d[2] \in Nat
  BY <1>1, LowDigit
<1> HIDE DEF d, h
<1>6. d[3] + 256 * d[4] = h
  BY <1>2, <1>3, TwoDigitsMakeIt
<1>7. d[3] \in Nat /\ d[4] \in Nat /\ (d[4] >= 64 <=> h >= 16384)
  <2>1. h \div 256 \in Nat /\ h \div 256 < 256 /\ (h \div 256 >= 64 <=> h >= 16384)
    BY ONLY <1>2
  <2>2. (h \div 256) % 256 = h \div 256 /\ h % 256 \in Nat
    BY ONLY <1>2, <2>1
  <2>3. QED
    BY <1>3, <2>1, <2>2
<1>8. 5..Len(d) = {} /\ \A i \in 1..4 : Digit(d, i) = d[i]
  BY <1>1 DEF Digit
<1>9. Size(d) = IF d[4] >= 64 THEN Beyond ELSE d[1] + 256 * d[2] + 65536 * (d[3] + 256 * d[4])
  BY <1>8 DEF Size
<1>10. d[1] + 256 * d[2] + 65536 * (d[3] + 256 * d[4]) = n
  <2>1. d[1] + 256 * d[2] + 65536 * (d[3] + 256 * d[4]) = (d[1] + 256 * d[2]) + 65536 * h
    BY <1>6
  <2>2. QED
    BY ONLY <1>2, <1>4, <2>1, n \in Nat
<1>11. Beyond = 1073741824
  BY DEF Beyond
<1>12. Size(d) = IF n < Beyond THEN n ELSE Beyond
  <2>1. d[4] >= 64 <=> ~(n < 1073741824)
    BY ONLY <1>2, <1>7
  <2>2. CASE d[4] >= 64
    BY ONLY <1>9, <1>11, <2>1, <2>2
  <2>3. CASE ~(d[4] >= 64)
    <3>1. Size(d) = n /\ n < Beyond
      BY ONLY <1>9, <1>10, <1>11, <2>1, <2>3
    <3>2. QED
      BY ONLY <3>1
  <2>4. QED
    BY <2>2, <2>3
<1>13. QED
  BY <1>12 DEF d

--------------------------------------------------------------------------------
(* Frames as they are sent *)

\* One sequence after another, by their lengths.
IsJoin(u, s, t, m, n) == Len(u) = m + n /\ Has(u, 0, m, s) /\ Has(u, m, n, t)

LEMMA Joined ==
  ASSUME NEW S, NEW s \in Seq(S), NEW t \in Seq(S), NEW m, NEW n, Len(s) = m, Len(t) = n
  PROVE  s \o t \in Seq(S) /\ IsJoin(s \o t, s, t, m, n)
<1> DEFINE u == s \o t
<1>1. /\ s \o t \in Seq(S) /\ Len(s \o t) = Len(s) + Len(t) /\ Len(s) \in Nat /\ Len(t) \in Nat
      /\ \A i \in 1..(Len(s) + Len(t)) : (s \o t)[i] = IF i <= Len(s) THEN s[i] ELSE t[i - Len(s)]
  BY ConcatProperties, LenProperties
<1> HIDE DEF u
<1>2. u \in Seq(S) /\ Len(u) = m + n /\ m \in Nat /\ n \in Nat
      /\ \A i \in 1..(m + n) : u[i] = IF i <= m THEN s[i] ELSE t[i - m]
  BY <1>1 DEF u
<1>3. ASSUME NEW i \in 1..m PROVE u[0 + i] = s[i]
  BY <1>2
<1>4. ASSUME NEW i \in 1..n PROVE u[m + i] = t[i]
  <2>1. m + i \in 1..(m + n) /\ ~(m + i <= m) /\ (m + i) - m = i
    BY <1>2
  <2>2. QED
    BY <1>2, <2>1
<1>5. QED
  BY <1>2, <1>3, <1>4 DEF u, IsJoin, Has

\* Where the fields of the header are: magic number, version, kind, flags and length.
HeaderIs(h, m, w, k, g, l) ==
  /\ h \in Seq(Byte) /\ Len(h) = 16
  /\ Has(h, 0, 4, m) /\ Has(h, 4, 2, w) /\ Has(h, 6, 2, k) /\ Has(h, 8, 4, g) /\ Has(h, 12, 4, l)

LEMMA FiveNested ==
  ASSUME NEW h, NEW c, NEW b, NEW a, NEW m, NEW w, NEW k, NEW g,
         Has(h, 0, 12, c), Has(c, 0, 8, b), Has(c, 8, 4, g), Has(b, 0, 6, a), Has(b, 6, 2, k),
         Has(a, 0, 4, m), Has(a, 4, 2, w)
  PROVE  Has(h, 0, 4, m) /\ Has(h, 4, 2, w) /\ Has(h, 6, 2, k) /\ Has(h, 8, 4, g)
<1>1. Has(h, 0, 8, b) /\ Has(h, 8, 4, g)
  BY HasInside
<1>2. Has(h, 0, 6, a) /\ Has(h, 6, 2, k)
  BY <1>1, HasInside
<1>3. QED
  BY <1>1, <1>2, HasInside

LEMMA FiveParts ==
  ASSUME NEW m \in Seq(Byte), NEW w \in Seq(Byte), NEW k \in Seq(Byte), NEW g \in Seq(Byte), NEW l \in Seq(Byte),
         Len(m) = 4, Len(w) = 2, Len(k) = 2, Len(g) = 4, Len(l) = 4
  PROVE  HeaderIs((((m \o w) \o k) \o g) \o l, m, w, k, g, l)
<1> DEFINE a == m \o w
           b == a \o k
           c == b \o g
           h == c \o l
<1> HIDE DEF h, c, b, a
<1>1. a \in Seq(Byte) /\ IsJoin(a, m, w, 4, 2)
  BY Joined DEF a
<1>2. Len(a) = 6
  BY <1>1 DEF IsJoin
<1>3. b \in Seq(Byte) /\ IsJoin(b, a, k, 6, 2)
  BY <1>1, <1>2, Joined DEF b
<1>4. Len(b) = 8
  BY <1>3 DEF IsJoin
<1>5. c \in Seq(Byte) /\ IsJoin(c, b, g, 8, 4)
  BY <1>3, <1>4, Joined DEF c
<1>6. Len(c) = 12
  BY <1>5 DEF IsJoin
<1>7. h \in Seq(Byte) /\ IsJoin(h, c, l, 12, 4)
  BY <1>5, <1>6, Joined DEF h
<1>8. Len(h) = 16 /\ Has(h, 12, 4, l) /\ Has(h, 0, 12, c)
  BY <1>7 DEF IsJoin
<1>9. Has(c, 0, 8, b) /\ Has(c, 8, 4, g) /\ Has(b, 0, 6, a) /\ Has(b, 6, 2, k) /\ Has(a, 0, 4, m) /\ Has(a, 4, 2, w)
  BY <1>1, <1>3, <1>5 DEF IsJoin
<1>10. Has(h, 0, 4, m) /\ Has(h, 4, 2, w) /\ Has(h, 6, 2, k) /\ Has(h, 8, 4, g)
  BY <1>8, <1>9, FiveNested
<1>11. QED
  BY <1>7, <1>8, <1>10 DEF HeaderIs, h, c, b, a

LEMMA FrameParts ==
  ASSUME NEW f \in Frame
  PROVE  /\ f.kind \in TwoBytes /\ f.flags \in Seq(Byte) /\ Len(f.flags) = 4
         /\ f.payload \in Seq(Byte) /\ Len(f.payload) \in Nat
<1>1. f.kind \in TwoBytes /\ f.flags \in FourBytes /\ f.payload \in Seq(Byte)
  BY DEF Frame
<1>2. QED
  BY <1>1, LenProperties DEF FourBytes

\* What the fields of a frame's header are made of.
LEMMA FieldsAreBytes ==
  ASSUME NEW f \in Frame, NEW v \in TwoBytes
  PROVE  /\ FrameMagic \in Seq(Byte) /\ Len(FrameMagic) = 4
         /\ Digits(v, 2) \in Seq(Byte) /\ Len(Digits(v, 2)) = 2
         /\ Digits(f.kind, 2) \in Seq(Byte) /\ Len(Digits(f.kind, 2)) = 2
         /\ f.flags \in Seq(Byte) /\ Len(f.flags) = 4
         /\ Digits(Len(f.payload), 4) \in Seq(Byte) /\ Len(Digits(Len(f.payload), 4)) = 4
<1>1. FrameMagic \in Seq(Byte) /\ Len(FrameMagic) = 4
  BY DEF FrameMagic, Byte
<1>2. f.kind \in TwoBytes /\ f.flags \in Seq(Byte) /\ Len(f.flags) = 4 /\ Len(f.payload) \in Nat
  BY FrameParts
<1>3. f.kind \in Nat /\ v \in Nat
  <2>1. \A x \in TwoBytes : x \in Nat
    BY DEF TwoBytes
  <2>2. QED
    BY <1>2, <2>1
<1>4. QED
  BY <1>1, <1>2, <1>3, DigitsAreBytes

LEMMA HeaderLayout ==
  ASSUME NEW f \in Frame, NEW v \in TwoBytes
  PROVE  HeaderIs(CoveredHeader(f, v), FrameMagic, Digits(v, 2), Digits(f.kind, 2), f.flags, Digits(Len(f.payload), 4))
BY FieldsAreBytes, FiveParts DEF CoveredHeader

\* Where a frame's parts are: covered header, its checksum, payload and its checksum.
FrameIs(e, h, c, p, n, d) ==
  /\ n \in Nat /\ e \in Seq(Byte) /\ Len(e) = FrameOverhead + n
  /\ Has(e, 0, 16, h) /\ Has(e, 16, 4, c) /\ Has(e, 20, n, p) /\ Has(e, 20 + n, 4, d)

LEMMA FourNested ==
  ASSUME NEW e, NEW b, NEW a, NEW h, NEW c, NEW p, NEW n \in Nat,
         Has(e, 0, 20 + n, b), Has(b, 0, 20, a), Has(b, 20, n, p), Has(a, 0, 16, h), Has(a, 16, 4, c)
  PROVE  Has(e, 0, 16, h) /\ Has(e, 16, 4, c) /\ Has(e, 20, n, p)
<1>1. Has(e, 0, 20, a) /\ Has(e, 20, n, p)
  BY HasInside
<1>2. QED
  BY <1>1, HasInside

LEMMA FourParts ==
  ASSUME NEW h \in Seq(Byte), NEW c \in Seq(Byte), NEW p \in Seq(Byte), NEW d \in Seq(Byte), NEW n \in Nat,
         Len(h) = 16, Len(c) = 4, Len(p) = n, Len(d) = 4
  PROVE  FrameIs(((h \o c) \o p) \o d, h, c, p, n, d)
<1> DEFINE a == h \o c
           b == a \o p
           e == b \o d
<1> HIDE DEF a, b, e
<1>1. a \in Seq(Byte) /\ IsJoin(a, h, c, 16, 4)
  BY Joined DEF a
<1>2. Len(a) = 20
  BY <1>1 DEF IsJoin
<1>3. b \in Seq(Byte) /\ IsJoin(b, a, p, 20, n)
  BY <1>1, <1>2, Joined DEF b
<1>4. Len(b) = 20 + n
  BY <1>3 DEF IsJoin
<1>5. e \in Seq(Byte) /\ IsJoin(e, b, d, 20 + n, 4)
  BY <1>3, <1>4, Joined DEF e
<1>6. Len(e) = FrameOverhead + n /\ Has(e, 20 + n, 4, d) /\ Has(e, 0, 20 + n, b)
  BY <1>5 DEF FrameOverhead, IsJoin
<1>7. Has(b, 0, 20, a) /\ Has(b, 20, n, p) /\ Has(a, 0, 16, h) /\ Has(a, 16, 4, c)
  BY <1>1, <1>3 DEF IsJoin
<1>8. Has(e, 0, 16, h) /\ Has(e, 16, 4, c) /\ Has(e, 20, n, p)
  BY <1>6, <1>7, FourNested
<1>9. QED
  BY <1>5, <1>6, <1>8 DEF FrameIs, a, b, e

LEMMA FrameLayout ==
  ASSUME NEW f \in Frame, NEW v \in TwoBytes
  PROVE  LET h == CoveredHeader(f, v)
         IN FrameIs(EncodedFrame(f, v), h, Checksum(h), f.payload, Len(f.payload), Checksum(f.payload))
<1>1. CoveredHeader(f, v) \in Seq(Byte) /\ Len(CoveredHeader(f, v)) = 16
  BY HeaderLayout DEF HeaderIs
<1>2. f.payload \in Seq(Byte) /\ Len(f.payload) \in Nat
  BY FrameParts
<1>3. /\ Checksum(CoveredHeader(f, v)) \in Seq(Byte) /\ Len(Checksum(CoveredHeader(f, v))) = 4
      /\ Checksum(f.payload) \in Seq(Byte) /\ Len(Checksum(f.payload)) = 4
  BY <1>1, <1>2, ChecksumIsFourBytes
<1>4. QED
  BY <1>1, <1>2, <1>3, FourParts DEF EncodedFrame

--------------------------------------------------------------------------------
(* Frames as they are read *)

\* b and e agree from after m up to n, but for the place p.
AgreeBut(b, e, m, n, p) == \A i \in (m + 1)..n : i # p => b[i] = e[i]

\* A part of e with its checksum behind it.
CheckedPart(e, m, n, t) ==
  /\ m \in Nat /\ n \in Nat /\ t \in Seq(Byte) /\ Len(t) = n
  /\ Has(e, m, n, t) /\ Has(e, m + n, 4, Checksum(t))

\* One byte of a part or of its checksum has changed: they no longer agree.
LEMMA DamageShows ==
  ASSUME NEW b \in Seq(Byte), NEW e, NEW m, NEW n, NEW t, CheckedPart(e, m, n, t), m + n + 4 <= Len(b),
         NEW p \in (m + 1)..(m + n + 4), b[p] # e[p], AgreeBut(b, e, m, m + n + 4, p)
  PROVE  Checksum(SubSeq(b, m + 1, m + n)) # SubSeq(b, m + n + 1, m + n + 4)
<1> DEFINE s == SubSeq(b, m + 1, m + n)
           c == SubSeq(b, m + n + 1, m + n + 4)
           d == Checksum(t)
<1>1. m \in Nat /\ n \in Nat /\ t \in Seq(Byte) /\ Len(t) = n /\ Len(b) \in Nat
  BY LenProperties DEF CheckedPart
<1>2. (\A i \in 1..n : e[m + i] = t[i]) /\ \A i \in 1..4 : e[m + n + i] = d[i]
  BY DEF CheckedPart, Has
<1>3. d \in Seq(Byte) /\ Len(d) = 4
  BY <1>1, ChecksumIsFourBytes
<1>4. /\ s \in Seq(Byte) /\ Len(s) = (IF m + 1 <= m + n THEN (m + n) - (m + 1) + 1 ELSE 0)
      /\ \A i \in 1..((m + n) - (m + 1) + 1) : s[i] = b[(m + 1) + i - 1]
  BY <1>1, PartIsSeq
<1>5. /\ c \in Seq(Byte) /\ Len(c) = (IF m + n + 1 <= m + n + 4 THEN (m + n + 4) - (m + n + 1) + 1 ELSE 0)
      /\ \A i \in 1..((m + n + 4) - (m + n + 1) + 1) : c[i] = b[(m + n + 1) + i - 1]
  BY <1>1, PartIsSeq
<1> HIDE DEF s, c, d
<1>6. Len(s) = n /\ \A i \in 1..n : s[i] = b[m + i]
  <2>1. (m + n) - (m + 1) + 1 = n /\ (m + 1 <= m + n <=> 1 <= n) /\ \A i \in 1..n : (m + 1) + i - 1 = m + i
    BY <1>1
  <2>2. QED
    BY <1>1, <1>4, <2>1
<1>7. \A i \in 1..4 : c[i] = b[m + n + i]
  BY <1>1, <1>5
<1>8. CASE p <= m + n
  <2> DEFINE q == p - m
  <2>1. q \in 1..n /\ m + q = p
    BY <1>1, <1>8
  <2> HIDE DEF q
  <2>2. s[q] # t[q]
    BY <1>2, <1>6, <2>1
  <2>3. ASSUME NEW i \in 1..n, i # q PROVE s[i] = t[i]
    <3>1. m + i \in (m + 1)..(m + n + 4) /\ m + i # p
      BY <1>1, <2>1, <2>3
    <3>2. QED
      BY <1>2, <1>6, <3>1 DEF AgreeBut
  <2>4. Checksum(s) # d
    BY <1>1, <1>4, <1>6, <2>1, <2>2, <2>3, ChangedByteShows DEF d
  <2>5. c = d
    <3>1. ASSUME NEW i \in 1..4 PROVE c[i] = d[i]
      <4>1. m + n + i \in (m + 1)..(m + n + 4) /\ m + n + i # p
        BY <1>1, <1>8
      <4>2. QED
        BY <1>2, <1>7, <4>1 DEF AgreeBut
    <3>2. Len(c) = 4
      BY <1>1, <1>5
    <3>3. QED
      BY <1>3, <1>5, <3>1, <3>2, SeqEqual
  <2>6. QED
    BY <2>4, <2>5 DEF s, c
<1>9. CASE ~(p <= m + n)
  <2> DEFINE q == p - (m + n)
  <2>1. q \in 1..4 /\ m + n + q = p
    BY <1>1, <1>9
  <2> HIDE DEF q
  <2>2. c[q] # d[q]
    BY <1>2, <1>7, <2>1
  <2>3. s = t
    <3>1. ASSUME NEW i \in 1..n PROVE s[i] = t[i]
      <4>1. m + i \in (m + 1)..(m + n + 4) /\ m + i # p
        BY <1>1, <1>9
      <4>2. QED
        BY <1>2, <1>6, <4>1 DEF AgreeBut
    <3>2. QED
      BY <1>1, <1>4, <1>6, <3>1, SeqEqual
  <2>4. QED
    BY <2>2, <2>3 DEF s, c, d
<1>10. QED
  BY <1>8, <1>9

\* b has the part t and its checksum, which agree.
Shows(b, m, n, t) == IsPart(b, m, n, t) /\ IsPart(b, m + n, 4, Checksum(t))

LEMMA IntactShows ==
  ASSUME NEW b \in Seq(Byte), NEW e, NEW m, NEW n, NEW t, CheckedPart(e, m, n, t), m + n + 4 <= Len(b),
         AgreeBut(b, e, m, m + n + 4, 0)
  PROVE  Shows(b, m, n, t)
<1> DEFINE d == Checksum(t)
<1>1. m \in Nat /\ n \in Nat /\ t \in Seq(Byte) /\ Len(t) = n /\ Len(b) \in Nat
  BY LenProperties DEF CheckedPart
<1>2. (\A i \in 1..n : e[m + i] = t[i]) /\ \A i \in 1..4 : e[m + n + i] = d[i]
  BY DEF CheckedPart, Has
<1>3. d \in Seq(Byte) /\ Len(d) = 4
  BY <1>1, ChecksumIsFourBytes
<1> HIDE DEF d
<1>4. Has(b, m, n, t)
  <2>1. ASSUME NEW i \in 1..n PROVE b[m + i] = t[i]
    <3>1. m + i \in (m + 1)..(m + n + 4) /\ m + i # 0
      BY <1>1
    <3>2. QED
      BY <1>2, <3>1 DEF AgreeBut
  <2>2. QED
    BY <2>1 DEF Has
<1>5. Has(b, m + n, 4, d)
  <2>1. ASSUME NEW i \in 1..4 PROVE b[(m + n) + i] = d[i]
    <3>1. m + n + i \in (m + 1)..(m + n + 4) /\ m + n + i # 0
      BY <1>1
    <3>2. QED
      BY <1>2, <3>1 DEF AgreeBut
  <2>2. QED
    BY <2>1 DEF Has
<1>6. SubSeq(b, m + 1, m + n) = t
  <2>1. m + n <= Len(b)
    BY <1>1
  <2>2. QED
    BY <1>1, <1>4, <2>1, PartIs
<1>7. SubSeq(b, (m + n) + 1, (m + n) + 4) = d
  <2> DEFINE k == m + n
  <2>1. k \in Nat /\ k + 4 <= Len(b) /\ Has(b, k, 4, d)
    BY <1>1, <1>5
  <2> HIDE DEF k
  <2>2. SubSeq(b, k + 1, k + 4) = d
    BY <1>3, <2>1, PartIs
  <2>3. QED
    BY <2>2 DEF k
<1>8. QED
  BY <1>6, <1>7 DEF d, Shows, IsPart

LEMMA HeaderIsChecked ==
  ASSUME NEW f \in Frame, NEW v \in TwoBytes
  PROVE  CheckedPart(EncodedFrame(f, v), 0, 16, CoveredHeader(f, v))
<1>1. CoveredHeader(f, v) \in Seq(Byte) /\ Len(CoveredHeader(f, v)) = 16
  BY HeaderLayout DEF HeaderIs
<1>2. Has(EncodedFrame(f, v), 0, 16, CoveredHeader(f, v)) /\ Has(EncodedFrame(f, v), 16, 4, Checksum(CoveredHeader(f, v)))
  BY FrameLayout DEF FrameIs
<1>3. QED
  BY <1>1, <1>2 DEF CheckedPart

LEMMA PayloadIsChecked ==
  ASSUME NEW f \in Frame, NEW v \in TwoBytes
  PROVE  /\ CheckedPart(EncodedFrame(f, v), 20, Len(f.payload), f.payload)
         /\ EncodedFrame(f, v) \in Seq(Byte) /\ Len(EncodedFrame(f, v)) = FrameOverhead + Len(f.payload)
<1>1. f.payload \in Seq(Byte) /\ Len(f.payload) \in Nat
  BY FrameParts
<1>2. /\ Has(EncodedFrame(f, v), 20, Len(f.payload), f.payload)
      /\ Has(EncodedFrame(f, v), 20 + Len(f.payload), 4, Checksum(f.payload))
      /\ EncodedFrame(f, v) \in Seq(Byte) /\ Len(EncodedFrame(f, v)) = FrameOverhead + Len(f.payload)
  BY FrameLayout DEF FrameIs
<1>3. QED
  BY <1>1, <1>2 DEF CheckedPart

HeaderUnchanged(b, f, v) == AgreeBut(b, EncodedFrame(f, v), 0, 20, 0)

LEMMA InHeader ==
  ASSUME NEW b, NEW h, Has(b, 0, 16, h), NEW k \in Nat, NEW l \in Nat, NEW u, Has(h, k, l, u), k + l <= 16
  PROVE  Has(b, k, l, u)
<1>1. Has(b, 0 + k, l, u)
  BY HasInside
<1>2. QED
  BY <1>1

LEMMA NestedFields ==
  ASSUME NEW b, NEW e, NEW h, NEW m, NEW w, NEW k, NEW g, NEW l,
         Has(b, 0, 20, e), Has(e, 0, 16, h), Has(h, 0, 4, m), Has(h, 4, 2, w), Has(h, 6, 2, k), Has(h, 8, 4, g),
         Has(h, 12, 4, l)
  PROVE  Has(b, 0, 4, m) /\ Has(b, 4, 2, w) /\ Has(b, 6, 2, k) /\ Has(b, 8, 4, g) /\ Has(b, 12, 4, l)
<1>1. Has(b, 0, 16, h)
  BY HasInside
<1>2. QED
  BY <1>1, InHeader

LEMMA IntactFields ==
  ASSUME NEW f \in Frame, NEW v \in TwoBytes, NEW b \in Seq(Byte), Len(b) >= 20, HeaderUnchanged(b, f, v)
  PROVE  /\ SubSeq(b, 1, 4) = FrameMagic /\ SubSeq(b, 5, 6) = Digits(v, 2) /\ SubSeq(b, 7, 8) = Digits(f.kind, 2)
         /\ SubSeq(b, 9, 12) = f.flags /\ SubSeq(b, 13, 16) = Digits(Len(f.payload), 4)
         /\ Checksum(SubSeq(b, 1, 16)) = SubSeq(b, 17, 20)
<1> DEFINE e == EncodedFrame(f, v)
           h == CoveredHeader(f, v)
           w == Digits(v, 2)
           k == Digits(f.kind, 2)
           l == Digits(Len(f.payload), 4)
<1>1. HeaderIs(h, FrameMagic, w, k, f.flags, l)
  BY HeaderLayout
<1>2. CheckedPart(e, 0, 16, h)
  BY HeaderIsChecked
<1>3. /\ FrameMagic \in Seq(Byte) /\ Len(FrameMagic) = 4 /\ w \in Seq(Byte) /\ Len(w) = 2
      /\ k \in Seq(Byte) /\ Len(k) = 2 /\ f.flags \in Seq(Byte) /\ Len(f.flags) = 4 /\ l \in Seq(Byte) /\ Len(l) = 4
  BY FieldsAreBytes
<1>4. AgreeBut(b, e, 0, 0 + 16 + 4, 0)
  BY DEF HeaderUnchanged
<1> HIDE DEF e, h, w, k, l
<1>5. Shows(b, 0, 16, h)
  <2>1. 0 + 16 + 4 <= Len(b)
    BY LenProperties
  <2>2. QED
    BY ONLY b \in Seq(Byte), <1>2, <1>4, <2>1, IntactShows
<1>6. Checksum(SubSeq(b, 1, 16)) = SubSeq(b, 17, 20)
  <2>1. SubSeq(b, 1, 16) = h /\ SubSeq(b, 17, 20) = Checksum(h)
    BY ONLY <1>5 DEF Shows, IsPart
  <2>2. QED
    BY ONLY <2>1
<1>7. Has(b, 0, 20, e)
  <2>1. ASSUME NEW i \in 1..20 PROVE b[0 + i] = e[i]
    <3>1. i \in (0 + 1)..(0 + 16 + 4) /\ i # 0 /\ 0 + i = i
      OBVIOUS
    <3>2. QED
      BY <1>4, <3>1 DEF AgreeBut
  <2>2. QED
    BY <2>1 DEF Has
<1>8. /\ Has(e, 0, 16, h) /\ Has(h, 0, 4, FrameMagic) /\ Has(h, 4, 2, w) /\ Has(h, 6, 2, k)
      /\ Has(h, 8, 4, f.flags) /\ Has(h, 12, 4, l)
  BY <1>1, <1>2 DEF HeaderIs, CheckedPart
<1>9. Has(b, 0, 4, FrameMagic) /\ Has(b, 4, 2, w) /\ Has(b, 6, 2, k) /\ Has(b, 8, 4, f.flags) /\ Has(b, 12, 4, l)
  BY <1>7, <1>8, NestedFields
<1>10. /\ Part(b, 0, 4, FrameMagic) /\ Part(b, 4, 2, w) /\ Part(b, 6, 2, k)
       /\ Part(b, 8, 4, f.flags) /\ Part(b, 12, 4, l)
  <2>1. Len(b) \in Nat
    BY LenProperties
  <2>2. QED
    BY <1>3, <1>9, <2>1 DEF Part
<1>11. /\ SubSeq(b, 1, 4) = FrameMagic /\ SubSeq(b, 5, 6) = w /\ SubSeq(b, 7, 8) = k
       /\ SubSeq(b, 9, 12) = f.flags /\ SubSeq(b, 13, 16) = l
  <2>1. /\ IsPart(b, 0, 4, FrameMagic) /\ IsPart(b, 4, 2, w) /\ IsPart(b, 6, 2, k)
        /\ IsPart(b, 8, 4, f.flags) /\ IsPart(b, 12, 4, l)
    BY ONLY <1>10, PartHere, Zenon
  <2>2. QED
    BY ONLY <2>1 DEF IsPart
<1>12. QED
  BY <1>6, <1>11 DEF w, k, l

\* The length that is read: beyond every limit when it does not fit two bytes.
Declared(f) == IF Len(f.payload) < Beyond THEN Len(f.payload) ELSE Beyond

LEMMA LimitIsSmall == MaxPayload \in Nat /\ MaxPayload < Beyond /\ Beyond \in Nat
<1>1. MaxPayload \in Nat /\ MaxPayload < Beyond
  BY TransportAssumption, Zenon
<1>2. QED
  BY <1>1 DEF Beyond

\* What decode_frame_header says of a header that is as it was sent.
LEMMA IntactHeader ==
  ASSUME NEW f \in Frame, NEW v \in TwoBytes, Encodable(f), NEW b \in Seq(Byte), Len(b) >= 20, HeaderUnchanged(b, f, v)
  PROVE  /\ KindIn(b) = f.kind /\ LengthIn(b) = Declared(f)
         /\ HeaderVerdict(b) = IF v # ProtocolVersion THEN "PROTOCOL_UNSUPPORTED"
                               ELSE IF Declared(f) > MaxPayload THEN "FRAME_TOO_LARGE" ELSE "none"
<1>1. /\ SubSeq(b, 1, 4) = FrameMagic /\ SubSeq(b, 5, 6) = Digits(v, 2) /\ SubSeq(b, 7, 8) = Digits(f.kind, 2)
      /\ SubSeq(b, 13, 16) = Digits(Len(f.payload), 4) /\ Checksum(SubSeq(b, 1, 16)) = SubSeq(b, 17, 20)
  BY IntactFields
<1>2. f.kind \in TwoBytes /\ Len(f.payload) \in Nat
  BY FrameParts
<1>3. \A x \in TwoBytes : Size(Digits(x, 2)) = x
  BY TwoDigits
<1>4. KindIn(b) = f.kind /\ Size(SubSeq(b, 5, 6)) = v
  BY <1>1, <1>2, <1>3, Zenon DEF KindIn
<1>5. LengthIn(b) = Declared(f)
  <2> DEFINE n == Len(f.payload)
  <2>1. n \in Nat
    BY <1>2
  <2>2. Fits(n)
    BY DEF Encodable
  <2>3. LengthIn(b) = Size(Digits(n, 4)) /\ Declared(f) = IF n < Beyond THEN n ELSE Beyond
    BY <1>1 DEF LengthIn, Declared
  <2> HIDE DEF n
  <2>4. Size(Digits(n, 4)) = IF n < Beyond THEN n ELSE Beyond
    BY <2>1, <2>2, FourDigits
  <2>5. QED
    BY <2>3, <2>4
<1>6. f.kind \in KnownKinds
  BY DEF Encodable
<1>7. QED
  BY <1>1, <1>4, <1>5, <1>6 DEF HeaderVerdict

LEMMA DamagedHeader ==
  ASSUME NEW f \in Frame, NEW v \in TwoBytes, NEW b \in Seq(Byte), Len(b) >= 20, NEW p \in 1..20,
         AgreeBut(b, EncodedFrame(f, v), 0, 20, p), b[p] # EncodedFrame(f, v)[p]
  PROVE  HeaderVerdict(b) = "FRAME_CORRUPT"
<1> DEFINE e == EncodedFrame(f, v)
           h == CoveredHeader(f, v)
<1>1. CheckedPart(e, 0, 16, h)
  BY HeaderIsChecked
<1>2. AgreeBut(b, e, 0, 0 + 16 + 4, p) /\ p \in (0 + 1)..(0 + 16 + 4) /\ b[p] # e[p] /\ 0 + 16 + 4 <= Len(b)
  BY LenProperties
<1> HIDE DEF e, h
<1>3. Checksum(SubSeq(b, 0 + 1, 0 + 16)) # SubSeq(b, 0 + 16 + 1, 0 + 16 + 4)
  BY <1>1, <1>2, DamageShows
<1>4. Checksum(SubSeq(b, 1, 16)) # SubSeq(b, 17, 20)
  BY <1>3
<1>5. QED
  BY <1>4 DEF HeaderVerdict

\* What a header says depends on its twenty bytes only.
LEMMA SamePart ==
  ASSUME NEW b \in Seq(Byte), NEW u \in Seq(Byte), NEW m \in Nat \ {0}, NEW n \in Nat, n <= Len(b), n <= Len(u),
         \A i \in 1..n : b[i] = u[i]
  PROVE  SubSeq(b, m, n) = SubSeq(u, m, n)
<1> DEFINE s == SubSeq(b, m, n)
           t == SubSeq(u, m, n)
<1>1. /\ s \in Seq(Byte) /\ Len(s) = (IF m <= n THEN n - m + 1 ELSE 0)
      /\ \A i \in 1..(n - m + 1) : s[i] = b[m + i - 1]
  BY PartIsSeq
<1>2. /\ t \in Seq(Byte) /\ Len(t) = (IF m <= n THEN n - m + 1 ELSE 0)
      /\ \A i \in 1..(n - m + 1) : t[i] = u[m + i - 1]
  BY PartIsSeq
<1> HIDE DEF s, t
<1>3. \A i \in 1..(n - m + 1) : m + i - 1 \in 1..n
  OBVIOUS
<1>4. \A i \in 1..(n - m + 1) : s[i] = t[i]
  BY <1>1, <1>2, <1>3
<1>5. Len(s) = Len(t) /\ 1..Len(s) \subseteq 1..(n - m + 1)
  BY <1>1, <1>2
<1>6. s = t
  BY <1>1, <1>2, <1>4, <1>5, SeqEqual
<1>7. QED
  BY <1>6 DEF s, t

LEMMA SameHeader ==
  ASSUME NEW b \in Seq(Byte), NEW u \in Seq(Byte), Len(b) >= 20, Len(u) >= 20, \A i \in 1..20 : b[i] = u[i]
  PROVE  HeaderVerdict(b) = HeaderVerdict(u) /\ LengthIn(b) = LengthIn(u)
<1>1. \A m \in Nat \ {0}, n \in 1..20 : SubSeq(b, m, n) = SubSeq(u, m, n)
  <2>1. ASSUME NEW m \in Nat \ {0}, NEW n \in 1..20 PROVE SubSeq(b, m, n) = SubSeq(u, m, n)
    <3>1. n \in Nat /\ n <= 20 /\ \A i \in 1..n : i \in 1..20
      BY ONLY n \in 1..20
    <3>2. Len(b) \in Nat /\ Len(u) \in Nat
      BY LenProperties
    <3>3. n <= Len(b) /\ n <= Len(u)
      BY ONLY <3>1, <3>2, Len(b) >= 20, Len(u) >= 20
    <3>4. \A i \in 1..n : b[i] = u[i]
      BY <3>1
    <3>5. QED
      BY ONLY <3>1, <3>3, <3>4, b \in Seq(Byte), u \in Seq(Byte), m \in Nat \ {0}, SamePart
  <2>2. QED
    BY <2>1
<1>2. /\ SubSeq(b, 1, 4) = SubSeq(u, 1, 4) /\ SubSeq(b, 1, 16) = SubSeq(u, 1, 16) /\ SubSeq(b, 17, 20) = SubSeq(u, 17, 20)
      /\ SubSeq(b, 5, 6) = SubSeq(u, 5, 6) /\ SubSeq(b, 7, 8) = SubSeq(u, 7, 8) /\ SubSeq(b, 13, 16) = SubSeq(u, 13, 16)
  BY <1>1
<1>3. KindIn(b) = KindIn(u) /\ LengthIn(b) = LengthIn(u)
  BY ONLY <1>2 DEF KindIn, LengthIn
<1>4. HeaderVerdict(b) = HeaderVerdict(u)
  BY ONLY <1>2, <1>3 DEF HeaderVerdict
<1>5. QED
  BY <1>3, <1>4

\* Whichever one byte is another one than was sent: the header is refused as corrupt, or is as it was sent.
LEMMA HeaderJudged ==
  ASSUME NEW f \in Frame, NEW v \in TwoBytes, NEW b \in Seq(Byte), Len(b) >= 20, NEW q \in Int,
         AgreeBut(b, EncodedFrame(f, v), 0, 20, q)
  PROVE  (HeaderVerdict(b) = "FRAME_CORRUPT" /\ q > 0) \/ HeaderUnchanged(b, f, v)
<1>1. CASE q \in 1..20 /\ b[q] # EncodedFrame(f, v)[q]
  <2>1. HeaderVerdict(b) = "FRAME_CORRUPT"
    BY <1>1, DamagedHeader
  <2>2. q > 0
    BY <1>1
  <2>3. QED
    BY <2>1, <2>2
<1>2. CASE ~(q \in 1..20 /\ b[q] # EncodedFrame(f, v)[q])
  <2> DEFINE e == EncodedFrame(f, v)
  <2> HIDE DEF e
  <2>1. ASSUME NEW i \in (0 + 1)..20 PROVE b[i] = e[i]
    <3>1. CASE i = q
      BY <1>2, <3>1 DEF e
    <3>2. CASE i # q
      BY <3>2 DEF AgreeBut, e
    <3>3. QED
      BY <3>1, <3>2
  <2>2. QED
    BY <2>1 DEF HeaderUnchanged, AgreeBut, e
<1>3. QED
  BY <1>1, <1>2

\* A header that is accepted is as it was sent, and tells the length of the payload.
LEMMA AcceptedHeader ==
  ASSUME NEW f \in Frame, NEW v \in TwoBytes, Encodable(f), NEW b \in Seq(Byte), Len(b) >= 20, HeaderVerdict(b) = "none",
         NEW q \in Int, AgreeBut(b, EncodedFrame(f, v), 0, 20, q)
  PROVE  HeaderUnchanged(b, f, v) /\ LengthIn(b) = Len(f.payload) /\ KindIn(b) = f.kind
<1>1. HeaderUnchanged(b, f, v)
  BY HeaderJudged
<1>2. /\ KindIn(b) = f.kind /\ LengthIn(b) = Declared(f)
      /\ HeaderVerdict(b) = IF v # ProtocolVersion THEN "PROTOCOL_UNSUPPORTED"
                            ELSE IF Declared(f) > MaxPayload THEN "FRAME_TOO_LARGE" ELSE "none"
  BY <1>1, IntactHeader
<1>3. ~(Declared(f) > MaxPayload)
  BY <1>2
<1>4. Declared(f) = Len(f.payload)
  BY <1>3, FrameParts, LimitIsSmall DEF Declared
<1>5. QED
  BY <1>1, <1>2, <1>4

\* A whole frame is refused as corrupt, or is the one that was sent.
LEMMA FrameJudged ==
  ASSUME NEW f \in Frame, NEW v \in TwoBytes, Encodable(f), NEW b \in Seq(Byte),
         Len(b) = FrameOverhead + Len(f.payload), HeaderVerdict(b) = "none",
         NEW q \in Int, AgreeBut(b, EncodedFrame(f, v), 0, Len(b), q)
  PROVE  (FrameVerdict(b) = "FRAME_CORRUPT" /\ q > 0) \/ (FrameVerdict(b) = "none" /\ FrameIn(b) = f)
<1> DEFINE n == Len(f.payload)
           e == EncodedFrame(f, v)
           t == f.payload
<1>1. n \in Nat /\ Len(b) = 24 + n /\ n = Len(t)
  BY FrameParts DEF FrameOverhead
<1>2. CheckedPart(e, 20, n, t)
  BY PayloadIsChecked
<1> HIDE DEF n, e, t
<1>3. AgreeBut(b, e, 0, 20, q)
  BY <1>1 DEF AgreeBut, e
<1>4. HeaderUnchanged(b, f, v) /\ LengthIn(b) = n /\ KindIn(b) = f.kind
  BY <1>1, <1>3, AcceptedHeader DEF n, e
<1>5. PayloadIn(b) = SubSeq(b, 20 + 1, 20 + n) /\ SubSeq(b, Len(b) - 3, Len(b)) = SubSeq(b, 20 + n + 1, 20 + n + 4)
  <2>1. Len(b) - 3 = 20 + n + 1 /\ Len(b) = 20 + n + 4
    BY <1>1
  <2>2. QED
    BY <1>4, <2>1 DEF PayloadIn, FrameHeaderSize
<1>6. CASE q \in (20 + 1)..(20 + n + 4) /\ b[q] # e[q]
  <2>1. AgreeBut(b, e, 20, 20 + n + 4, q)
    BY <1>1 DEF AgreeBut, e
  <2>2. 20 + n + 4 <= Len(b)
    BY <1>1
  <2>3. Checksum(SubSeq(b, 20 + 1, 20 + n)) # SubSeq(b, 20 + n + 1, 20 + n + 4)
    BY <1>2, <1>6, <2>1, <2>2, DamageShows
  <2>4. FrameVerdict(b) = "FRAME_CORRUPT"
    BY <1>5, <2>3 DEF FrameVerdict
  <2>5. q > 0
    BY <1>1, <1>6
  <2>6. QED
    BY <2>4, <2>5
<1>7. CASE ~(q \in (20 + 1)..(20 + n + 4) /\ b[q] # e[q])
  <2>1. AgreeBut(b, e, 20, 20 + n + 4, 0)
    <3>1. ASSUME NEW i \in (20 + 1)..(20 + n + 4) PROVE b[i] = e[i]
      <4>1. CASE i = q
        BY <1>7, <3>1, <4>1
      <4>2. CASE i # q
        <5>1. i \in (0 + 1)..Len(b)
          BY <1>1
        <5>2. QED
          BY <4>2, <5>1 DEF AgreeBut, e
      <4>3. QED
        BY <4>1, <4>2
    <3>2. QED
      BY <3>1 DEF AgreeBut
  <2>2. 20 + n + 4 <= Len(b)
    BY <1>1
  <2>3. Shows(b, 20, n, t)
    BY <1>2, <2>1, <2>2, IntactShows
  <2>4. SubSeq(b, 20 + 1, 20 + n) = t /\ SubSeq(b, 20 + n + 1, 20 + n + 4) = Checksum(t)
    BY <2>3 DEF Shows, IsPart
  <2>5. PayloadIn(b) = t /\ FrameVerdict(b) = "none"
    BY <1>5, <2>4 DEF FrameVerdict
  <2>6. Len(b) >= 20
    BY <1>1
  <2>7. SubSeq(b, 9, 12) = f.flags
    BY ONLY f \in Frame, v \in TwoBytes, b \in Seq(Byte), <1>4, <2>6, IntactFields
  <2>8. FrameIn(b) = [kind |-> f.kind, flags |-> f.flags, payload |-> f.payload]
    BY <1>4, <2>5, <2>7 DEF FrameIn, t
  <2>9. f = [kind |-> f.kind, flags |-> f.flags, payload |-> f.payload]
    BY DEF Frame
  <2>10. QED
    BY <2>5, <2>8, <2>9
<1>8. QED
  BY <1>6, <1>7

--------------------------------------------------------------------------------
(* Frames in flight *)

\* From after o on, s is e, but for the place q of e.
Holds(s, o, e, q) == \A j \in 1..Len(e) : j # q => s[o + j] = e[j]

Extent(f) == FrameOverhead + Len(f.payload)

\* Where in all that is sent each frame of s ends.
Laid(c, s) ==
  /\ c \in [0..Len(s) -> Nat]
  /\ \A i \in 1..Len(s) : c[i] = c[i - 1] + Extent(s[i])
  /\ \A i, j \in 0..Len(s) : i <= j => c[i] <= c[j]

\* fl is the frames of s after the first k, but for the place p of all that is sent.
Carries(fl, s, k, v, c, p) ==
  /\ Len(fl) = c[Len(s)] - c[k]
  /\ \A i \in (k + 1)..Len(s) : Holds(fl, c[i - 1] - c[k], EncodedFrame(s[i], v), p - c[i - 1])

LEMMA Extents ==
  ASSUME NEW f \in Frame, NEW v \in TwoBytes
  PROVE  /\ Extent(f) \in Nat /\ Extent(f) >= 24 /\ Extent(f) = 24 + Len(f.payload) /\ Len(f.payload) \in Nat
         /\ EncodedFrame(f, v) \in Seq(Byte) /\ Len(EncodedFrame(f, v)) = Extent(f)
BY FrameParts, PayloadIsChecked DEF Extent, FrameOverhead

\* A frame lies within what is in flight.
LEMMA FrameInside ==
  ASSUME NEW s \in Seq(Frame), NEW c, Laid(c, s), NEW k \in 0..Len(s), NEW i \in (k + 1)..Len(s)
  PROVE  /\ c[i - 1] \in Nat /\ c[i] \in Nat /\ c[k] \in Nat /\ c[Len(s)] \in Nat
         /\ c[k] <= c[i - 1] /\ c[i] = c[i - 1] + Extent(s[i]) /\ c[i] <= c[Len(s)] /\ s[i] \in Frame
<1>1. Len(s) \in Nat
  BY LenProperties
<1>2. i \in 1..Len(s) /\ i \in 0..Len(s) /\ i - 1 \in 0..Len(s) /\ Len(s) \in 0..Len(s) /\ k <= i - 1 /\ i <= Len(s)
  BY <1>1
<1>3. s[i] \in Frame
  BY <1>2, ElementOfSeq
<1>4. QED
  BY <1>2, <1>3 DEF Laid

\* The first frame in flight.
LEMMA FirstFrame ==
  ASSUME NEW s \in Seq(Frame), NEW v \in TwoBytes, NEW fl \in Seq(Byte), NEW k \in 0..Len(s), k < Len(s),
         NEW c, NEW p \in Nat, Laid(c, s), Carries(fl, s, k, v, c, p)
  PROVE  /\ Len(fl) >= Extent(s[k + 1]) /\ c[k + 1] = c[k] + Extent(s[k + 1]) /\ c[k] \in Nat /\ c[k + 1] \in Nat
         /\ p - c[k] \in Int /\ AgreeBut(fl, EncodedFrame(s[k + 1], v), 0, Extent(s[k + 1]), p - c[k])
<1>1. k \in Nat /\ Len(s) \in Nat
  BY LenProperties
<1>2. k + 1 \in (k + 1)..Len(s) /\ (k + 1) - 1 = k
  BY <1>1
<1> DEFINE i == k + 1
           e == EncodedFrame(s[i], v)
           x == Extent(s[i])
<1>3. /\ c[i] \in Nat /\ c[k] \in Nat /\ c[Len(s)] \in Nat
      /\ c[i] = c[k] + x /\ c[i] <= c[Len(s)] /\ s[i] \in Frame
  BY <1>1, <1>2, FrameInside
<1>4. x \in Nat /\ Len(e) = x
  BY <1>3, Extents
<1>5. Len(fl) = c[Len(s)] - c[k] /\ Holds(fl, c[k] - c[k], e, p - c[k])
  BY <1>2 DEF Carries
<1> HIDE DEF i, e, x
<1>6. Len(fl) >= x /\ p - c[k] \in Int
  BY <1>3, <1>4, <1>5
<1>7. AgreeBut(fl, e, 0, x, p - c[k])
  <2> DEFINE q == p - c[k]
  <2>1. q \in Int /\ c[k] - c[k] = 0
    BY <1>3
  <2> HIDE DEF q
  <2>2. ASSUME NEW j \in (0 + 1)..x, j # q PROVE fl[j] = e[j]
    <3>1. j \in 1..Len(e) /\ 0 + j = j
      BY <1>4
    <3>2. \A l \in 1..Len(e) : l # q => fl[0 + l] = e[l]
      BY <1>5, <2>1 DEF Holds, q
    <3>3. QED
      BY <2>2, <3>1, <3>2
  <2>3. QED
    BY <2>2 DEF AgreeBut, q
<1>8. QED
  BY <1>3, <1>6, <1>7 DEF i, e, x

\* The first frame has been read: what follows it remains in flight.
LEMMA DropFrame ==
  ASSUME NEW s \in Seq(Frame), NEW v \in TwoBytes, NEW b \in Seq(Byte), NEW r \in Seq(Byte), NEW k \in 0..Len(s), k < Len(s),
         NEW c, NEW p \in Nat, Laid(c, s), Carries(b \o r, s, k, v, c, p), Len(b) = Extent(s[k + 1])
  PROVE  Carries(r, s, k + 1, v, c, p)
<1> DEFINE fl == b \o r
           h == k + 1
<1>1. /\ b \o r \in Seq(Byte) /\ Len(b \o r) = Len(b) + Len(r) /\ Len(b) \in Nat /\ Len(r) \in Nat
      /\ \A i \in 1..(Len(b) + Len(r)) : (b \o r)[i] = IF i <= Len(b) THEN b[i] ELSE r[i - Len(b)]
  BY ConcatProperties, LenProperties
<1> HIDE DEF fl
<1>2. /\ fl \in Seq(Byte) /\ Len(fl) = Len(b) + Len(r)
      /\ \A i \in 1..(Len(b) + Len(r)) : fl[i] = IF i <= Len(b) THEN b[i] ELSE r[i - Len(b)]
  BY <1>1 DEF fl
<1>3. Carries(fl, s, k, v, c, p)
  BY DEF fl
<1>4. c[h] = c[k] + Extent(s[h]) /\ c[k] \in Nat /\ c[h] \in Nat
  BY <1>2, <1>3, FirstFrame
<1>5. Len(b) = c[h] - c[k]
  BY <1>4, <1>1
<1>6. k \in Nat /\ Len(s) \in Nat /\ h \in 0..Len(s) /\ h \in Nat /\ h = k + 1
  BY LenProperties
<1>7. Len(fl) = c[Len(s)] - c[k] /\ c[Len(s)] \in Nat
  <2>1. Len(s) \in 0..Len(s)
    BY <1>6
  <2>2. QED
    BY <1>3, <2>1 DEF Carries, Laid
<1> HIDE DEF h
<1>8. Len(r) = c[Len(s)] - c[h]
  <2>1. Len(fl) = Len(b) + Len(r) /\ Len(b) \in Nat /\ Len(r) \in Nat
    BY <1>1, <1>2
  <2>2. QED
    BY ONLY <2>1, <1>4, <1>5, <1>7
<1>9. ASSUME NEW i \in (h + 1)..Len(s)
      PROVE  Holds(r, c[i - 1] - c[h], EncodedFrame(s[i], v), p - c[i - 1])
  <2> DEFINE e == EncodedFrame(s[i], v)
             x == c[i - 1]
             y == c[h]
             z == c[k]
  <2>1. i \in (k + 1)..Len(s)
    BY <1>6
  <2>2. /\ x \in Nat /\ c[i] \in Nat /\ y <= x /\ c[i] = x + Extent(s[i]) /\ c[i] <= c[Len(s)] /\ s[i] \in Frame
    BY <1>6, FrameInside
  <2>3. Len(e) = Extent(s[i]) /\ Extent(s[i]) \in Nat
    BY <2>2, Extents
  <2>4. Holds(fl, x - z, e, p - x)
    BY <1>3, <2>1 DEF Carries
  <2>5. y \in Nat /\ z \in Nat /\ Len(b) = y - z
    BY <1>4, <1>5
  <2>6. /\ Len(r) = c[Len(s)] - y /\ c[Len(s)] \in Nat /\ x \in Nat /\ x + Len(e) <= c[Len(s)]
        /\ Len(e) \in Nat /\ y <= x
    BY <1>7, <1>8, <2>2, <2>3
  <2> HIDE DEF e, x, y, z
  <2>7. x - y + Len(e) <= Len(r)
    BY ONLY <2>6, <2>5
  <2>8. ASSUME NEW j \in 1..Len(e), j # p - x PROVE r[(x - y) + j] = e[j]
    <3>1. fl[(x - z) + j] = e[j]
      BY <2>4, <2>8 DEF Holds
    <3>2. /\ (x - z) + j \in 1..(Len(b) + Len(r)) /\ ~((x - z) + j <= Len(b))
          /\ ((x - z) + j) - Len(b) = (x - y) + j
      <4>1. Len(b) \in Nat /\ Len(r) \in Nat /\ j \in Nat /\ 1 <= j /\ j <= Len(e)
        BY <1>1, <2>6
      <4>2. /\ x \in Nat /\ y \in Nat /\ z \in Nat /\ y <= x /\ Len(b) = y - z
            /\ x - y + Len(e) <= Len(r) /\ Len(e) \in Nat
        BY <2>6, <2>5, <2>7
      <4>3. QED
        BY ONLY <4>1, <4>2
    <3>3. QED
      BY <1>2, <3>1, <3>2
  <2>9. QED
    BY <2>8 DEF Holds, e, x, y, z
<1>10. QED
  BY <1>8, <1>9 DEF Carries, h

\* One byte is changed on the way: from then on that is the place where they differ.
LEMMA ChangeOne ==
  ASSUME NEW s \in Seq(Frame), NEW v \in TwoBytes, NEW fl \in Seq(Byte), NEW u \in Seq(Byte), Len(u) = Len(fl),
         NEW h \in Nat, \A i \in 1..Len(fl) : i # h => u[i] = fl[i],
         NEW k \in 0..Len(s), NEW c, Laid(c, s), Carries(fl, s, k, v, c, 0)
  PROVE  Carries(u, s, k, v, c, c[k] + h) /\ c[k] + h \in Nat
<1>1. c[k] \in Nat
  BY DEF Laid
<1>2. Len(fl) = c[Len(s)] - c[k]
  BY DEF Carries
<1>3. ASSUME NEW i \in (k + 1)..Len(s)
      PROVE  Holds(u, c[i - 1] - c[k], EncodedFrame(s[i], v), (c[k] + h) - c[i - 1])
  <2> DEFINE e == EncodedFrame(s[i], v)
             x == c[i - 1]
             z == c[k]
             l == c[Len(s)]
  <2>1. /\ x \in Nat /\ z \in Nat /\ l \in Nat /\ z <= x /\ c[i] = x + Extent(s[i]) /\ c[i] <= l /\ s[i] \in Frame
    BY FrameInside
  <2>2. Len(e) = Extent(s[i]) /\ Extent(s[i]) \in Nat
    BY <2>1, Extents
  <2>3. Holds(fl, x - z, e, 0 - x)
    BY DEF Carries
  <2>4. x + Len(e) <= l /\ Len(fl) = l - z /\ Len(e) \in Nat
    BY <1>2, <2>1, <2>2
  <2> HIDE DEF e, x, z, l
  <2>5. ASSUME NEW j \in 1..Len(e), j # (z + h) - x PROVE u[(x - z) + j] = e[j]
    <3>1. j # 0 - x /\ (x - z) + j \in 1..Len(fl) /\ (x - z) + j # h
      BY ONLY <2>1, <2>4, <2>5, j \in 1..Len(e), h \in Nat
    <3>2. fl[(x - z) + j] = e[j]
      BY <2>3, <3>1 DEF Holds
    <3>3. QED
      BY <3>1, <3>2
  <2>6. QED
    BY <2>5 DEF Holds, e, x, z
<1>4. QED
  BY <1>1, <1>2, <1>3 DEF Carries

\* The positions with one more frame at the end.
Further(c, s, f) == [i \in 0..(Len(s) + 1) |-> IF i <= Len(s) THEN c[i] ELSE c[Len(s)] + Extent(f)]

LEMMA LaidFurther ==
  ASSUME NEW s \in Seq(Frame), NEW f \in Frame, NEW c, Laid(c, s)
  PROVE  Laid(Further(c, s, f), Append(s, f))
<1> DEFINE t == Append(s, f)
           d == Further(c, s, f)
           m == Len(s)
<1>1. m \in Nat /\ Extent(f) \in Nat /\ c[m] \in Nat /\ \A i \in 0..m : c[i] \in Nat
  <2>1. m \in Nat /\ Extent(f) \in Nat
    BY LenProperties, FrameParts DEF Extent, FrameOverhead
  <2>2. \A i \in 0..m : c[i] \in Nat
    BY DEF Laid
  <2>3. m \in 0..m
    BY <2>1
  <2>4. QED
    BY <2>1, <2>2, <2>3
<1>2. Len(t) = m + 1 /\ t[m + 1] = f /\ \A i \in 1..m : t[i] = s[i]
  BY AppendProperties
<1>3. /\ d = [i \in 0..(m + 1) |-> IF i <= m THEN c[i] ELSE c[m] + Extent(f)]
  BY DEF Further
<1> HIDE DEF t, d
<1>4. (\A i \in 0..m : d[i] = c[i]) /\ d[m + 1] = c[m] + Extent(f)
  <2>1. ASSUME NEW i \in 0..m PROVE d[i] = c[i]
    <3>1. i \in 0..(m + 1) /\ i <= m
      BY <1>1
    <3>2. QED
      BY <1>3, <3>1
  <2>2. m + 1 \in 0..(m + 1) /\ ~(m + 1 <= m)
    BY <1>1
  <2>3. d[m + 1] = c[m] + Extent(f)
    BY <1>3, <2>2
  <2>4. QED
    BY <2>1, <2>3
<1>5. d \in [0..(m + 1) -> Nat]
  <2>1. \A i \in 0..(m + 1) : (IF i <= m THEN c[i] ELSE c[m] + Extent(f)) \in Nat
    BY <1>1
  <2>2. QED
    BY <1>3, <2>1
<1>6. (\A i \in 1..m : c[i] = c[i - 1] + Extent(s[i])) /\ \A i, j \in 0..m : i <= j => c[i] <= c[j]
  BY DEF Laid
<1>7. ASSUME NEW i \in 1..(m + 1) PROVE d[i] = d[i - 1] + Extent(t[i])
  <2>1. CASE i <= m
    <3>1. i \in 1..m /\ i \in 0..m /\ i - 1 \in 0..m
      BY <1>1, <2>1
    <3>2. QED
      BY <1>2, <1>4, <1>6, <3>1
  <2>2. CASE ~(i <= m)
    <3>1. i = m + 1 /\ i - 1 = m /\ m \in 0..m
      BY <1>1, <2>2
    <3>2. QED
      BY <1>2, <1>4, <3>1
  <2>3. QED
    BY <2>1, <2>2
<1>8. ASSUME NEW i \in 0..(m + 1), NEW j \in 0..(m + 1), i <= j PROVE d[i] <= d[j]
  <2>1. CASE j <= m
    <3>1. i \in 0..m /\ j \in 0..m
      BY <1>1, <1>8, <2>1
    <3>2. QED
      BY <1>4, <1>6, <1>8, <3>1
  <2>2. CASE ~(j <= m) /\ i <= m
    <3>1. j = m + 1 /\ i \in 0..m /\ m \in 0..m
      BY <1>1, <2>2
    <3>2. d[i] = c[i] /\ d[j] = c[m] + Extent(f) /\ c[i] <= c[m] /\ c[i] \in Nat
      BY <1>1, <1>4, <1>6, <2>2, <3>1
    <3>3. QED
      BY <1>1, <3>2
  <2>3. CASE ~(j <= m) /\ ~(i <= m)
    <3>1. i = j /\ d[j] \in Nat
      BY <1>1, <1>5, <2>3
    <3>2. QED
      BY <3>1
  <2>4. QED
    BY <2>1, <2>2, <2>3
<1>9. QED
  BY <1>2, <1>5, <1>7, <1>8 DEF Laid, t, d

\* A frame is handed to the sender: it is in flight behind the others.
LEMMA AddFrame ==
  ASSUME NEW s \in Seq(Frame), NEW v \in TwoBytes, NEW fl \in Seq(Byte), NEW f \in Frame, NEW k \in 0..Len(s),
         NEW c, NEW p \in Nat, Laid(c, s), Carries(fl, s, k, v, c, p)
  PROVE  Carries(fl \o EncodedFrame(f, v), Append(s, f), k, v, Further(c, s, f), p)
<1> DEFINE t == Append(s, f)
           d == Further(c, s, f)
           m == Len(s)
           w == EncodedFrame(f, v)
           u == fl \o w
<1>1. w \in Seq(Byte) /\ Len(w) = Extent(f) /\ Extent(f) \in Nat
  BY Extents
<1> HIDE DEF w
<1>2. /\ fl \o w \in Seq(Byte) /\ Len(fl \o w) = Len(fl) + Len(w) /\ Len(fl) \in Nat
      /\ \A i \in 1..(Len(fl) + Len(w)) : (fl \o w)[i] = IF i <= Len(fl) THEN fl[i] ELSE w[i - Len(fl)]
  BY <1>1, ConcatProperties, LenProperties
<1> HIDE DEF u
<1>3. /\ Len(u) = Len(fl) + Len(w) /\ Len(fl) \in Nat
      /\ \A i \in 1..(Len(fl) + Len(w)) : u[i] = IF i <= Len(fl) THEN fl[i] ELSE w[i - Len(fl)]
  BY <1>2 DEF u
<1>4. t \in Seq(Frame) /\ Len(t) = m + 1 /\ t[m + 1] = f /\ (\A i \in 1..m : t[i] = s[i]) /\ m \in Nat
  BY AppendProperties, LenProperties
<1>5. Laid(d, t)
  BY LaidFurther
<1>6. (\A i \in 0..m : d[i] = c[i]) /\ d[m + 1] = c[m] + Extent(f)
  <2>1. ASSUME NEW i \in 0..m PROVE d[i] = c[i]
    <3>1. i \in 0..(m + 1) /\ i <= m
      BY <1>4
    <3>2. QED
      BY <3>1 DEF Further
  <2>2. m + 1 \in 0..(m + 1) /\ ~(m + 1 <= m)
    BY <1>4
  <2>3. d[m + 1] = c[m] + Extent(f)
    BY <2>2 DEF Further
  <2>4. QED
    BY <2>1, <2>3
<1> HIDE DEF t, d
<1>7. Len(fl) = c[m] - c[k] /\ c[m] \in Nat /\ c[k] \in Nat /\ m \in 0..m
  <2>1. m \in 0..m
    BY <1>4
  <2>2. QED
    BY <2>1 DEF Carries, Laid
<1>8. Len(u) = d[m + 1] - d[k]
  BY <1>1, <1>3, <1>6, <1>7
<1>9. ASSUME NEW i \in (k + 1)..(m + 1)
      PROVE  Holds(u, d[i - 1] - d[k], EncodedFrame(t[i], v), p - d[i - 1])
  <2>1. CASE i <= m
    <3> DEFINE e == EncodedFrame(s[i], v)
               x == c[i - 1]
               z == c[k]
               l == c[m]
    <3>1. i \in (k + 1)..m /\ i \in 1..m /\ i - 1 \in 0..m
      BY <1>4, <2>1
    <3>2. EncodedFrame(t[i], v) = e /\ d[i - 1] = x /\ d[k] = z
      BY <1>4, <1>6, <3>1
    <3>3. Holds(fl, x - z, e, p - x)
      BY <3>1 DEF Carries
    <3>4. x \in Nat /\ z \in Nat /\ l \in Nat /\ z <= x /\ c[i] = x + Extent(s[i]) /\ c[i] <= l /\ s[i] \in Frame
      BY <3>1, FrameInside
    <3>5. Len(e) = Extent(s[i]) /\ Extent(s[i]) \in Nat
      BY <3>4, Extents
    <3>6. x + Len(e) <= l /\ Len(fl) = l - z /\ Len(e) \in Nat
      BY <1>7, <3>4, <3>5
    <3>7. Len(w) \in Nat
      BY <1>1
    <3> HIDE DEF e, x, z, l
    <3>8. ASSUME NEW j \in 1..Len(e), j # p - x PROVE u[(x - z) + j] = e[j]
      <4>1. (x - z) + j \in 1..(Len(fl) + Len(w)) /\ (x - z) + j <= Len(fl)
        BY ONLY <3>4, <3>6, <3>7, j \in 1..Len(e)
      <4>2. fl[(x - z) + j] = e[j]
        BY <3>3, <3>8 DEF Holds
      <4>3. QED
        BY <1>3, <4>1, <4>2
    <3>9. Holds(u, x - z, e, p - x)
      BY <3>8 DEF Holds
    <3>10. QED
      BY <3>2, <3>9
  <2>2. CASE ~(i <= m)
    <3>1. i = m + 1 /\ i - 1 = m
      BY <1>4, <2>2
    <3>2. EncodedFrame(t[i], v) = w /\ d[i - 1] - d[k] = Len(fl)
      BY <1>4, <1>6, <1>7, <3>1 DEF w
    <3>3. ASSUME NEW j \in 1..Len(w) PROVE u[Len(fl) + j] = w[j]
      <4>1. Len(w) \in Nat /\ Len(fl) \in Nat
        BY <1>1, <1>3
      <4>2. Len(fl) + j \in 1..(Len(fl) + Len(w)) /\ ~(Len(fl) + j <= Len(fl)) /\ (Len(fl) + j) - Len(fl) = j
        BY ONLY <4>1, j \in 1..Len(w)
      <4>3. QED
        BY <1>3, <4>2
    <3>4. Holds(u, Len(fl), w, p - d[i - 1])
      BY <3>3 DEF Holds
    <3>5. QED
      BY <3>2, <3>4
  <2>3. QED
    BY <2>1, <2>2
<1>10. QED
  BY <1>4, <1>8, <1>9 DEF Carries, t, d, u, w

LEMMA Regrouped == \A s, t, u \in Seq(Byte) : (s \o t) \o u = s \o (t \o u)
<1>1. ASSUME NEW s \in Seq(Byte), NEW t \in Seq(Byte), NEW u \in Seq(Byte) PROVE (s \o t) \o u = s \o (t \o u)
  BY ConcatAssociative
<1>2. QED
  BY <1>1

\* A piece moves from the front of w to the end of b.
LEMMA PieceMoves ==
  ASSUME NEW b \in Seq(Byte), NEW w \in Seq(Byte), NEW n \in Nat, n <= Len(w)
  PROVE  /\ SubSeq(w, 1, n) \in Seq(Byte) /\ SubSeq(w, n + 1, Len(w)) \in Seq(Byte)
         /\ Len(SubSeq(w, 1, n)) = n /\ Len(SubSeq(w, n + 1, Len(w))) = Len(w) - n
         /\ b \o SubSeq(w, 1, n) \in Seq(Byte) /\ Len(b \o SubSeq(w, 1, n)) = Len(b) + n
         /\ (b \o SubSeq(w, 1, n)) \o SubSeq(w, n + 1, Len(w)) = b \o w
<1> DEFINE x == SubSeq(w, 1, n)
           y == SubSeq(w, n + 1, Len(w))
<1>1. Len(w) \in Nat /\ Len(b) \in Nat
  BY LenProperties
<1>2. x \in Seq(Byte) /\ Len(x) = n
  <2>1. x \in Seq(Byte) /\ Len(x) = IF 1 <= n THEN n - 1 + 1 ELSE 0
    BY PartIsSeq
  <2>2. QED
    BY <2>1
<1>3. y \in Seq(Byte) /\ Len(y) = Len(w) - n
  <2>1. n + 1 \in Nat \ {0}
    OBVIOUS
  <2>2. y \in Seq(Byte) /\ Len(y) = IF n + 1 <= Len(w) THEN Len(w) - (n + 1) + 1 ELSE 0
    BY <1>1, <2>1, PartIsSeq
  <2>3. QED
    BY <1>1, <2>2
<1>4. x \o y = w
  <2>1. 1 \in 1..(Len(w) + 1) /\ n \in (1 - 1)..Len(w) /\ Len(w) \in n..Len(w)
    BY <1>1
  <2>2. x \o y = SubSeq(w, 1, Len(w))
    BY <2>1, ConcatAdjacentSubSeq
  <2>3. QED
    BY <2>2, SubSeqFull
<1> HIDE DEF x, y
<1>5. b \o x \in Seq(Byte) /\ Len(b \o x) = Len(b) + n
  BY <1>2, ConcatProperties
<1>6. (b \o x) \o y = b \o (x \o y)
  <2>1. x \in Seq(Byte) /\ y \in Seq(Byte)
    BY <1>2, <1>3
  <2>2. QED
    BY ONLY <2>1, b \in Seq(Byte), Regrouped, Zenon
<1>7. QED
  BY <1>2, <1>3, <1>4, <1>5, <1>6 DEF x, y

LEMMA Associated ==
  ASSUME NEW b \in Seq(Byte), NEW w \in Seq(Byte), NEW g \in Seq(Byte)
  PROVE  (b \o w) \o g = b \o (w \o g) /\ w \o g \in Seq(Byte) /\ b \o w \in Seq(Byte) /\ (b \o w) \o g \in Seq(Byte)
<1>1. w \o g \in Seq(Byte) /\ b \o w \in Seq(Byte)
  BY ConcatProperties
<1>2. (b \o w) \o g \in Seq(Byte)
  BY <1>1, ConcatProperties
<1>3. QED
  BY <1>1, <1>2, Regrouped

--------------------------------------------------------------------------------
(* The inductive invariant *)

Offered == UNION {{o[i] : i \in DOMAIN o} : o \in Outboxes}

TypesOK ==
  /\ outbox \in Seq(Frame) /\ \A i \in 1..Len(outbox) : outbox[i] \in Offered
  /\ version \in TwoBytes
  /\ sent \in Seq(Frame) /\ \A i \in 1..Len(sent) : Encodable(sent[i])
  /\ sending \in Seq(Byte) /\ wire \in Seq(Byte) /\ buffer \in Seq(Byte)
  /\ alive \in BOOLEAN /\ changed \in BOOLEAN
  /\ received \in Seq(Frame)

\* What has been returned is the beginning of what was sent.
Returned == Len(received) <= Len(sent) /\ \A i \in 1..Len(received) : received[i] = sent[i]

\* What is still to be sent is of the last frame.
Leftover == sending # <<>> => Len(sent) > 0 /\ Len(sending) <= Extent(sent[Len(sent)])

\* Why the receiver has given up; a frame that is too large is one of those sent.
Explained ==
  /\ verdict \in {"none", "FRAME_CORRUPT", "FRAME_TOO_LARGE", "PROTOCOL_UNSUPPORTED", "FRAME_TRUNCATED", "TRANSPORT_CLOSED"}
  /\ verdict = "FRAME_TOO_LARGE" => Len(received) < Len(sent)
  /\ FailsForTheReason

\* All that the receiver has not returned, wherever it is.
Flight == (buffer \o wire) \o sending

\* It is the frames that were sent, but for the one place where a byte was changed.
Tracked ==
  \E c, p : /\ Laid(c, sent) /\ p \in Nat /\ (~changed => p = 0)
            /\ Carries(Flight, sent, Len(received), version, c, p)

\* The buffer is short of what is read next, and the header in it was accepted.
InStep == Len(buffer) < Target /\ (Len(buffer) >= 20 => HeaderVerdict(buffer) = "none")

IInv == TypesOK /\ Returned /\ Leftover /\ Explained /\ (verdict = "none" => Tracked /\ InStep)

LEMMA Initially == Init => IInv
<1> SUFFICES ASSUME Init PROVE IInv
  OBVIOUS
<1>1. /\ sent = <<>> /\ sending = <<>> /\ wire = <<>> /\ buffer = <<>> /\ received = <<>> /\ verdict = "none"
      /\ changed = FALSE /\ alive = TRUE
  BY DEF Init
<1>2. outbox \in Seq(Frame) /\ version \in TwoBytes
  BY TransportAssumption DEF Init
<1>3. \A i \in 1..Len(outbox) : outbox[i] \in Offered
  <2>1. DOMAIN outbox = 1..Len(outbox)
    BY <1>2, LenProperties
  <2>2. QED
    BY <2>1 DEF Init, Offered
<1>4. <<>> \in Seq(Byte) /\ <<>> \in Seq(Frame) /\ Len(<<>>) = 0
  BY EmptySeq
<1>5. TypesOK
  <2>1. \A i \in 1..Len(sent) : Encodable(sent[i])
    BY <1>1, <1>4
  <2>2. QED
    BY <1>1, <1>2, <1>3, <1>4, <2>1 DEF TypesOK
<1>6. Returned /\ Leftover /\ Explained
  BY <1>1, <1>4 DEF Returned, Leftover, Explained, FailsForTheReason
<1>7. InStep
  BY <1>1, <1>4 DEF InStep, Target, FrameHeaderSize
<1>8. Tracked
  <2> DEFINE c == [i \in 0..0 |-> 0]
  <2>1. Laid(c, <<>>)
    BY <1>4 DEF Laid
  <2>2. Flight = <<>>
    BY <1>1, <1>4, ConcatEmptySeq DEF Flight
  <2>3. Carries(Flight, <<>>, 0, version, c, 0)
    BY <1>4, <2>2 DEF Carries
  <2>4. QED
    BY <1>1, <1>4, <2>1, <2>3 DEF Tracked
<1>9. QED
  BY <1>5, <1>6, <1>7, <1>8 DEF IInv

\* Bytes that only move stay where they are in the flight.
LEMMA StillTracked ==
  ASSUME Tracked, UNCHANGED <<version, sent, received, changed>>, Flight' = Flight
  PROVE  Tracked'
<1>1. PICK c, p : /\ Laid(c, sent) /\ p \in Nat /\ (~changed => p = 0)
                  /\ Carries(Flight, sent, Len(received), version, c, p)
  BY DEF Tracked
<1>2. /\ Laid(c, sent') /\ p \in Nat /\ (~changed' => p = 0)
      /\ Carries(Flight', sent', Len(received'), version', c, p)
  BY <1>1
<1>3. QED
  BY <1>2 DEF Tracked

\* What the receiver has at the front of the flight is the first frame it waits for.
LEMMA FrontOfFlight ==
  ASSUME TypesOK, Returned, Tracked, NEW b \in Seq(Byte), NEW r \in Seq(Byte), b \o r = Flight, Len(b) > 0
  PROVE  /\ Len(received) < Len(sent) /\ Awaited \in Frame /\ Encodable(Awaited)
         /\ \E c, p : /\ Laid(c, sent) /\ p \in Nat /\ (~changed => p = 0) /\ c[Len(received)] \in Nat
                      /\ Carries(b \o r, sent, Len(received), version, c, p)
                      /\ \A n \in Nat : n <= Len(b) /\ n <= Extent(Awaited) =>
                           AgreeBut(b, EncodedFrame(Awaited, version), 0, n, p - c[Len(received)])
<1>1. PICK c, p : /\ Laid(c, sent) /\ p \in Nat /\ (~changed => p = 0)
                  /\ Carries(Flight, sent, Len(received), version, c, p)
  BY DEF Tracked
<1> DEFINE k == Len(received)
           m == Len(sent)
           fl == b \o r
<1>2. k \in Nat /\ m \in Nat /\ k <= m /\ sent \in Seq(Frame) /\ version \in TwoBytes
  BY LenProperties DEF TypesOK, Returned
<1>3. /\ b \o r \in Seq(Byte) /\ Len(b \o r) = Len(b) + Len(r) /\ Len(b) \in Nat /\ Len(r) \in Nat
      /\ \A i \in 1..(Len(b) + Len(r)) : (b \o r)[i] = IF i <= Len(b) THEN b[i] ELSE r[i - Len(b)]
  BY ConcatProperties, LenProperties
<1> HIDE DEF fl, k, m
<1>4. fl \in Seq(Byte) /\ Len(fl) > 0 /\ Len(b) \in Nat /\ \A i \in 1..Len(b) : fl[i] = b[i]
  <2>1. fl \in Seq(Byte) /\ Len(fl) > 0 /\ Len(b) \in Nat
    BY <1>3 DEF fl
  <2>2. ASSUME NEW i \in 1..Len(b) PROVE fl[i] = b[i]
    <3>1. i \in 1..(Len(b) + Len(r)) /\ i <= Len(b)
      BY <1>3
    <3>2. QED
      BY <1>3, <3>1 DEF fl
  <2>3. QED
    BY <2>1, <2>2
<1>5. Carries(fl, sent, k, version, c, p)
  BY <1>1 DEF fl, k
<1>6. k < m
  <2>1. Len(fl) = c[m] - c[k]
    BY <1>5 DEF Carries, m
  <2>2. m \in 0..m /\ c[m] \in Nat
    <3>1. m \in 0..m
      BY ONLY <1>2
    <3>2. c \in [0..m -> Nat]
      BY <1>1, Zenon DEF Laid, m
    <3>3. QED
      BY ONLY <3>1, <3>2
  <2>3. k # m
    <3>1. Len(fl) > 0
      BY <1>4
    <3>2. c[m] - c[m] = 0
      BY <2>2
    <3>3. QED
      BY <2>1, <3>1, <3>2
  <2>4. QED
    BY <1>2, <2>3
<1>7. k \in 0..Len(sent) /\ k < Len(sent) /\ k + 1 \in 1..Len(sent)
  BY <1>2, <1>6 DEF m
<1>8. sent[k + 1] = Awaited /\ Awaited \in Frame /\ Encodable(Awaited)
  BY <1>2, <1>7, ElementOfSeq DEF Awaited, k, TypesOK
<1>9. /\ c[k] \in Nat /\ p - c[k] \in Int
      /\ AgreeBut(fl, EncodedFrame(sent[k + 1], version), 0, Extent(sent[k + 1]), p - c[k])
  BY <1>1, <1>2, <1>4, <1>5, <1>7, FirstFrame
<1>10. ASSUME NEW n \in Nat, n <= Len(b), n <= Extent(Awaited)
       PROVE  AgreeBut(b, EncodedFrame(Awaited, version), 0, n, p - c[k])
  <2> DEFINE e == EncodedFrame(Awaited, version)
             q == p - c[k]
             x == Extent(Awaited)
  <2>1. AgreeBut(fl, e, 0, x, q) /\ x \in Nat /\ n <= x
    BY <1>2, <1>8, <1>9, <1>10, Extents
  <2> HIDE DEF e, q, x
  <2>2. ASSUME NEW i \in (0 + 1)..n, i # q PROVE b[i] = e[i]
    <3>1. i \in (0 + 1)..x /\ i \in 1..Len(b)
      BY <1>4, <1>10, <2>1
    <3>2. QED
      BY <1>4, <2>1, <2>2, <3>1 DEF AgreeBut
  <2>3. QED
    BY <2>2 DEF AgreeBut, e, q
<1>11. QED
  BY <1>1, <1>5, <1>6, <1>8, <1>9, <1>10 DEF k, m, fl

\* The header at the front of the flight is accepted or refused for the right reason.
LEMMA HeaderAnswer ==
  ASSUME TypesOK, Returned, Tracked, NEW b \in Seq(Byte), NEW r \in Seq(Byte), b \o r = Flight, Len(b) >= 20
  PROVE  /\ Len(received) < Len(sent) /\ Awaited \in Frame /\ Encodable(Awaited)
         /\ HeaderVerdict(b) \in {"none", "FRAME_CORRUPT", "FRAME_TOO_LARGE", "PROTOCOL_UNSUPPORTED"}
         /\ HeaderVerdict(b) = "FRAME_CORRUPT" => changed
         /\ HeaderVerdict(b) = "FRAME_TOO_LARGE" => Len(Awaited.payload) > MaxPayload
         /\ HeaderVerdict(b) = "PROTOCOL_UNSUPPORTED" => version # ProtocolVersion
         /\ HeaderVerdict(b) = "none" => LengthIn(b) = Len(Awaited.payload)
<1> DEFINE f == Awaited
           v == version
<1>1. Len(b) > 0
  BY LenProperties
<1>2. /\ Len(received) < Len(sent) /\ f \in Frame /\ Encodable(f)
      /\ \E c, p : /\ Laid(c, sent) /\ p \in Nat /\ (~changed => p = 0) /\ c[Len(received)] \in Nat
                   /\ Carries(b \o r, sent, Len(received), version, c, p)
                   /\ \A n \in Nat : n <= Len(b) /\ n <= Extent(f) =>
                        AgreeBut(b, EncodedFrame(f, v), 0, n, p - c[Len(received)])
  BY <1>1, FrontOfFlight
<1>3. v \in TwoBytes /\ changed \in BOOLEAN
  BY DEF TypesOK
<1> HIDE DEF f, v
<1>4. Extent(f) \in Nat /\ Extent(f) >= 24 /\ Len(f.payload) \in Nat
  BY <1>2, <1>3, Extents
<1>5. PICK c, p : /\ p \in Nat /\ (~changed => p = 0) /\ c[Len(received)] \in Nat
                  /\ \A n \in Nat : n <= Len(b) /\ n <= Extent(f) =>
                       AgreeBut(b, EncodedFrame(f, v), 0, n, p - c[Len(received)])
  BY <1>2
<1>6. PICK q \in Int : q = p - c[Len(received)]
  BY <1>5
<1>7. AgreeBut(b, EncodedFrame(f, v), 0, 20, q)
  <2>1. 20 <= Len(b) /\ 20 <= Extent(f)
    BY <1>4, LenProperties
  <2>2. AgreeBut(b, EncodedFrame(f, v), 0, 20, p - c[Len(received)])
    BY <1>5, <2>1
  <2>3. QED
    BY <1>6, <2>2
<1>8. q > 0 => changed
  BY <1>5, <1>6
<1>9. (HeaderVerdict(b) = "FRAME_CORRUPT" /\ q > 0) \/ HeaderUnchanged(b, f, v)
  BY ONLY <1>2, <1>3, <1>7, b \in Seq(Byte), Len(b) >= 20, q \in Int, HeaderJudged
<1>10. CASE HeaderVerdict(b) = "FRAME_CORRUPT" /\ q > 0
  BY <1>2, <1>8, <1>10 DEF f
<1>11. CASE HeaderUnchanged(b, f, v)
  <2>1. /\ LengthIn(b) = Declared(f)
        /\ HeaderVerdict(b) = IF v # ProtocolVersion THEN "PROTOCOL_UNSUPPORTED"
                              ELSE IF Declared(f) > MaxPayload THEN "FRAME_TOO_LARGE" ELSE "none"
    <3>1. f \in Frame /\ v \in TwoBytes /\ Encodable(f)
      BY <1>2, <1>3
    <3>2. QED
      BY ONLY <3>1, <1>11, b \in Seq(Byte), Len(b) >= 20, IntactHeader
  <2>2. MaxPayload \in Nat /\ MaxPayload < Beyond /\ Beyond \in Nat
    BY LimitIsSmall
  <2>3. Declared(f) > MaxPayload => Len(f.payload) > MaxPayload
    BY <1>4, <2>2 DEF Declared
  <2>4. ~(Declared(f) > MaxPayload) => Declared(f) = Len(f.payload)
    BY <1>4, <2>2 DEF Declared
  <2>5. /\ HeaderVerdict(b) \in {"none", "FRAME_TOO_LARGE", "PROTOCOL_UNSUPPORTED"}
        /\ HeaderVerdict(b) = "FRAME_TOO_LARGE" => Declared(f) > MaxPayload
        /\ HeaderVerdict(b) = "PROTOCOL_UNSUPPORTED" => v # ProtocolVersion
        /\ HeaderVerdict(b) = "none" => ~(Declared(f) > MaxPayload)
    BY ONLY <2>1
  <2>6. QED
    BY ONLY <1>2, <2>1, <2>3, <2>4, <2>5 DEF f, v
<1>12. QED
  BY <1>9, <1>10, <1>11

\* A whole frame at the front of the flight is refused as corrupt, or is the one that is awaited.
LEMMA FrameAnswer ==
  ASSUME TypesOK, Returned, Tracked, NEW b \in Seq(Byte), NEW r \in Seq(Byte), b \o r = Flight,
         HeaderVerdict(b) = "none", Len(b) = FrameOverhead + LengthIn(b), Len(b) >= 20
  PROVE  /\ Len(received) < Len(sent)
         /\ \/ FrameVerdict(b) = "FRAME_CORRUPT" /\ changed
            \/ /\ FrameVerdict(b) = "none" /\ FrameIn(b) = Awaited /\ Awaited \in Frame
               /\ \E c, p : /\ Laid(c, sent) /\ p \in Nat /\ (~changed => p = 0)
                            /\ Carries(r, sent, Len(received) + 1, version, c, p)
<1> DEFINE f == Awaited
           v == version
           k == Len(received)
<1>1. Len(b) > 0
  BY LenProperties
<1>2. /\ k < Len(sent) /\ f \in Frame /\ Encodable(f)
      /\ \E c, p : /\ Laid(c, sent) /\ p \in Nat /\ (~changed => p = 0) /\ c[k] \in Nat
                   /\ Carries(b \o r, sent, k, v, c, p)
                   /\ \A n \in Nat : n <= Len(b) /\ n <= Extent(f) => AgreeBut(b, EncodedFrame(f, v), 0, n, p - c[k])
  BY <1>1, FrontOfFlight
<1>3. v \in TwoBytes /\ sent \in Seq(Frame) /\ changed \in BOOLEAN
  BY DEF TypesOK
<1>4. k \in 0..Len(sent) /\ f = sent[k + 1]
  BY <1>2, LenProperties DEF TypesOK, Awaited
<1>5. LengthIn(b) = Len(f.payload)
  BY HeaderAnswer
<1> HIDE DEF f, v, k
<1>6. Extent(f) \in Nat /\ Len(b) = Extent(f) /\ Len(b) = FrameOverhead + Len(f.payload)
  BY <1>2, <1>3, <1>5, Extents DEF Extent
<1>7. PICK c, p : /\ Laid(c, sent) /\ p \in Nat /\ (~changed => p = 0) /\ c[k] \in Nat
                  /\ Carries(b \o r, sent, k, v, c, p)
                  /\ \A n \in Nat : n <= Len(b) /\ n <= Extent(f) => AgreeBut(b, EncodedFrame(f, v), 0, n, p - c[k])
  BY <1>2
<1>8. PICK q \in Int : q = p - c[k]
  BY <1>7
<1>9. AgreeBut(b, EncodedFrame(f, v), 0, Len(b), q)
  BY <1>6, <1>7, <1>8
<1>10. q > 0 => changed
  BY <1>7, <1>8
<1>11. (FrameVerdict(b) = "FRAME_CORRUPT" /\ q > 0) \/ (FrameVerdict(b) = "none" /\ FrameIn(b) = f)
  BY ONLY <1>2, <1>3, <1>6, <1>9, b \in Seq(Byte), HeaderVerdict(b) = "none", q \in Int, FrameJudged
<1>12. Carries(r, sent, k + 1, v, c, p)
  BY <1>2, <1>3, <1>4, <1>6, <1>7, DropFrame
<1>13. \E x, y : /\ Laid(x, sent) /\ y \in Nat /\ (~changed => y = 0) /\ Carries(r, sent, k + 1, v, x, y)
  BY <1>7, <1>12
<1>14. QED
  BY ONLY <1>2, <1>10, <1>11, <1>13 DEF f, v, k

\* What a receiver that gives up says of a sender that has left.
LEMMA ClosedAnswer ==
  ASSUME IInv, verdict = "none", wire = <<>>, ~alive
  PROVE  \/ ClosedVerdict = "FRAME_TRUNCATED" /\ sending # <<>> /\ Len(received) < Len(sent)
         \/ /\ ClosedVerdict = "TRANSPORT_CLOSED"
            /\ Len(received) < Len(sent) =>
                 Len(received) = Len(sent) - 1 /\ Len(sending) > FrameOverhead - FrameHeaderSize + Len(Awaited.payload)
<1> DEFINE k == Len(received)
           m == Len(sent)
<1>1. TypesOK /\ Returned /\ Leftover /\ Tracked /\ InStep
  BY DEF IInv
<1>2. /\ k \in Nat /\ m \in Nat /\ k <= m /\ sent \in Seq(Frame) /\ version \in TwoBytes
      /\ buffer \in Seq(Byte) /\ sending \in Seq(Byte) /\ Len(buffer) \in Nat /\ Len(sending) \in Nat
  BY <1>1, LenProperties DEF TypesOK, Returned
<1>3. Flight = buffer \o sending /\ Len(Flight) = Len(buffer) + Len(sending) /\ Flight \in Seq(Byte)
  <2>1. buffer \o <<>> = buffer
    BY <1>2, ConcatEmptySeq
  <2>2. /\ buffer \o sending \in Seq(Byte) /\ Len(buffer \o sending) = Len(buffer) + Len(sending)
    BY <1>2, ConcatProperties
  <2>3. QED
    BY <2>1, <2>2 DEF Flight
<1>4. PICK c, p : Laid(c, sent) /\ p \in Nat /\ Carries(Flight, sent, k, version, c, p)
  BY <1>1 DEF Tracked
<1>5. sending = <<>> => Len(sending) = 0
  BY EmptySeq
<1>6. CASE Len(buffer) >= FrameHeaderSize
  <2>1. Len(buffer) >= 20 /\ HeaderVerdict(buffer) = "none" /\ Target = FrameOverhead + LengthIn(buffer)
    BY <1>1, <1>2, <1>6 DEF InStep, FrameHeaderSize, Target
  <2>2. k < m /\ LengthIn(buffer) = Len(Awaited.payload)
    BY <1>1, <1>2, <1>3, <2>1, HeaderAnswer
  <2>3. k \in 0..Len(sent) /\ k < Len(sent)
    BY <1>2, <2>2
  <2>4. Len(Flight) >= Extent(Awaited)
    BY <1>2, <1>3, <1>4, <2>3, FirstFrame DEF Awaited
  <2>5. Len(buffer) < Extent(Awaited) /\ Extent(Awaited) \in Nat
    <3>1. Awaited \in Frame
      BY <1>1, <1>2, <1>3, <2>1, HeaderAnswer
    <3>2. Extent(Awaited) \in Nat
      BY <1>2, <3>1, Extents
    <3>3. QED
      BY <1>1, <2>1, <2>2, <3>2 DEF InStep, Extent
  <2>6. sending # <<>>
    BY <1>2, <1>3, <1>5, <2>4, <2>5
  <2>7. ClosedVerdict = "FRAME_TRUNCATED"
    BY <1>2, <1>6 DEF ClosedVerdict, FrameHeaderSize
  <2>8. QED
    BY <2>2, <2>6, <2>7
<1>7. CASE ~(Len(buffer) >= FrameHeaderSize)
  <2>1. ClosedVerdict = "TRANSPORT_CLOSED" /\ Len(buffer) < 20
    BY <1>2, <1>7 DEF ClosedVerdict, FrameHeaderSize
  <2>2. ASSUME k < m
        PROVE  k = m - 1 /\ Len(sending) > FrameOverhead - FrameHeaderSize + Len(Awaited.payload)
    <3>1. k \in 0..Len(sent) /\ k < Len(sent) /\ k + 1 \in (k + 1)..Len(sent) /\ m \in (k + 1)..Len(sent)
      BY <1>2, <2>2
    <3>2. c[k + 1] = c[k] + Extent(sent[k + 1]) /\ c[k] \in Nat /\ c[k + 1] \in Nat
      <4> HIDE DEF k, m
      <4>1. k + 1 \in 1..Len(sent) /\ (k + 1) - 1 = k /\ k + 1 \in 0..Len(sent)
        BY <1>2, <3>1
      <4>2. c \in [0..Len(sent) -> Nat] /\ \A i \in 1..Len(sent) : c[i] = c[i - 1] + Extent(sent[i])
        BY <1>4 DEF Laid
      <4>3. c[k + 1] = c[(k + 1) - 1] + Extent(sent[k + 1])
        BY <4>1, <4>2
      <4>4. QED
        BY <3>1, <4>1, <4>2, <4>3
    <3>3. /\ c[m - 1] \in Nat /\ c[m] = c[m - 1] + Extent(sent[m]) /\ sent[m] \in Frame
      BY <1>2, <1>4, <3>1, FrameInside
    <3>4. Len(Flight) = c[m] - c[k]
      BY <1>4 DEF Carries
    <3>5. Len(sending) <= Extent(sent[m]) /\ Extent(sent[m]) \in Nat
      <4>1. Extent(sent[m]) \in Nat
        BY <1>2, <3>3, Extents
      <4>2. QED
        BY <1>1, <1>2, <1>5, <4>1 DEF Leftover
    <3>6. c[m - 1] - c[k] < 20
      BY <1>2, <1>3, <2>1, <3>2, <3>3, <3>4, <3>5
    <3>7. k = m - 1
      <4>1. SUFFICES ASSUME k # m - 1 PROVE FALSE
        OBVIOUS
      <4>2. k + 1 \in 0..Len(sent) /\ m - 1 \in 0..Len(sent) /\ k + 1 <= m - 1
        BY <1>2, <2>2, <4>1
      <4>3. c[k + 1] <= c[m - 1]
        BY <1>4, <4>2 DEF Laid
      <4>4. sent[k + 1] \in Frame
        BY <1>2, <1>4, <3>1, FrameInside
      <4>5. Extent(sent[k + 1]) >= 24 /\ Extent(sent[k + 1]) \in Nat
        BY <1>2, <4>4, Extents
      <4>6. QED
        BY ONLY <3>2, <3>3, <3>6, <4>3, <4>5
    <3>8. Extent(sent[m]) = 24 + Len(Awaited.payload) /\ Len(Awaited.payload) \in Nat
      <4>1. k + 1 = m
        BY <1>2, <3>7
      <4>2. Awaited = sent[m]
        BY <4>1 DEF Awaited
      <4>3. QED
        BY <1>2, <3>3, <4>2, Extents
    <3>9. Len(buffer) + Len(sending) = 24 + Len(Awaited.payload)
      <4>1. c[m] - c[k] = Extent(sent[m])
        BY <3>2, <3>3, <3>5, <3>7
      <4>2. QED
        BY <1>3, <3>4, <3>8, <4>1
    <3>10. Len(sending) > 4 + Len(Awaited.payload)
      BY ONLY <1>2, <2>1, <3>8, <3>9
    <3>11. FrameOverhead - FrameHeaderSize + Len(Awaited.payload) = 4 + Len(Awaited.payload)
      BY <3>8 DEF FrameOverhead, FrameHeaderSize
    <3>12. QED
      BY <3>7, <3>10, <3>11
  <2>3. QED
    BY <2>1, <2>2
<1>8. QED
  BY <1>6, <1>7

--------------------------------------------------------------------------------
(* The steps *)

ChannelStep == Channel!Next \/ UNCHANGED <<sent, received, verdict # "none">>

\* The reason given stays right: nothing is taken from what it is about.
LEMMA StillExplained ==
  ASSUME TypesOK, Returned, Explained, UNCHANGED <<version, received, verdict>>, changed => changed',
         ~alive => ~alive' /\ UNCHANGED <<sent, sending>>,
         Len(sent') >= Len(sent), \A i \in 1..Len(sent) : sent'[i] = sent[i], Len(sent') \in Nat
  PROVE  Explained'
<1>1. Len(received) \in Nat /\ Len(sent) \in Nat /\ Len(received) <= Len(sent)
  BY LenProperties DEF TypesOK, Returned
<1>2. Len(received) < Len(sent) => Len(received)' < Len(sent') /\ Awaited' = Awaited
  <2>1. ASSUME Len(received) < Len(sent) PROVE Len(received)' < Len(sent') /\ Awaited' = Awaited
    <3>1. Len(received) + 1 \in 1..Len(sent) /\ Len(received)' = Len(received)
      BY <1>1, <2>1
    <3>2. sent'[Len(received)' + 1] = sent[Len(received) + 1]
      BY <3>1
    <3>3. Len(received)' < Len(sent')
      BY ONLY <1>1, <2>1, <3>1, Len(sent') >= Len(sent), Len(sent') \in Nat
    <3>4. QED
      BY <3>2, <3>3 DEF Awaited
  <2>2. QED
    BY <2>1
<1>3. verdict' = verdict /\ version' = version /\ Len(received)' = Len(received)
  OBVIOUS
<1>4. /\ verdict \in {"none", "FRAME_CORRUPT", "FRAME_TOO_LARGE", "PROTOCOL_UNSUPPORTED", "FRAME_TRUNCATED", "TRANSPORT_CLOSED"}
      /\ verdict = "FRAME_TOO_LARGE" => Len(received) < Len(sent)
  BY DEF Explained
<1>5. FailsForTheReason
  BY DEF Explained
<1>6. CASE verdict \in {"none", "FRAME_CORRUPT", "PROTOCOL_UNSUPPORTED"}
  BY <1>3, <1>5, <1>6 DEF Explained, FailsForTheReason
<1>7. CASE verdict = "FRAME_TOO_LARGE"
  BY <1>2, <1>3, <1>4, <1>5, <1>7 DEF Explained, FailsForTheReason
<1>8. CASE verdict \in {"FRAME_TRUNCATED", "TRANSPORT_CLOSED"}
  <2>1. ~alive
    BY <1>5, <1>8 DEF FailsForTheReason
  <2>2. ~alive' /\ sent' = sent /\ sending' = sending /\ received' = received
    BY <2>1
  <2>3. Awaited' = Awaited
    BY <2>2 DEF Awaited
  <2>4. QED
    BY <1>3, <1>5, <1>8, <2>1, <2>2, <2>3 DEF Explained, FailsForTheReason
<1>9. QED
  BY <1>4, <1>6, <1>7, <1>8

LEMMA StillInStep ==
  ASSUME InStep, UNCHANGED buffer
  PROVE  InStep'
BY DEF InStep, Target, LengthIn, HeaderVerdict, KindIn

LEMMA BeginFrameKeeps ==
  ASSUME IInv, BeginFrame
  PROVE  IInv' /\ ChannelStep
<1>1. TypesOK /\ Returned /\ Leftover /\ Explained /\ (verdict = "none" => Tracked /\ InStep)
  BY DEF IInv
<1>2. /\ alive /\ sending = <<>> /\ outbox # <<>> /\ outbox' = Tail(outbox)
      /\ UNCHANGED <<version, alive, wire, changed, buffer, received, verdict>>
  BY DEF BeginFrame, receiver
<1> DEFINE f == Head(outbox)
           m == Len(sent)
<1>3. outbox \in Seq(Frame) /\ \A i \in 1..Len(outbox) : outbox[i] \in Offered
  BY <1>1 DEF TypesOK
<1>4. /\ f \in Frame /\ f \in Offered
      /\ outbox' \in Seq(Frame) /\ \A i \in 1..Len(outbox') : outbox'[i] \in Offered
  <2>1. /\ Head(outbox) \in Frame /\ Tail(outbox) \in Seq(Frame) /\ Len(Tail(outbox)) = Len(outbox) - 1
        /\ \A i \in 1..Len(Tail(outbox)) : Tail(outbox)[i] = outbox[i + 1]
    BY <1>2, <1>3, HeadTailProperties
  <2>2. Len(outbox) \in Nat /\ Len(outbox) > 0 /\ Head(outbox) = outbox[1]
    BY <1>2, <1>3, EmptySeq, LenProperties
  <2>3. f \in Offered
    BY <1>3, <2>2
  <2>4. ASSUME NEW i \in 1..Len(outbox') PROVE outbox'[i] \in Offered
    <3>1. i \in 1..Len(Tail(outbox)) /\ i + 1 \in 1..Len(outbox)
      BY <1>2, <2>1, <2>2
    <3>2. QED
      BY <1>2, <1>3, <2>1, <3>1
  <2>5. QED
    BY <1>2, <2>1, <2>3, <2>4
<1>5. /\ sent \in Seq(Frame) /\ (\A i \in 1..Len(sent) : Encodable(sent[i])) /\ version \in TwoBytes
      /\ wire \in Seq(Byte) /\ buffer \in Seq(Byte) /\ received \in Seq(Frame) /\ m \in Nat
      /\ Len(received) \in Nat /\ Len(received) <= m
  BY <1>1, LenProperties DEF TypesOK, Returned
<1>6. CASE Encodable(f)
  <2>1. sent' = Append(sent, f) /\ sending' = EncodedFrame(f, version)
    BY <1>6 DEF BeginFrame
  <2> HIDE DEF f
  <2>2. EncodedFrame(f, version) \in Seq(Byte) /\ Len(EncodedFrame(f, version)) = Extent(f) /\ Extent(f) \in Nat
    BY <1>4, <1>5, Extents
  <2>3. /\ sent' \in Seq(Frame) /\ Len(sent') = m + 1 /\ sent'[m + 1] = f
        /\ \A i \in 1..m : sent'[i] = sent[i]
    BY <1>4, <1>5, <2>1, AppendProperties
  <2> HIDE DEF m
  <2>4. TypesOK'
    <3>1. ASSUME NEW i \in 1..Len(sent') PROVE Encodable(sent'[i])
      <4>1. i \in 1..m \/ i = m + 1
        BY <1>5, <2>3
      <4>2. QED
        BY <1>5, <1>6, <2>3, <4>1 DEF m
    <3>2. QED
      BY <1>1, <1>2, <1>4, <2>1, <2>2, <2>3, <3>1 DEF TypesOK
  <2>5. Returned'
    <3>1. ASSUME NEW i \in 1..Len(received) PROVE received[i] = sent'[i]
      <4>1. i \in 1..m
        BY <1>5
      <4>2. QED
        BY <1>1, <2>3, <4>1 DEF Returned
    <3>2. Len(received) <= Len(sent')
      BY <1>5, <2>3
    <3>3. QED
      BY <1>2, <3>1, <3>2 DEF Returned
  <2>6. Leftover'
    BY <1>5, <2>1, <2>2, <2>3 DEF Leftover
  <2>7. Explained'
    <3>1. Len(sent') >= Len(sent) /\ Len(sent') \in Nat /\ \A i \in 1..Len(sent) : sent'[i] = sent[i]
      BY <1>5, <2>3 DEF m
    <3>2. QED
      BY <1>1, <1>2, <3>1, StillExplained
  <2>8. ASSUME verdict = "none" PROVE Tracked' /\ InStep'
    <3>1. Tracked /\ InStep
      BY <1>1, <2>8
    <3>2. InStep'
      BY <1>2, <3>1, StillInStep
    <3>3. PICK c, p : /\ Laid(c, sent) /\ p \in Nat /\ (~changed => p = 0)
                      /\ Carries(Flight, sent, Len(received), version, c, p)
      BY <3>1 DEF Tracked
    <3>4. Flight \in Seq(Byte) /\ Flight' = Flight \o EncodedFrame(f, version)
      <4>1. buffer \o wire \in Seq(Byte)
        BY <1>5, ConcatProperties
      <4>2. (buffer \o wire) \o <<>> = buffer \o wire
        BY <4>1, ConcatEmptySeq
      <4>3. Flight = buffer \o wire
        BY <1>2, <4>2 DEF Flight
      <4>4. Flight' = (buffer \o wire) \o EncodedFrame(f, version)
        BY <1>2, <2>1 DEF Flight
      <4>5. QED
        BY <4>1, <4>3, <4>4
    <3>5. Len(received) \in 0..Len(sent)
      BY <1>5 DEF m
    <3> DEFINE d == Further(c, sent, f)
    <3>6. Laid(d, Append(sent, f)) /\ Carries(Flight \o EncodedFrame(f, version), Append(sent, f), Len(received), version, d, p)
      BY <1>4, <1>5, <3>3, <3>4, <3>5, LaidFurther, AddFrame
    <3> HIDE DEF d
    <3>7. /\ Laid(d, sent') /\ p \in Nat /\ (~changed' => p = 0)
          /\ Carries(Flight', sent', Len(received'), version', d, p)
      BY <1>2, <2>1, <3>3, <3>4, <3>6
    <3>8. Tracked'
      BY <3>7 DEF Tracked
    <3>9. QED
      BY <3>2, <3>8
  <2>9. ChannelStep
    <3>1. Channel!Send(f)
      BY <1>2, <2>1 DEF Channel!Send
    <3>2. QED
      BY <1>4, <3>1 DEF ChannelStep, Channel!Next, Offered
  <2>10. QED
    BY <1>2, <2>4, <2>5, <2>6, <2>7, <2>8, <2>9 DEF IInv
<1>7. CASE ~Encodable(f)
  <2>1. sent' = sent /\ sending' = sending
    BY <1>7 DEF BeginFrame
  <2>2. TypesOK' /\ Returned' /\ Leftover'
    BY <1>1, <1>2, <1>4, <2>1 DEF TypesOK, Returned, Leftover
  <2>3. Explained'
    BY <1>1, <1>2, <1>5, <2>1, StillExplained
  <2>4. Flight' = Flight
    BY <1>2, <2>1 DEF Flight
  <2>5. verdict = "none" => Tracked' /\ InStep'
    BY <1>1, <1>2, <2>1, <2>4, StillTracked, StillInStep
  <2>6. ChannelStep
    BY <1>2, <2>1 DEF ChannelStep
  <2>7. QED
    BY <1>2, <2>2, <2>3, <2>5, <2>6 DEF IInv
<1>8. QED
  BY <1>6, <1>7

LEMMA SendPieceKeeps ==
  ASSUME IInv, NEW piece \in Pieces, SendPiece(piece)
  PROVE  IInv' /\ ChannelStep
<1>1. TypesOK /\ Returned /\ Leftover /\ Explained /\ (verdict = "none" => Tracked /\ InStep)
  BY DEF IInv
<1> DEFINE n == Least(piece, Len(sending))
           x == SubSeq(sending, 1, n)
           y == SubSeq(sending, n + 1, Len(sending))
<1>2. /\ alive /\ sending # <<>> /\ wire' = wire \o x /\ sending' = y
      /\ UNCHANGED <<outbox, version, sent, alive, changed, buffer, received, verdict>>
  BY DEF SendPiece, receiver
<1>3. /\ wire \in Seq(Byte) /\ buffer \in Seq(Byte) /\ sending \in Seq(Byte) /\ Len(sending) \in Nat
      /\ sent \in Seq(Frame) /\ Len(sent) \in Nat
  BY <1>1, LenProperties DEF TypesOK
<1>4. n \in Nat /\ n <= Len(sending)
  <2>1. piece \in Nat
    BY TransportAssumption
  <2>2. QED
    BY <1>3, <2>1 DEF Least
<1> HIDE DEF n
<1>5. /\ x \in Seq(Byte) /\ y \in Seq(Byte) /\ Len(y) = Len(sending) - n
      /\ wire \o x \in Seq(Byte) /\ (wire \o x) \o y = wire \o sending
  BY <1>3, <1>4, PieceMoves
<1> HIDE DEF x, y
<1>6. TypesOK' /\ Returned'
  BY <1>1, <1>2, <1>5 DEF TypesOK, Returned
<1>7. Leftover'
  <2>1. Len(sent) > 0 /\ Len(sending) <= Extent(sent[Len(sent)])
    BY <1>1, <1>2 DEF Leftover
  <2>2. Extent(sent[Len(sent)]) \in Nat
    <3>1. Len(sent) \in 1..Len(sent)
      BY <1>3, <2>1
    <3>2. sent[Len(sent)] \in Frame
      BY <1>3, <3>1, ElementOfSeq
    <3>3. QED
      BY <3>2, FrameParts DEF Extent, FrameOverhead
  <2>3. Len(y) <= Extent(sent[Len(sent)])
    BY <1>3, <1>4, <1>5, <2>1, <2>2
  <2>4. QED
    BY <1>2, <2>1, <2>3 DEF Leftover
<1>8. Explained'
  BY <1>1, <1>2, <1>3, StillExplained
<1>9. Flight' = Flight
  <2> DEFINE a == wire \o x
  <2>1. buffer \in Seq(Byte) /\ a \in Seq(Byte) /\ y \in Seq(Byte)
    BY <1>3, <1>5
  <2> HIDE DEF a
  <2>2. (buffer \o a) \o y = buffer \o (a \o y)
    BY ONLY <2>1, Regrouped, Zenon
  <2>3. (buffer \o wire) \o sending = buffer \o (wire \o sending)
    BY ONLY <1>3, Regrouped, Zenon
  <2>4. Flight' = (buffer \o (wire \o x)) \o y
    BY <1>2 DEF Flight
  <2>5. QED
    BY <1>5, <2>2, <2>3, <2>4, Zenon DEF Flight, a
<1>10. verdict = "none" => Tracked' /\ InStep'
  BY <1>1, <1>2, <1>9, StillTracked, StillInStep
<1>11. ChannelStep
  BY <1>2 DEF ChannelStep
<1>12. QED
  BY <1>2, <1>6, <1>7, <1>8, <1>10, <1>11 DEF IInv

LEMMA SenderLeavesKeeps ==
  ASSUME IInv, SenderLeaves
  PROVE  IInv' /\ ChannelStep
<1>1. TypesOK /\ Returned /\ Leftover /\ Explained /\ (verdict = "none" => Tracked /\ InStep)
  BY DEF IInv
<1>2. /\ alive /\ alive' = FALSE
      /\ UNCHANGED <<outbox, version, sent, sending, wire, changed, buffer, received, verdict>>
  BY DEF SenderLeaves, receiver
<1>3. TypesOK' /\ Returned' /\ Leftover'
  BY <1>1, <1>2 DEF TypesOK, Returned, Leftover
<1>4. Len(sent) \in Nat
  BY <1>1, LenProperties DEF TypesOK
<1>5. Explained'
  BY <1>1, <1>2, <1>4, StillExplained
<1>6. Flight' = Flight
  BY <1>2 DEF Flight
<1>7. verdict = "none" => Tracked' /\ InStep'
  BY <1>1, <1>2, <1>6, StillTracked, StillInStep
<1>8. ChannelStep
  BY <1>2 DEF ChannelStep
<1>9. QED
  BY <1>2, <1>3, <1>5, <1>7, <1>8 DEF IInv

LEMMA JoinedBytes ==
  ASSUME NEW s \in Seq(Byte), NEW t \in Seq(Byte)
  PROVE  /\ s \o t \in Seq(Byte) /\ Len(s \o t) = Len(s) + Len(t)
         /\ \A j \in 1..(Len(s) + Len(t)) : (s \o t)[j] = IF j <= Len(s) THEN s[j] ELSE t[j - Len(s)]
BY ConcatProperties

\* What the receiver reads up to next lies ahead.
LEMMA TargetIsAhead ==
  ASSUME TypesOK, Returned, Tracked, InStep
  PROVE  /\ Target \in Nat /\ Len(buffer) < Target
         /\ Target = IF Len(buffer) < 20 THEN 20 ELSE 24 + LengthIn(buffer)
<1>1. /\ buffer \in Seq(Byte) /\ wire \in Seq(Byte) /\ sending \in Seq(Byte) /\ Len(buffer) \in Nat
  BY LenProperties DEF TypesOK
<1>2. CASE Len(buffer) < 20
  BY <1>2 DEF Target, FrameHeaderSize, InStep
<1>3. CASE ~(Len(buffer) < 20)
  <2>1. Len(buffer) >= 20 /\ HeaderVerdict(buffer) = "none"
    BY <1>1, <1>3 DEF InStep
  <2>2. buffer \o (wire \o sending) = Flight /\ wire \o sending \in Seq(Byte)
    BY <1>1, Associated DEF Flight
  <2>3. Awaited \in Frame /\ LengthIn(buffer) = Len(Awaited.payload)
    BY <1>1, <2>1, <2>2, HeaderAnswer
  <2>4. LengthIn(buffer) \in Nat
    BY <2>3, FrameParts
  <2>5. QED
    BY <1>3, <2>4 DEF Target, FrameHeaderSize, FrameOverhead, InStep
<1>4. QED
  BY <1>2, <1>3

\* A call of ::recv: b is what recv_frame then has, w what is left on the way.
LEMMA PieceTaken ==
  ASSUME IInv, NEW piece \in Pieces, RecvPiece(piece)
  PROVE  \E b, w \in Seq(Byte) :
           /\ Len(b) > Len(buffer) /\ Len(b) <= Target /\ \A i \in 1..Len(buffer) : b[i] = buffer[i]
           /\ b \o (w \o sending) = Flight /\ (b \o w) \o sending = Flight /\ w \o sending \in Seq(Byte)
           /\ wire' = w
           /\ IF Len(b) >= Target THEN Judge(b) ELSE buffer' = b /\ UNCHANGED <<received, verdict>>
<1>1. TypesOK /\ Returned /\ verdict = "none" /\ Tracked /\ InStep
  BY DEF IInv, RecvPiece
<1> DEFINE n == Least(piece, Least(Target - Len(buffer), Len(wire)))
           b == buffer \o SubSeq(wire, 1, n)
           w == SubSeq(wire, n + 1, Len(wire))
<1>2. /\ wire # <<>> /\ wire' = w
      /\ IF Len(b) >= Target THEN Judge(b) ELSE buffer' = b /\ UNCHANGED <<received, verdict>>
  BY DEF RecvPiece
<1>3. buffer \in Seq(Byte) /\ wire \in Seq(Byte) /\ sending \in Seq(Byte) /\ Len(buffer) \in Nat /\ Len(wire) \in Nat
  BY <1>1, LenProperties DEF TypesOK
<1>4. n \in Nat /\ n > 0 /\ n <= Len(wire) /\ Len(buffer) + n <= Target
  <2>1. piece \in Nat /\ piece > 0
    BY TransportAssumption
  <2>2. Target \in Nat /\ Len(buffer) < Target
    BY <1>1, TargetIsAhead
  <2>3. Len(wire) > 0
    BY <1>2, <1>3, EmptySeq
  <2>4. QED
    BY <1>3, <2>1, <2>2, <2>3 DEF Least
<1> HIDE DEF n
<1> DEFINE x == SubSeq(wire, 1, n)
<1>5. /\ x \in Seq(Byte) /\ w \in Seq(Byte) /\ Len(x) = n
      /\ b \in Seq(Byte) /\ Len(b) = Len(buffer) + n /\ b \o w = buffer \o wire
  BY <1>3, <1>4, PieceMoves
<1>6. \A i \in 1..Len(buffer) : b[i] = buffer[i]
  <2>1. \A i \in 1..(Len(buffer) + Len(x)) : (buffer \o x)[i] = IF i <= Len(buffer) THEN buffer[i] ELSE x[i - Len(buffer)]
    BY <1>3, <1>5, ConcatProperties
  <2>2. \A i \in 1..Len(buffer) : i \in 1..(Len(buffer) + Len(x)) /\ i <= Len(buffer)
    BY <1>3, <1>4, <1>5
  <2> HIDE DEF x
  <2>3. QED
    BY <2>1, <2>2 DEF x
<1> HIDE DEF b, w, x
<1>7. (b \o w) \o sending = Flight
  BY <1>5 DEF Flight
<1>8. b \o (w \o sending) = Flight /\ w \o sending \in Seq(Byte)
  <2>1. b \in Seq(Byte) /\ w \in Seq(Byte) /\ sending \in Seq(Byte)
    BY <1>3, <1>5
  <2>2. (b \o w) \o sending = b \o (w \o sending)
    BY ONLY <2>1, Regrouped, Zenon
  <2>3. w \o sending \in Seq(Byte)
    BY ONLY <2>1, Associated
  <2>4. QED
    BY <1>7, <2>2, <2>3
<1>9. Len(b) > Len(buffer) /\ Len(b) <= Target
  BY <1>3, <1>4, <1>5
<1>10. QED
  BY <1>2, <1>5, <1>6, <1>7, <1>8, <1>9

LEMMA RecvPieceKeeps ==
  ASSUME IInv, NEW piece \in Pieces, RecvPiece(piece)
  PROVE  IInv' /\ ChannelStep
<1>1. TypesOK /\ Returned /\ Leftover /\ Explained /\ verdict = "none" /\ Tracked /\ InStep
  BY DEF IInv, RecvPiece
<1>2. UNCHANGED <<outbox, version, sent, sending, alive, changed>>
  BY DEF RecvPiece, sender
<1>3. PICK b, w \in Seq(Byte) :
        /\ Len(b) > Len(buffer) /\ Len(b) <= Target /\ \A i \in 1..Len(buffer) : b[i] = buffer[i]
        /\ b \o (w \o sending) = Flight /\ (b \o w) \o sending = Flight /\ w \o sending \in Seq(Byte)
        /\ wire' = w
        /\ IF Len(b) >= Target THEN Judge(b) ELSE buffer' = b /\ UNCHANGED <<received, verdict>>
  BY PieceTaken
<1>4. Len(b) \in Nat /\ Len(buffer) \in Nat /\ buffer \in Seq(Byte) /\ Len(sent) \in Nat /\ Len(received) \in Nat
  BY <1>1, LenProperties DEF TypesOK
<1>5. /\ Target \in Nat /\ Len(buffer) < Target
      /\ Target = IF Len(buffer) < 20 THEN 20 ELSE 24 + LengthIn(buffer)
  BY <1>1, TargetIsAhead
\* the header that b has was accepted already
<1>6. ASSUME Len(buffer) >= 20
      PROVE  HeaderVerdict(b) = "none" /\ LengthIn(b) = LengthIn(buffer) /\ Len(b) > 20
  <2>1. Len(b) >= 20 /\ Len(b) > 20 /\ \A i \in 1..20 : i \in 1..Len(buffer)
    BY ONLY <1>3, <1>4, <1>6
  <2>2. \A i \in 1..20 : b[i] = buffer[i]
    BY <1>3, <2>1
  <2>3. HeaderVerdict(b) = HeaderVerdict(buffer) /\ LengthIn(b) = LengthIn(buffer)
    BY ONLY <1>4, <1>6, <2>1, <2>2, b \in Seq(Byte), SameHeader
  <2>4. QED
    BY <1>1, <1>6, <2>1, <2>3 DEF InStep
<1>7. CASE ~(Len(b) >= Target)
  <2>1. buffer' = b /\ received' = received /\ verdict' = verdict
    BY <1>3, <1>7
  <2>2. TypesOK' /\ Returned' /\ Leftover'
    BY <1>1, <1>2, <1>3, <2>1 DEF TypesOK, Returned, Leftover
  <2>3. Explained'
    BY <1>1, <1>2, <1>4, <2>1, StillExplained
  <2>4. Flight' = Flight
    BY <1>2, <1>3, <2>1 DEF Flight
  <2>5. Tracked'
    BY <1>1, <1>2, <2>1, <2>4, StillTracked
  <2>6. Len(b) < Target
    BY <1>4, <1>5, <1>7
  <2>7. Len(b) < (IF Len(b) < 20 THEN 20 ELSE 24 + LengthIn(b)) /\ (Len(b) >= 20 => HeaderVerdict(b) = "none")
    BY ONLY <1>4, <1>5, <1>6, <2>6
  <2>8. InStep'
    <3>1. Len(buffer') < (IF Len(buffer') < 20 THEN 20 ELSE 24 + LengthIn(buffer')) /\ (Len(buffer') >= 20 => HeaderVerdict(buffer') = "none")
      BY <2>1, <2>7
    <3>2. QED
      BY <3>1 DEF InStep, Target, FrameHeaderSize, FrameOverhead, LengthIn, HeaderVerdict, KindIn
  <2>9. ChannelStep
    BY <1>2, <2>1 DEF ChannelStep
  <2>10. QED
    BY <2>2, <2>3, <2>5, <2>8, <2>9 DEF IInv
<1>8. CASE Len(b) >= Target /\ Len(b) = 20
  <2>1. buffer' = b /\ verdict' = HeaderVerdict(b) /\ received' = received
    BY <1>3, <1>8 DEF Judge, FrameHeaderSize
  <2>2. Len(b) >= 20
    BY <1>8
  <2>3. /\ Len(received) < Len(sent) /\ Awaited \in Frame
        /\ HeaderVerdict(b) \in {"none", "FRAME_CORRUPT", "FRAME_TOO_LARGE", "PROTOCOL_UNSUPPORTED"}
        /\ HeaderVerdict(b) = "FRAME_CORRUPT" => changed
        /\ HeaderVerdict(b) = "FRAME_TOO_LARGE" => Len(Awaited.payload) > MaxPayload
        /\ HeaderVerdict(b) = "PROTOCOL_UNSUPPORTED" => version # ProtocolVersion
        /\ HeaderVerdict(b) = "none" => LengthIn(b) = Len(Awaited.payload)
    BY <1>1, <1>3, <2>2, HeaderAnswer
  <2>4. TypesOK' /\ Returned' /\ Leftover'
    BY <1>1, <1>2, <1>3, <2>1 DEF TypesOK, Returned, Leftover
  <2>5. Awaited' = Awaited /\ Len(received)' = Len(received) /\ Len(sent)' = Len(sent)
    BY <1>2, <2>1 DEF Awaited
  <2>6. Explained'
    BY <1>2, <2>1, <2>3, <2>5 DEF Explained, FailsForTheReason
  <2>7. Flight' = Flight
    BY <1>2, <1>3, <2>1 DEF Flight
  <2>8. Tracked'
    BY <1>1, <1>2, <2>1, <2>7, StillTracked
  <2>9. ASSUME verdict' = "none" PROVE InStep'
    <3>1. HeaderVerdict(b) = "none" /\ LengthIn(b) \in Nat
      BY <2>1, <2>3, <2>9, FrameParts
    <3>2. Len(buffer') < (IF Len(buffer') < 20 THEN 20 ELSE 24 + LengthIn(buffer')) /\ HeaderVerdict(buffer') = "none"
      <4>1. Len(b) < (IF Len(b) < 20 THEN 20 ELSE 24 + LengthIn(b)) /\ HeaderVerdict(b) = "none"
        BY ONLY <1>8, <3>1
      <4>2. QED
        BY <2>1, <4>1
    <3>3. QED
      BY <3>2 DEF InStep, Target, FrameHeaderSize, FrameOverhead, LengthIn, HeaderVerdict, KindIn
  <2>10. ChannelStep
    <3>1. CASE verdict' = "none"
      BY <1>1, <1>2, <2>1, <3>1 DEF ChannelStep
    <3>2. CASE verdict' # "none"
      BY <1>2, <2>1, <3>2 DEF ChannelStep, Channel!Next, Channel!Fail
    <3>3. QED
      BY <3>1, <3>2
  <2>11. QED
    BY <2>4, <2>6, <2>8, <2>9, <2>10 DEF IInv
<1>9. CASE Len(b) >= Target /\ Len(b) # 20
  <2>1. /\ buffer' = <<>> /\ verdict' = FrameVerdict(b)
        /\ received' = IF FrameVerdict(b) = "none" THEN Append(received, FrameIn(b)) ELSE received
    BY <1>3, <1>9 DEF Judge, FrameHeaderSize
  <2>2. Len(b) = Target
    <3>1. Len(b) <= Target /\ Len(b) >= Target /\ Len(b) \in Nat /\ Target \in Nat
      BY <1>3, <1>4, <1>5, <1>9, Zenon
    <3>2. \A x, y \in Nat : x <= y /\ x >= y => x = y
      OBVIOUS
    <3>3. QED
      BY <3>1, <3>2, Zenon
  <2>3. Len(buffer) >= 20
    BY <1>4, <1>5, <1>9, <2>2
  <2>4. HeaderVerdict(b) = "none" /\ Len(b) >= 20 /\ Len(b) = FrameOverhead + LengthIn(b)
    BY <1>4, <1>5, <1>6, <2>2, <2>3 DEF FrameOverhead
  <2>5. /\ Len(received) < Len(sent)
        /\ \/ FrameVerdict(b) = "FRAME_CORRUPT" /\ changed
           \/ /\ FrameVerdict(b) = "none" /\ FrameIn(b) = Awaited /\ Awaited \in Frame
              /\ \E c, p : /\ Laid(c, sent) /\ p \in Nat /\ (~changed => p = 0)
                           /\ Carries(w \o sending, sent, Len(received) + 1, version, c, p)
    BY <1>1, <1>3, <2>4, FrameAnswer
  <2>6. <<>> \in Seq(Byte) /\ Len(<<>>) = 0
    BY EmptySeq
  <2>7. CASE FrameVerdict(b) = "FRAME_CORRUPT"
    <3>1. buffer' = <<>> /\ verdict' = "FRAME_CORRUPT" /\ received' = received /\ changed
      BY <2>1, <2>5, <2>7
    <3>2. TypesOK' /\ Returned' /\ Leftover'
      BY <1>1, <1>2, <1>3, <2>6, <3>1 DEF TypesOK, Returned, Leftover
    <3>3. Explained'
      BY <1>2, <3>1 DEF Explained, FailsForTheReason
    <3>4. ChannelStep
      BY <1>2, <3>1 DEF ChannelStep, Channel!Next, Channel!Fail
    <3>5. QED
      BY <3>1, <3>2, <3>3, <3>4 DEF IInv
  <2>8. CASE FrameVerdict(b) = "none"
    <3>1. buffer' = <<>> /\ verdict' = "none" /\ received' = Append(received, Awaited) /\ Awaited \in Frame
      BY <2>1, <2>5, <2>8
    <3>2. /\ received' \in Seq(Frame) /\ Len(received') = Len(received) + 1 /\ received'[Len(received) + 1] = Awaited
          /\ \A i \in 1..Len(received) : received'[i] = received[i]
      <4>1. received \in Seq(Frame)
        BY <1>1 DEF TypesOK
      <4>2. QED
        BY <3>1, <4>1, AppendProperties
    <3>3. TypesOK' /\ Leftover'
      BY <1>1, <1>2, <1>3, <2>6, <3>1, <3>2 DEF TypesOK, Leftover
    <3>4. Returned'
      <4>1. ASSUME NEW i \in 1..Len(received') PROVE received'[i] = sent[i]
        <5>1. i \in 1..Len(received) \/ i = Len(received) + 1
          BY <1>4, <3>2
        <5>2. QED
          BY <1>1, <3>2, <5>1 DEF Returned, Awaited
      <4>2. Len(received') <= Len(sent)
        BY <1>4, <2>5, <3>2
      <4>3. QED
        BY <1>2, <4>1, <4>2 DEF Returned
    <3>5. Explained'
      BY <3>1 DEF Explained, FailsForTheReason
    <3>6. Tracked'
      <4>1. Flight' = w \o sending
        <5>1. <<>> \o w = w
          BY ConcatEmptySeq
        <5>2. Flight' = (<<>> \o w) \o sending
          BY <1>2, <1>3, <3>1 DEF Flight
        <5>3. QED
          BY <5>1, <5>2
      <4>2. PICK c, p : /\ Laid(c, sent) /\ p \in Nat /\ (~changed => p = 0)
                        /\ Carries(w \o sending, sent, Len(received) + 1, version, c, p)
        BY <2>5, <2>8
      <4>3. /\ Laid(c, sent') /\ p \in Nat /\ (~changed' => p = 0)
            /\ Carries(Flight', sent', Len(received'), version', c, p)
        BY <1>2, <3>2, <4>1, <4>2
      <4>4. QED
        BY <4>3 DEF Tracked
    <3>7. InStep'
      BY <2>6, <3>1 DEF InStep, Target, FrameHeaderSize
    <3>8. ChannelStep
      <4>1. received' = Append(received, sent[Len(received) + 1])
        BY <3>1 DEF Awaited
      <4>2. Channel!Receive
        BY <1>1, <1>2, <2>5, <3>1, <4>1 DEF Channel!Receive
      <4>3. QED
        BY <4>2 DEF ChannelStep, Channel!Next
    <3>9. QED
      BY <3>3, <3>4, <3>5, <3>6, <3>7, <3>8 DEF IInv
  <2>9. QED
    BY <2>5, <2>7, <2>8
<1>10. QED
  BY <1>7, <1>8, <1>9

LEMMA RecvClosedKeeps ==
  ASSUME IInv, RecvClosed
  PROVE  IInv' /\ ChannelStep
<1>1. TypesOK /\ Returned /\ Leftover
  BY DEF IInv
<1>2. /\ verdict = "none" /\ wire = <<>> /\ ~alive /\ verdict' = ClosedVerdict
      /\ UNCHANGED <<outbox, version, sent, sending, alive, wire, changed, buffer, received>>
  BY DEF RecvClosed, sender
<1>3. TypesOK' /\ Returned' /\ Leftover'
  BY <1>1, <1>2 DEF TypesOK, Returned, Leftover
<1>4. \/ ClosedVerdict = "FRAME_TRUNCATED" /\ sending # <<>> /\ Len(received) < Len(sent)
      \/ /\ ClosedVerdict = "TRANSPORT_CLOSED"
         /\ Len(received) < Len(sent) =>
              Len(received) = Len(sent) - 1 /\ Len(sending) > FrameOverhead - FrameHeaderSize + Len(Awaited.payload)
  BY <1>2, ClosedAnswer
<1>5. Awaited' = Awaited
  BY <1>2 DEF Awaited
<1>6. Explained' /\ verdict' # "none"
  BY <1>2, <1>4, <1>5 DEF Explained, FailsForTheReason
<1>7. ChannelStep
  BY <1>2, <1>6 DEF ChannelStep, Channel!Next, Channel!Fail
<1>8. QED
  BY <1>3, <1>6, <1>7 DEF IInv

LEMMA ChangeByteKeeps ==
  ASSUME IInv, NEW i \in DOMAIN wire, NEW v \in Changes, ChangeByte(i, v)
  PROVE  IInv' /\ ChannelStep
<1>1. TypesOK /\ Returned /\ Leftover /\ Explained /\ (verdict = "none" => Tracked /\ InStep)
  BY DEF IInv
<1>2. /\ ~changed /\ wire' = [wire EXCEPT ![i] = v] /\ changed' = TRUE
      /\ UNCHANGED <<outbox, version, sent, sending, alive, buffer, received, verdict>>
  BY DEF ChangeByte, sender, receiver
<1>3. /\ wire \in Seq(Byte) /\ buffer \in Seq(Byte) /\ sending \in Seq(Byte) /\ sent \in Seq(Frame) /\ version \in TwoBytes
      /\ Len(wire) \in Nat /\ Len(buffer) \in Nat /\ Len(sent) \in Nat /\ Len(received) \in Nat /\ Len(received) <= Len(sent)
      /\ DOMAIN wire = 1..Len(wire)
  BY <1>1, LenProperties DEF TypesOK, Returned
<1>4. /\ wire' \in Seq(Byte) /\ Len(wire') = Len(wire) /\ \A j \in 1..Len(wire) : j # i => wire'[j] = wire[j]
  <2>1. v \in Byte /\ i \in 1..Len(wire)
    BY <1>3, TransportAssumption
  <2>2. wire' \in Seq(Byte) /\ Len(wire') = Len(wire) /\ \A j \in 1..Len(wire) : wire'[j] = IF j = i THEN v ELSE wire[j]
    BY <1>2, <1>3, <2>1, ExceptSeq
  <2>3. QED
    BY <2>2
<1>5. TypesOK' /\ Returned' /\ Leftover'
  BY <1>1, <1>2, <1>4 DEF TypesOK, Returned, Leftover
<1>6. Explained'
  BY <1>1, <1>2, <1>3, StillExplained
<1>7. ASSUME verdict = "none" PROVE Tracked' /\ InStep'
  <2>1. InStep'
    BY <1>1, <1>2, <1>7, StillInStep
  <2> DEFINE h == Len(buffer) + i
             k == Len(received)
  <2>2. PICK c, p : /\ Laid(c, sent) /\ p \in Nat /\ (~changed => p = 0)
                    /\ Carries(Flight, sent, k, version, c, p)
    BY <1>1, <1>7 DEF Tracked
  <2>3. Carries(Flight, sent, k, version, c, 0)
    BY <1>2, <2>2
  <2>4. /\ Flight \in Seq(Byte) /\ Flight' \in Seq(Byte) /\ Len(Flight') = Len(Flight)
        /\ \A j \in 1..Len(Flight) : j # h => Flight'[j] = Flight[j]
    <3> DEFINE fl == buffer \o wire
               u == buffer \o wire'
    <3>1. /\ buffer \o wire \in Seq(Byte) /\ Len(buffer \o wire) = Len(buffer) + Len(wire)
          /\ \A j \in 1..(Len(buffer) + Len(wire)) : (buffer \o wire)[j] = IF j <= Len(buffer) THEN buffer[j] ELSE wire[j - Len(buffer)]
      BY <1>3, JoinedBytes
    <3>2. /\ buffer \o wire' \in Seq(Byte) /\ Len(buffer \o wire') = Len(buffer) + Len(wire')
          /\ \A j \in 1..(Len(buffer) + Len(wire')) : (buffer \o wire')[j] = IF j <= Len(buffer) THEN buffer[j] ELSE wire'[j - Len(buffer)]
      BY <1>3, <1>4, JoinedBytes
    <3> HIDE DEF fl, u
    <3>3. /\ fl \in Seq(Byte) /\ u \in Seq(Byte) /\ Len(fl) = Len(buffer) + Len(wire) /\ Len(u) = Len(fl)
      BY <1>4, <3>1, <3>2 DEF fl, u
    <3>4. ASSUME NEW j \in 1..Len(fl), j # h PROVE u[j] = fl[j]
      <4>1. j \in 1..(Len(buffer) + Len(wire)) /\ j \in 1..(Len(buffer) + Len(wire'))
        BY <1>4, <3>3
      <4>2. CASE j <= Len(buffer)
        BY <3>1, <3>2, <4>1, <4>2 DEF fl, u
      <4>3. CASE ~(j <= Len(buffer))
        <5>1. j - Len(buffer) \in 1..Len(wire) /\ j - Len(buffer) # i
          BY <1>3, <3>4, <4>1, <4>3
        <5>2. wire'[j - Len(buffer)] = wire[j - Len(buffer)]
          BY <1>4, <5>1
        <5>3. QED
          BY <3>1, <3>2, <4>1, <4>3, <5>2 DEF fl, u
      <4>4. QED
        BY <4>2, <4>3
    <3>5. /\ fl \o sending \in Seq(Byte) /\ Len(fl \o sending) = Len(fl) + Len(sending)
          /\ \A j \in 1..(Len(fl) + Len(sending)) : (fl \o sending)[j] = IF j <= Len(fl) THEN fl[j] ELSE sending[j - Len(fl)]
      BY <1>3, <3>3, JoinedBytes
    <3>6. /\ u \o sending \in Seq(Byte) /\ Len(u \o sending) = Len(u) + Len(sending)
          /\ \A j \in 1..(Len(u) + Len(sending)) : (u \o sending)[j] = IF j <= Len(u) THEN u[j] ELSE sending[j - Len(u)]
      BY <1>3, <3>3, JoinedBytes
    <3>7. Flight = fl \o sending /\ Flight' = u \o sending
      BY <1>2 DEF Flight, fl, u
    <3>8. Len(fl) \in Nat /\ Len(sending) \in Nat
      BY <1>3, <3>3, LenProperties
    <3>9. ASSUME NEW j \in 1..(Len(fl) + Len(sending)), j # h PROVE (u \o sending)[j] = (fl \o sending)[j]
      <4>1. CASE j <= Len(fl)
        <5>1. j \in 1..Len(fl)
          BY <3>8, <4>1
        <5>2. u[j] = fl[j]
          BY <3>4, <3>9, <5>1
        <5>3. QED
          BY <3>3, <3>5, <3>6, <4>1, <5>2
      <4>2. CASE ~(j <= Len(fl))
        BY <3>3, <3>5, <3>6, <4>2
      <4>3. QED
        BY <4>1, <4>2
    <3>10. QED
      BY <3>3, <3>5, <3>6, <3>7, <3>9
  <2>5. h \in Nat /\ k \in 0..Len(sent)
    BY <1>3
  <2> HIDE DEF h, k
  <2>6. Carries(Flight', sent, k, version, c, c[k] + h) /\ c[k] + h \in Nat
    BY <1>3, <2>2, <2>3, <2>4, <2>5, ChangeOne
  <2>7. /\ Laid(c, sent') /\ c[k] + h \in Nat /\ (~changed' => c[k] + h = 0)
        /\ Carries(Flight', sent', Len(received'), version', c, c[k] + h)
    BY <1>2, <2>2, <2>6 DEF k
  <2>8. Tracked'
    BY <2>7 DEF Tracked
  <2>9. QED
    BY <2>1, <2>8
<1>8. ChannelStep
  BY <1>2 DEF ChannelStep
<1>9. QED
  BY <1>2, <1>5, <1>6, <1>7, <1>8 DEF IInv

LEMMA StutterKeeps ==
  ASSUME IInv, UNCHANGED vars
  PROVE  IInv' /\ ChannelStep
<1>1. UNCHANGED <<outbox, version, sent, sending, alive, wire, changed, buffer, received, verdict>>
  BY DEF vars
<1>2. TypesOK /\ Returned /\ Leftover /\ Explained /\ (verdict = "none" => Tracked /\ InStep)
  BY DEF IInv
<1>3. TypesOK' /\ Returned' /\ Leftover'
  BY <1>1, <1>2 DEF TypesOK, Returned, Leftover
<1>4. Len(sent) \in Nat
  BY <1>2, LenProperties DEF TypesOK
<1>5. Explained'
  BY <1>1, <1>2, <1>4, StillExplained
<1>6. Flight' = Flight
  BY <1>1 DEF Flight
<1>7. verdict = "none" => Tracked' /\ InStep'
  BY <1>1, <1>2, <1>6, StillTracked, StillInStep
<1>8. ChannelStep
  BY <1>1 DEF ChannelStep
<1>9. QED
  BY <1>1, <1>3, <1>5, <1>7, <1>8 DEF IInv

LEMMA StepKeeps == IInv /\ [Next]_vars => IInv' /\ ChannelStep
<1> SUFFICES ASSUME IInv, [Next]_vars PROVE IInv' /\ ChannelStep
  OBVIOUS
<1>1. CASE BeginFrame
  BY <1>1, BeginFrameKeeps
<1>2. CASE \E p \in Pieces : SendPiece(p)
  BY <1>2, SendPieceKeeps
<1>3. CASE SenderLeaves
  BY <1>3, SenderLeavesKeeps
<1>4. CASE RecvClosed
  BY <1>4, RecvClosedKeeps
<1>5. CASE \E p \in Pieces : RecvPiece(p)
  BY <1>5, RecvPieceKeeps
<1>6. CASE \E i \in DOMAIN wire, v \in Changes : ChangeByte(i, v)
  BY <1>6, ChangeByteKeeps
<1>7. CASE UNCHANGED vars
  BY <1>7, StutterKeeps
<1>8. QED
  BY <1>1, <1>2, <1>3, <1>4, <1>5, <1>6, <1>7 DEF Next, SenderGoesOn, ReceiverGoesOn

\* In every state: the invariant.
LEMMA AlwaysInvariant == Spec => []IInv
<1>1. IInv /\ [Next]_vars => IInv'
  BY StepKeeps
<1>2. QED
  BY Initially, <1>1, PTL DEF Spec

\* recv_frame gives the right reason for its error: see FailsForTheReason.  For any
\* frames, any pieces and any limit.
THEOREM ErrorsHaveTheirReason == Spec => []FailsForTheReason
<1>1. IInv => FailsForTheReason
  BY DEF IInv, Explained
<1>2. QED
  BY AlwaysInvariant, <1>1, PTL

\* send_frame and recv_frame make of bytes a channel of frames: what recv_frame
\* returns is what send_frame took, in its order and each once, until it fails.
THEOREM TransportIsAChannel == Spec => FramesArriveAsSent
<1>1. Init => Channel!Init
  BY DEF Init, Channel!Init
<1>2. IInv /\ [Next]_vars => [Channel!Next]_(Channel!vars)
  BY StepKeeps DEF ChannelStep, Channel!vars
<1>3. QED
  BY AlwaysInvariant, <1>1, <1>2, PTL DEF Spec, FramesArriveAsSent, Channel!Spec
================================================================================
