-------------------------- MODULE TurboQuantProofs --------------------------
(***************************************************************************)
(* The theorems on TurboQuant, for every number of requests and blocks,    *)
(* every block size, head size and table of centroids: the paged cache     *)
(* gives back what was stored; and for every number of layers and every    *)
(* set of layers to skip: what the set-up of the attention layers          *)
(* guarantees.                                                             *)
(*                                                                         *)
(* The inductive invariant of the cache adds to the claim itself that no   *)
(* block occurs twice in a block table: without it, a token could          *)
(* overwrite an earlier one of its own request. Between requests the same  *)
(* follows from the guard of Store. What a slot gives back rests on the    *)
(* lemmas about the codec, which come first: packing, quantization and the *)
(* bytes of the norm.                                                      *)
(*                                                                         *)
(* The set-up of the layers comes last. Its invariant follows the          *)
(* attributes of each layer through the stages, and says what grouping     *)
(* leaves of the specs: with more than one layer the first one is a        *)
(* boundary layer, so a TurboQuant spec can merge into that of another     *)
(* layer only if the dtypes were made equal.                               *)
(***************************************************************************)
EXTENDS TurboQuantCache, TurboQuantLayer, FiniteSetTheorems, TLAPS

-----------------------------------------------------------------------------
(* The codec of TurboQuantOps *)

Bytes == 0 .. 255

\* The bits of an fp16.
IsInt16(h) == h \in Int /\ -32768 <= h /\ h <= 32767

IsVector(v, D) == v \in [y : [1 .. D -> Int], norm : Norms]

\* A table of centroids as solve_lloyd_max makes it for at most 4 bits.
IsTable(c) == c \in Seq(Int) /\ Len(c) \in 1 .. 16 /\ IsSorted(c)

\* A byte of pack_4bit.
Byte(a, b) == (a % 16) + 16 * (b % 16)

\* Two 4-bit indices survive a byte.
LEMMA ByteHalves ==
    ASSUME NEW a \in 0 .. 15, NEW b \in 0 .. 15
    PROVE  Byte(a, b) \in Bytes /\ Byte(a, b) % 16 = a /\ (Byte(a, b) \div 16) % 16 = b
BY SMT DEF Byte, Bytes

\* pack_4bit yields D / 2 bytes.
LEMMA PackType ==
    ASSUME NEW D \in Nat, D % 2 = 0, NEW s \in [1 .. D -> 0 .. 15]
    PROVE  /\ pack_4bit(s) \in [1 .. D \div 2 -> Bytes]
           /\ \A i \in 1 .. D \div 2 : pack_4bit(s)[i] = Byte(s[2 * i - 1], s[2 * i])
<1>1. s \in Seq(0 .. 15) /\ Len(s) = D
  OBVIOUS
<1>2. ASSUME NEW i \in 1 .. D \div 2
      PROVE  /\ 2 * i - 1 \in 1 .. D /\ 2 * i \in 1 .. D
             /\ s[2 * i - 1] \in 0 .. 15 /\ s[2 * i] \in 0 .. 15
             /\ Byte(s[2 * i - 1], s[2 * i]) \in Bytes
  <2>1. 2 * i - 1 \in 1 .. D /\ 2 * i \in 1 .. D
    BY SMT
  <2>2. s[2 * i - 1] \in 0 .. 15 /\ s[2 * i] \in 0 .. 15
    BY <2>1
  <2>3. Byte(s[2 * i - 1], s[2 * i]) \in Bytes
    BY <2>2, ByteHalves, Zenon
  <2> QED
    BY <2>1, <2>2, <2>3
<1> QED
  BY <1>1, <1>2 DEF pack_4bit, Byte

\* unpack_4bit undoes pack_4bit, for every even number of 4-bit indices.
THEOREM PackRoundTrip ==
    ASSUME NEW D \in Nat, D % 2 = 0, NEW s \in [1 .. D -> 0 .. 15]
    PROVE  unpack_4bit(pack_4bit(s), D) = s
<1> DEFINE p == pack_4bit(s)
<1>1. \A i \in 1 .. D \div 2 : p[i] = Byte(s[2 * i - 1], s[2 * i])
  BY PackType, ZenonT(30)
<1> HIDE DEF p
<1>2. ASSUME NEW j \in 1 .. D
      PROVE  (IF j % 2 = 1 THEN p[(j + 1) \div 2] % 16 ELSE (p[j \div 2] \div 16) % 16) = s[j]
  <2>1. CASE j % 2 = 1
    <3> DEFINE i == (j + 1) \div 2
    <3>1. i \in 1 .. D \div 2 /\ 2 * i - 1 = j /\ 2 * i \in 1 .. D
      BY <2>1, SMT
    <3>2. s[j] \in 0 .. 15 /\ s[2 * i] \in 0 .. 15
      BY <3>1
    <3>3. p[i] = Byte(s[j], s[2 * i])
      BY <1>1, <3>1, ZenonT(30)
    <3> HIDE DEF i
    <3>4. Byte(s[j], s[2 * i]) % 16 = s[j]
      BY <3>2, ByteHalves, SMTT(30)
    <3>5. p[i] % 16 = s[j]
      BY <3>3, <3>4
    <3> QED
      BY <2>1, <3>5 DEF i
  <2>2. CASE j % 2 # 1
    <3> DEFINE i == j \div 2
    <3>1. i \in 1 .. D \div 2 /\ 2 * i = j /\ 2 * i - 1 \in 1 .. D
      BY <2>2, SMT
    <3>2. s[j] \in 0 .. 15 /\ s[2 * i - 1] \in 0 .. 15
      BY <3>1
    <3>3. p[i] = Byte(s[2 * i - 1], s[j])
      BY <1>1, <3>1, ZenonT(30)
    <3> HIDE DEF i
    <3>4. (Byte(s[2 * i - 1], s[j]) \div 16) % 16 = s[j]
      BY <3>2, ByteHalves, SMTT(30)
    <3>5. (p[i] \div 16) % 16 = s[j]
      BY <3>3, <3>4
    <3> QED
      BY <2>2, <3>5 DEF i
  <2> QED
    BY <2>1, <2>2
<1>3. unpack_4bit(p, D) = [j \in 1 .. D |-> s[j]]
  BY <1>2 DEF unpack_4bit
<1> QED
  BY <1>3 DEF p

\* The two bytes of an fp16 give it back, sign bit included: bytes_to_fp16 of
\* fp16_to_bytes is the identity on every bit pattern.
THEOREM Fp16RoundTrip ==
    ASSUME NEW h, IsInt16(h)
    PROVE  /\ bytes_to_fp16(fp16_to_bytes(h)) = h
           /\ fp16_to_bytes(h) \in Seq(Bytes) /\ Len(fp16_to_bytes(h)) = 2
<1> DEFINE q == h \div 256
           m == h % 256
<1>1. m \in 0 .. 255 /\ q \in Int /\ h = 256 * q + m /\ -128 <= q /\ q <= 127
  BY SMT DEF IsInt16
<1>2. bytes_to_fp16(fp16_to_bytes(h)) = m + int16(256 * (q % 256))
  BY DEF bytes_to_fp16, fp16_to_bytes
<1>3. fp16_to_bytes(h) = <<m, q % 256>>
  BY DEF fp16_to_bytes
<1> HIDE DEF q, m
<1>4. q % 256 = IF q >= 0 THEN q ELSE q + 256
  BY <1>1, SMT
<1>5. int16(256 * (q % 256)) = 256 * q
  <2>1. CASE q >= 0
    BY <1>1, <1>4, <2>1, SMT DEF int16
  <2>2. CASE q < 0
    BY <1>1, <1>4, <2>2, SMT DEF int16
  <2> QED
    BY <1>1, <2>1, <2>2
<1>6. q % 256 \in Bytes /\ m \in Bytes
  BY <1>1, <1>4 DEF Bytes
<1>7. m + 256 * q = h
  BY <1>1
<1>8. <<m, q % 256>> \in Seq(Bytes) /\ Len(<<m, q % 256>>) = 2
  BY <1>6
<1> QED
  BY <1>2, <1>3, <1>5, <1>7, <1>8
-----------------------------------------------------------------------------
(* Scalar quantisation *)

\* A set of indices without gaps is an initial segment.
LEMMA InitialSegment ==
    ASSUME NEW n \in Nat, NEW S \in SUBSET (1 .. n),
           \A i \in S : \A j \in 1 .. n : j <= i => j \in S
    PROVE  Cardinality(S) \in 0 .. n /\ S = 1 .. Cardinality(S)
<1> DEFINE k == Cardinality(S)
<1>1. IsFiniteSet(1 .. n) /\ Cardinality(1 .. n) = n
  BY FS_Interval, 1 \in Int, n \in Int
<1>2. IsFiniteSet(S) /\ k <= n
  BY <1>1, FS_Subset, Zenon
<1>3. k \in Nat
  BY <1>2, FS_CardinalityType
<1>4. IsFiniteSet(1 .. k) /\ Cardinality(1 .. k) = k
  BY <1>3, FS_Interval, 1 \in Int, k \in Int
<1>5. ASSUME NEW i \in S PROVE i <= k
  <2>1. i \in Int /\ i >= 1
    OBVIOUS
  <2>2. 1 .. i \in SUBSET S
    BY <2>1
  <2>3. Cardinality(1 .. i) = i
    BY <2>1, FS_Interval, 1 \in Int
  <2> QED
    BY <1>2, <2>2, <2>3, FS_Subset
<1>6. S \in SUBSET (1 .. k)
  BY <1>3, <1>5
<1>7. S = 1 .. k
  BY <1>4, <1>6, FS_Subset, Zenon
<1> QED
  BY <1>2, <1>3, <1>7

\* The boundaries below a coordinate are the first ones, and bucketize counts them.
LEMMA Bucket ==
    ASSUME NEW c, IsTable(c), NEW y \in Int
    PROVE  /\ bucketize(y, compute_midpoints(c)) \in 0 .. Len(c) - 1
           /\ \A i \in 1 .. Len(c) - 1 :
                c[i] + c[i + 1] < 2 * y <=> i <= bucketize(y, compute_midpoints(c))
<1>0. c \in Seq(Int) /\ Len(c) - 1 \in Nat /\ Len(c) = Len(c) - 1 + 1
  <2>1. \A n \in 1 .. 16 : n - 1 \in Nat /\ n = n - 1 + 1
    OBVIOUS
  <2> QED
    BY <2>1, Zenon DEF IsTable
<1> DEFINE n == Len(c) - 1
           m == compute_midpoints(c)
           S == below(y, m)
<1>1. n \in Nat /\ \A i \in 1 .. n + 1 : c[i] \in Int
  BY <1>0
<1>2. \A i, j \in 1 .. n + 1 : i <= j => c[i] <= c[j]
  BY DEF IsTable, IsSorted
<1>3. DOMAIN m = 1 .. n /\ \A i \in 1 .. n : m[i] = c[i] + c[i + 1]
  BY DEF compute_midpoints
<1>4. S \in SUBSET (1 .. n) /\ \A i \in 1 .. n : i \in S <=> c[i] + c[i + 1] < 2 * y
  BY <1>3 DEF below
<1> HIDE DEF n, m, S
<1>5. ASSUME NEW i \in S, NEW j \in 1 .. n, j <= i PROVE j \in S
  <2>1. i \in 1 .. n /\ c[i] + c[i + 1] < 2 * y
    BY <1>4
  <2>2. /\ j \in 1 .. n + 1 /\ i \in 1 .. n + 1 /\ j + 1 \in 1 .. n + 1 /\ i + 1 \in 1 .. n + 1
        /\ j + 1 <= i + 1
    BY <1>1, <1>5, <2>1
  <2>3. c[j] <= c[i] /\ c[j + 1] <= c[i + 1]
    BY <1>2, <1>5, <2>2
  <2>4. c[i] \in Int /\ c[i + 1] \in Int /\ c[j] \in Int /\ c[j + 1] \in Int
    BY <1>1, <2>2
  <2>5. c[j] + c[j + 1] < 2 * y
    BY <2>1, <2>3, <2>4
  <2> QED
    BY <1>4, <2>5
<1>6. Cardinality(S) \in 0 .. n /\ S = 1 .. Cardinality(S)
  BY <1>1, <1>4, <1>5, InitialSegment, ZenonT(30)
<1>7. \A i \in 1 .. n : c[i] + c[i + 1] < 2 * y <=> i <= Cardinality(S)
  BY <1>1, <1>4, <1>6
<1> QED
  BY <1>6, <1>7 DEF n, m, S, bucketize

\* The clamp of _quantize_single_vector never bites.
LEMMA QuantizeIsBucket ==
    ASSUME NEW c, IsTable(c), NEW y \in Int
    PROVE  /\ quantize(y, c) = bucketize(y, compute_midpoints(c))
           /\ quantize(y, c) \in 0 .. 15 /\ quantize(y, c) + 1 \in 1 .. Len(c)
<1>1. bucketize(y, compute_midpoints(c)) \in 0 .. Len(c) - 1 /\ Len(c) \in 1 .. 16
  BY Bucket, ZenonT(30) DEF IsTable
<1>2. quantize(y, c) = bucketize(y, compute_midpoints(c))
  BY <1>1 DEF quantize
<1> DEFINE b == bucketize(y, compute_midpoints(c))
           n == Len(c)
<1>3. b \in 0 .. n - 1 /\ n \in 1 .. 16
  BY <1>1
<1> HIDE DEF b, n
<1>4. b \in 0 .. 15 /\ b + 1 \in 1 .. n
  BY <1>3
<1> QED
  BY <1>2, <1>4 DEF b, n

\* Quantising by counting midpoints picks a nearest centroid, for every sorted table:
\* the argmin of Algorithm 1, ties and ends included.
THEOREM QuantizeIsNearest ==
    ASSUME NEW c, IsTable(c), NEW y \in Int
    PROVE  Nearest(y, c)
<1> DEFINE b == quantize(y, c)
<1>1. b + 1 \in 1 .. Len(c) /\ b \in 0 .. 15 /\ Len(c) \in 1 .. 16
  BY QuantizeIsBucket, ZenonT(30) DEF IsTable
<1>2. \A i \in 1 .. Len(c) - 1 : c[i] + c[i + 1] < 2 * y <=> i <= b
  BY Bucket, QuantizeIsBucket, ZenonT(30)
<1>3. \A i \in 1 .. Len(c) : c[i] \in Int
  BY DEF IsTable
<1>4. \A i, j \in 1 .. Len(c) : i <= j => c[i] <= c[j]
  BY DEF IsTable, IsSorted
<1>5. DOMAIN c = 1 .. Len(c)
  BY DEF IsTable
<1> HIDE DEF b
<1>6. ASSUME NEW k \in 1 .. Len(c) PROVE Distance(y, c[b + 1]) <= Distance(y, c[k])
  <2>1. c[k] \in Int /\ c[b + 1] \in Int
    BY <1>1, <1>3
  <2>2. CASE k <= b
    <3>1. b \in 1 .. Len(c) - 1 /\ b \in 1 .. Len(c)
      BY <1>1, <2>2
    <3>2. c[b] + c[b + 1] < 2 * y
      BY <1>2, <3>1
    <3>3. c[k] <= c[b] /\ c[k] <= c[b + 1] /\ c[b] \in Int
      BY <1>1, <1>3, <1>4, <2>2, <3>1
    <3> QED
      BY <2>1, <3>2, <3>3 DEF Distance
  <2>3. CASE k = b + 1
    BY <2>1, <2>3 DEF Distance
  <2>4. CASE k > b + 1
    <3>1. b + 1 \in 1 .. Len(c) - 1 /\ b + 2 \in 1 .. Len(c) /\ ~(b + 1 <= b)
      BY <1>1, <2>4
    <3>2. ~(c[b + 1] + c[b + 2] < 2 * y)
      <4>1. b + 1 + 1 = b + 2
        BY <1>1
      <4> QED
        BY <1>2, <3>1, <4>1
    <3>3. c[b + 2] <= c[k] /\ c[b + 1] <= c[k] /\ c[b + 2] \in Int
      BY <1>1, <1>3, <1>4, <2>4, <3>1
    <3> QED
      BY <2>1, <3>2, <3>3 DEF Distance
  <2> QED
    BY <1>1, <2>2, <2>3, <2>4
<1> QED
  BY <1>5, <1>6 DEF Nearest, b
-----------------------------------------------------------------------------
(* The layout of a slot *)

\* Two sequences side by side.
LEMMA Concatenation ==
    ASSUME NEW S, NEW x \in Seq(S), NEW y \in Seq(S)
    PROVE  /\ x \o y \in Seq(S) /\ Len(x \o y) = Len(x) + Len(y)
           /\ \A i \in 1 .. Len(x) : (x \o y)[i] = x[i]
           /\ \A i \in 1 .. Len(y) : (x \o y)[Len(x) + i] = y[i]
OBVIOUS

\* A part of a sequence.
LEMMA PartAt ==
    ASSUME NEW S, NEW z \in Seq(S), NEW p \in Seq(S), NEW o \in Nat, o + Len(p) <= Len(z),
           \A i \in 1 .. Len(p) : z[o + i] = p[i]
    PROVE  SubSeq(z, o + 1, o + Len(p)) = p
<1>1. SubSeq(z, o + 1, o + Len(p)) = [i \in 1 .. Len(p) |-> z[o + i]]
  OBVIOUS
<1> QED
  BY <1>1

Slot(a, b, c, d) == (a \o b) \o (c \o d)

HasParts(S, z, a, b, c, d) ==
    /\ z \in Seq(S) /\ Len(z) = Len(a) + Len(b) + Len(c) + Len(d)
    /\ SubSeq(z, 1, Len(a)) = a
    /\ SubSeq(z, Len(a) + 1, Len(a) + Len(b)) = b
    /\ SubSeq(z, Len(a) + Len(b) + 1, Len(a) + Len(b) + Len(c)) = c
    /\ SubSeq(z, Len(a) + Len(b) + Len(c) + 1, Len(a) + Len(b) + Len(c) + Len(d)) = d

\* Four sequences side by side are found where they begin.
LEMMA FourParts ==
    ASSUME NEW S, NEW a \in Seq(S), NEW b \in Seq(S), NEW c \in Seq(S), NEW d \in Seq(S)
    PROVE  HasParts(S, Slot(a, b, c, d), a, b, c, d)
<1> DEFINE la == Len(a)
           lb == la + Len(b)
           lc == lb + Len(c)
           ld == lc + Len(d)
           ab == a \o b
           cd == c \o d
           z == ab \o cd
<1>1. la \in Nat /\ lb \in Nat /\ lc \in Nat /\ ld \in Nat /\ la <= lb /\ lb <= lc /\ lc <= ld
  OBVIOUS
<1>2. ab \in Seq(S) /\ Len(ab) = lb /\ cd \in Seq(S) /\ Len(cd) = ld - lb
  OBVIOUS
<1>3. /\ \A i \in 1 .. la : ab[i] = a[i]
      /\ \A i \in 1 .. Len(b) : ab[la + i] = b[i]
      /\ \A i \in 1 .. Len(c) : cd[i] = c[i]
      /\ \A i \in 1 .. Len(d) : cd[Len(c) + i] = d[i]
  OBVIOUS
<1> HIDE DEF ab, cd
<1>4. z \in Seq(S) /\ Len(z) = ld
  <2>1. z \in Seq(S) /\ Len(z) = Len(ab) + Len(cd)
    BY <1>2, Concatenation, Zenon
  <2>2. lb + (ld - lb) = ld
    BY <1>1
  <2> QED
    BY <1>2, <2>1, <2>2
<1>5. /\ \A i \in 1 .. lb : z[i] = ab[i]
      /\ \A i \in 1 .. ld - lb : z[lb + i] = cd[i]
  BY <1>1, <1>2, SMTT(30)
<1> HIDE DEF z
<1>6. /\ \A i \in 1 .. la : z[i] = a[i]
      /\ \A i \in 1 .. Len(b) : z[la + i] = b[i]
      /\ \A i \in 1 .. Len(c) : z[lb + i] = c[i]
  BY <1>1, <1>3, <1>5
<1>7. \A i \in 1 .. Len(d) : z[lc + i] = d[i]
  <2> SUFFICES ASSUME NEW i \in 1 .. Len(d) PROVE z[lc + i] = d[i]
    OBVIOUS
  <2>1. Len(c) + i \in 1 .. ld - lb /\ lc + i = lb + (Len(c) + i)
    OBVIOUS
  <2> QED
    BY <1>3, <1>5, <2>1
<1>8. SubSeq(z, 1, la) = a
  BY <1>1, <1>4, <1>6
<1>9. SubSeq(z, la + 1, lb) = b
  <2>1. la + Len(b) <= Len(z)
    BY <1>1, <1>4
  <2> QED
    BY <1>1, <1>4, <1>6, <2>1, PartAt, Zenon
<1>10. SubSeq(z, lb + 1, lc) = c
  BY <1>1, <1>4, <1>6, PartAt
<1>11. SubSeq(z, lc + 1, ld) = d
  <2>1. lc + Len(d) <= Len(z)
    BY <1>1, <1>4
  <2> QED
    BY <1>1, <1>4, <1>7, <2>1, PartAt, Zenon
<1> QED
  BY <1>4, <1>8, <1>9, <1>10, <1>11, SMTT(30) DEF z, ab, cd, Slot, HasParts

\* A norm is a half-float with the sign bit clear.
LEMMA NormsAreInt16 == \A k \in Norms : IsInt16(k)
<1> SUFFICES ASSUME NEW k \in Norms PROVE IsInt16(k)
  OBVIOUS
<1>1. MaxNorm \in Int
  BY DEF MaxNorm
<1>2. k \in Int /\ 0 <= k /\ k <= MaxNorm
  BY <1>1 DEF Norms
<1> QED BY <1>2, SMT DEF IsInt16, MaxNorm

\* The fields of a vector.
LEMMA VectorParts ==
    ASSUME NEW D, NEW v, IsVector(v, D)
    PROVE  v.y \in [1 .. D -> Int] /\ IsInt16(v.norm)
<1>1. v.y \in [1 .. D -> Int] /\ v.norm \in Norms
  BY DEF IsVector
<1> QED
  BY <1>1, NormsAreInt16, Zenon

\* The parts of a quantised vector, and what unpacking them gives.
LEMMA QuantizedParts ==
    ASSUME NEW D \in Nat, D % 2 = 0, NEW c, IsTable(c), NEW v, IsVector(v, D)
    PROVE  LET p == pack_4bit(indices(v, c))
               h == fp16_to_bytes(v.norm)
           IN  /\ p \in Seq(Bytes) /\ Len(p) = mse_bytes(D)
               /\ h \in Seq(Bytes) /\ Len(h) = 2
               /\ unpack_4bit(p, D) = indices(v, c)
               /\ bytes_to_fp16(h) = v.norm
<1>1. v.y \in [1 .. D -> Int] /\ IsInt16(v.norm)
  BY VectorParts, Zenon
<1>2. DOMAIN v.y = 1 .. D /\ \A j \in 1 .. D : v.y[j] \in Int
  BY <1>1
<1>3. \A j \in 1 .. D : quantize(v.y[j], c) \in 0 .. 15
  BY <1>2, QuantizeIsBucket, ZenonT(30)
<1>4. indices(v, c) \in [1 .. D -> 0 .. 15]
  BY <1>2, <1>3 DEF indices
<1>5. mse_bytes(D) = D \div 2 /\ D \div 2 \in Nat
  BY SMT DEF mse_bytes, MSE_BITS
<1>6. pack_4bit(indices(v, c)) \in [1 .. D \div 2 -> Bytes]
  BY <1>4, PackType
<1>7. /\ pack_4bit(indices(v, c)) \in Seq(Bytes)
      /\ Len(pack_4bit(indices(v, c))) = mse_bytes(D)
  BY <1>5, <1>6
<1>8. unpack_4bit(pack_4bit(indices(v, c)), D) = indices(v, c)
  BY <1>4, PackRoundTrip
<1> QED
  BY <1>1, <1>7, <1>8, Fp16RoundTrip

\* dequant_paged_kv reads from a slot the indices and the norms that
\* store_turboquant_kv put there, key and value in their places, and the slot is as
\* long as compute_paper_slot_size says.
THEOREM SlotReadBack ==
    ASSUME NEW D \in Nat, D % 2 = 0, NEW c, IsTable(c),
           NEW key, IsVector(key, D), NEW value, IsVector(value, D)
    PROVE  /\ slot_data(key, value, c) \in Seq(Bytes)
           /\ Len(slot_data(key, value, c)) = compute_paper_slot_size(D)
           /\ read_slot(slot_data(key, value, c), D) =
                [key |-> quantized(key, c), value |-> quantized(value, c)]
<1> DEFINE pk == pack_4bit(indices(key, c))
           nk == fp16_to_bytes(key.norm)
           pv == pack_4bit(indices(value, c))
           nv == fp16_to_bytes(value.norm)
           n == mse_bytes(D)
           z == Slot(pk, nk, pv, nv)
<1>1. /\ pk \in Seq(Bytes) /\ Len(pk) = n /\ nk \in Seq(Bytes) /\ Len(nk) = 2
      /\ unpack_4bit(pk, D) = indices(key, c) /\ bytes_to_fp16(nk) = key.norm
  BY QuantizedParts
<1>2. /\ pv \in Seq(Bytes) /\ Len(pv) = n /\ nv \in Seq(Bytes) /\ Len(nv) = 2
      /\ unpack_4bit(pv, D) = indices(value, c) /\ bytes_to_fp16(nv) = value.norm
  BY QuantizedParts
<1>3. slot_data(key, value, c) = z
  BY DEF slot_data, _quantize_single_vector, Slot
<1>4. n \in Nat /\ per_vector(D) = n + 2 /\ compute_paper_slot_size(D) = 2 * (n + 2)
  <2>1. n \in Nat
    BY SMT DEF mse_bytes, MSE_BITS
  <2>2. per_vector(D) = n + 2
    BY DEF per_vector
  <2> HIDE DEF n
  <2>3. (2 * (n + 2)) % 2 = 0
    BY <2>1, SMT
  <2>4. compute_paper_slot_size(D) = 2 * (n + 2)
    BY <2>1, <2>2, <2>3 DEF compute_paper_slot_size
  <2> QED
    BY <2>1, <2>2, <2>4
<1> HIDE DEF pk, nk, pv, nv, n
<1>5. /\ z \in Seq(Bytes) /\ Len(z) = n + 2 + n + 2
      /\ SubSeq(z, 1, n) = pk /\ SubSeq(z, n + 1, n + 2) = nk
      /\ SubSeq(z, n + 2 + 1, n + 2 + n) = pv /\ SubSeq(z, n + 2 + n + 1, n + 2 + n + 2) = nv
  <2>1. HasParts(Bytes, z, pk, nk, pv, nv)
    BY <1>1, <1>2, FourParts, Zenon
  <2> HIDE DEF z
  <2> QED
    BY <1>1, <1>2, <2>1, Zenon DEF HasParts
<1> HIDE DEF z
<1>6. 0 + 1 = 1 /\ 0 + n = n
  BY <1>4
<1>7. read_vector(z, 0, D) = quantized(key, c)
  BY <1>1, <1>5, <1>6, Zenon DEF read_vector, quantized, n
<1>8. read_vector(z, per_vector(D), D) = quantized(value, c)
  BY <1>2, <1>4, <1>5, Zenon DEF read_vector, quantized, n
<1>9. n + 2 + n + 2 = 2 * (n + 2)
  BY <1>4
<1> QED
  BY <1>3, <1>4, <1>5, <1>7, <1>8, <1>9 DEF read_slot

-----------------------------------------------------------------------------
(* The paged cache *)

Page(pos) == pos \div BlockSize
Offset(pos) == pos % BlockSize

\* The bytes at a position of a request.
Entry(kv, t, pos) == kv[t[Page(pos) + 1]][Offset(pos)]

Holds(kv, t, s) == \A pos \in 0 .. Len(s) - 1 : Entry(kv, t, pos) = slot_bytes(s[pos + 1])

IsInjectiveTable(t) == \A i, j \in DOMAIN t : t[i] = t[j] => i = j

SlotBytes == {x \in Seq(Bytes) : Len(x) = compute_paper_slot_size(HeadSize)}

\* The inductive invariant.
IInv ==
    /\ kv_cache \in [Blocks -> [Offsets -> SlotBytes]]
    /\ block_table \in [Requests -> Seq(Blocks)]
    /\ text \in [Requests -> Seq(Tokens)]
    /\ \A r \in Requests : Len(text[r]) <= Len(block_table[r]) * BlockSize
    /\ \A r \in Requests : IsInjectiveTable(block_table[r])
    /\ \A r \in Requests : Holds(kv_cache, block_table[r], text[r])
-----------------------------------------------------------------------------
(* Pages and offsets *)

\* A position has a page and an offset.
LEMMA PageAndOffset ==
    ASSUME NEW pos \in Nat
    PROVE  Page(pos) \in Nat /\ Offset(pos) \in Offsets /\ pos = Page(pos) * BlockSize + Offset(pos)
<1>1. BlockSize \in Nat /\ BlockSize >= 1
  BY CacheAssumption
<1>2. /\ pos \div BlockSize \in Nat
      /\ pos % BlockSize \in 0 .. BlockSize - 1
      /\ pos = (pos \div BlockSize) * BlockSize + (pos % BlockSize)
  <2>1. pos \div BlockSize \in Nat /\ pos % BlockSize \in 0 .. BlockSize - 1
    BY <1>1, SMTT(30)
  <2>2. pos = (pos \div BlockSize) * BlockSize + (pos % BlockSize)
    BY <1>1, SMTT(30)
  <2> QED
    BY <2>1, <2>2
<1> QED
  BY <1>2 DEF Page, Offset, Offsets

\* The page and the offset of a slot are those it was made from.
LEMMA PageOfSlot ==
    ASSUME NEW q \in Nat, NEW m \in Offsets
    PROVE  /\ q * BlockSize + m \in Nat
           /\ Page(q * BlockSize + m) = q /\ Offset(q * BlockSize + m) = m
<1> DEFINE n == q * BlockSize + m
           k == Page(n)
           o == Offset(n)
<1>1. BlockSize \in Nat /\ BlockSize >= 1 /\ m \in Nat /\ m < BlockSize
  BY CacheAssumption DEF Offsets
<1>2. q * BlockSize \in Nat
  BY <1>1
<1>3. n \in Nat
  BY <1>1, <1>2
<1>4. k \in Nat /\ o \in Nat /\ o < BlockSize /\ q * BlockSize + m = k * BlockSize + o
  BY <1>1, <1>3, PageAndOffset DEF Offsets
<1> HIDE DEF k, o
<1>5. ~(q < k)
  <2> SUFFICES ASSUME q + 1 <= k PROVE FALSE
    BY <1>4
  <2>1. (q + 1) * BlockSize <= k * BlockSize
    BY <1>1, <1>4, SMT
  <2>2. (q + 1) * BlockSize = q * BlockSize + BlockSize
    BY <1>1
  <2>3. k * BlockSize \in Nat
    BY <1>1, <1>4
  <2> QED
    BY <1>1, <1>2, <1>4, <2>1, <2>2, <2>3
<1>6. ~(k < q)
  <2> SUFFICES ASSUME k + 1 <= q PROVE FALSE
    BY <1>4
  <2>1. (k + 1) * BlockSize <= q * BlockSize
    BY <1>1, <1>4, SMT
  <2>2. (k + 1) * BlockSize = k * BlockSize + BlockSize
    BY <1>1, <1>4
  <2>3. k * BlockSize \in Nat
    BY <1>1, <1>4
  <2> QED
    BY <1>1, <1>2, <1>4, <2>1, <2>2, <2>3
<1>7. k = q
  BY <1>4, <1>5, <1>6
<1>8. o = m
  BY <1>1, <1>2, <1>4, <1>7
<1> QED
  BY <1>3, <1>7, <1>8 DEF k, o

\* The pages of a table with n blocks hold the first n * BlockSize positions.
LEMMA PageInTable ==
    ASSUME NEW pos \in Nat, NEW n \in Nat, pos < n * BlockSize
    PROVE  Page(pos) + 1 \in 1 .. n
<1> DEFINE k == Page(pos)
           o == Offset(pos)
<1>1. BlockSize \in Nat /\ BlockSize >= 1 /\ k \in Nat /\ o \in Nat /\ pos = k * BlockSize + o
  <2>1. k \in Nat /\ o \in Offsets /\ pos = k * BlockSize + o
    BY PageAndOffset, Zenon
  <2> HIDE DEF k, o
  <2>2. BlockSize \in Nat /\ BlockSize >= 1
    BY CacheAssumption
  <2>3. o \in Nat
    BY <2>1, <2>2 DEF Offsets
  <2> QED
    BY <2>1, <2>2, <2>3
<1> HIDE DEF k, o
<1>2. ~(n <= k)
  <2> SUFFICES ASSUME n <= k PROVE FALSE
    OBVIOUS
  <2>1. n * BlockSize <= k * BlockSize
    BY <1>1, SMT
  <2>2. n * BlockSize \in Nat /\ k * BlockSize \in Nat
    BY <1>1
  <2> QED
    BY <1>1, <2>1, <2>2
<1> QED
  BY <1>1, <1>2 DEF k
-----------------------------------------------------------------------------
(* The places of a batch *)

Batches == [Requests -> NewTokens]

\* The new tokens of a request.
LEMMA BatchType ==
    ASSUME NEW batch \in Batches, NEW r \in Requests
    PROVE  batch[r] \in Seq(Tokens) /\ Len(batch[r]) <= MaxBatch /\ MaxBatch \in Nat
<1>1. MaxBatch \in Nat
  BY CacheAssumption
<1>2. PICK n \in 0 .. MaxBatch : batch[r] \in [1 .. n -> Tokens]
  BY DEF Batches, NewTokens
<1> QED
  BY <1>1, <1>2

\* A place has a position behind the text of its request, and its slot is where the
\* block table says.
LEMMA PlaceHasSlot ==
    ASSUME IInv, NEW batch \in Batches, HasSlots(batch), NEW l \in places(batch)
    PROVE  /\ l[1] \in Requests /\ l[2] \in 1 .. Len(batch[l[1]])
           /\ position(l) \in Nat /\ position(l) >= Len(text[l[1]])
           /\ Page(position(l)) + 1 \in 1 .. Len(block_table[l[1]])
           /\ block_table[l[1]][Page(position(l)) + 1] \in Blocks
           /\ slot_mapping(l) \in Nat
           /\ Page(slot_mapping(l)) = block_table[l[1]][Page(position(l)) + 1]
           /\ Offset(slot_mapping(l)) = Offset(position(l))
<1> DEFINE r == l[1]
           t == block_table[r]
           pos == position(l)
<1>1. r \in Requests /\ l[2] \in 1 .. MaxBatch /\ l[2] <= Len(batch[r])
  BY DEF places
<1>2. t \in Seq(Blocks) /\ text[r] \in Seq(Tokens)
  BY <1>1 DEF IInv
<1>3. l[2] \in 1 .. Len(batch[r])
  BY <1>1, BatchType
<1>4. pos \in Nat /\ pos >= Len(text[r])
  BY <1>2, <1>3 DEF position
<1>5. Page(pos) + 1 <= Len(t)
  BY DEF HasSlots, Page
<1>6. Page(pos) \in Nat /\ Offset(pos) \in Offsets /\ pos = Page(pos) * BlockSize + Offset(pos)
  BY <1>4, PageAndOffset
<1>7. Page(pos) + 1 \in 1 .. Len(t)
  BY <1>2, <1>5, <1>6
<1> DEFINE b == t[Page(pos) + 1]
<1>8. b \in Blocks /\ b \in Nat
  BY <1>2, <1>7, CacheAssumption DEF Blocks
<1>9. pos - Page(pos) * BlockSize = Offset(pos)
  <2>1. Page(pos) * BlockSize \in Nat /\ Offset(pos) \in Nat
    BY <1>6, CacheAssumption DEF Offsets
  <2> QED
    BY <1>4, <1>6, <2>1
<1>10. slot_mapping(l) = b * BlockSize + Offset(pos)
  BY <1>9 DEF slot_mapping, Page
<1>11. /\ slot_mapping(l) \in Nat /\ Page(slot_mapping(l)) = b
       /\ Offset(slot_mapping(l)) = Offset(pos)
  BY <1>6, <1>8, <1>10, PageOfSlot
<1> QED
  BY <1>1, <1>3, <1>4, <1>7, <1>8, <1>11

\* What is written to a slot of a block table is the token at that position of that
\* request, and no other.
LEMMA OnlyOwnPlace ==
    ASSUME IInv, NEW batch \in Batches, HasSlots(batch), NEW r \in Requests, NEW pos \in Nat,
           Page(pos) + 1 \in 1 .. Len(block_table[r]),
           NEW l \in written(batch, block_table[r][Page(pos) + 1], Offset(pos))
    PROVE  l[1] = r /\ position(l) = pos /\ l \in places(batch)
<1> DEFINE b == block_table[r][Page(pos) + 1]
           p == position(l)
<1>1. l \in places(batch) /\ Page(slot_mapping(l)) = b /\ Offset(slot_mapping(l)) = Offset(pos)
  BY DEF written, Page, Offset
<1>2. /\ l[1] \in Requests /\ p \in Nat /\ Page(p) + 1 \in 1 .. Len(block_table[l[1]])
      /\ b = block_table[l[1]][Page(p) + 1] /\ Offset(p) = Offset(pos)
  BY <1>1, PlaceHasSlot
<1>3. block_table[r] \in Seq(Blocks) /\ IsInjectiveTable(block_table[r])
  BY DEF IInv
<1>4. l[1] = r
  <2> SUFFICES ASSUME l[1] # r PROVE FALSE
    OBVIOUS
  <2>1. block_table[l[1]][Page(p) + 1] \notin Range(block_table[r])
    BY <1>1 DEF HasSlots, Page
  <2>2. b \in Range(block_table[r])
    BY <1>3 DEF Range
  <2> QED
    BY <1>2, <2>1, <2>2
<1>5. Page(p) + 1 = Page(pos) + 1
  BY <1>2, <1>3, <1>4 DEF IsInjectiveTable
<1>6. Page(p) \in Nat /\ Page(pos) \in Nat
  BY <1>2, PageAndOffset
<1>7. Page(p) = Page(pos)
  BY <1>5, <1>6
<1>8. p = Page(p) * BlockSize + Offset(p) /\ pos = Page(pos) * BlockSize + Offset(pos)
  BY <1>2, PageAndOffset
<1> QED
  BY <1>1, <1>2, <1>4, <1>7, <1>8

\* Every token of a batch is written to its slot.
LEMMA OwnPlace ==
    ASSUME IInv, NEW batch \in Batches, HasSlots(batch), NEW l \in places(batch)
    PROVE  l \in written(batch, block_table[l[1]][Page(position(l)) + 1], Offset(position(l)))
<1>1. /\ slot_mapping(l) \in Nat
      /\ Page(slot_mapping(l)) = block_table[l[1]][Page(position(l)) + 1]
      /\ Offset(slot_mapping(l)) = Offset(position(l))
  BY PlaceHasSlot
<1>2. slot_mapping(l) >= 0
  BY <1>1
<1> QED
  BY <1>1, <1>2 DEF written, Page, Offset

\* The bytes of a token fill a slot and give its quantised key and value back.
LEMMA TokenBytes ==
    ASSUME NEW token \in Tokens
    PROVE  /\ slot_bytes(token) \in SlotBytes
           /\ read_slot(slot_bytes(token), HeadSize) =
                [key   |-> quantized(token.key, Centroids),
                 value |-> quantized(token.value, Centroids)]
<1>1. HeadSize \in Nat /\ HeadSize % 2 = 0 /\ IsTable(Centroids)
  BY CacheAssumption DEF IsTable
<1>2. IsVector(token.key, HeadSize) /\ IsVector(token.value, HeadSize)
  BY CacheAssumption DEF IsVector
<1>3. /\ slot_data(token.key, token.value, Centroids) \in Seq(Bytes)
      /\ Len(slot_data(token.key, token.value, Centroids)) = compute_paper_slot_size(HeadSize)
      /\ read_slot(slot_data(token.key, token.value, Centroids), HeadSize) =
           [key   |-> quantized(token.key, Centroids),
            value |-> quantized(token.value, Centroids)]
  BY <1>1, <1>2, SlotReadBack, Zenon
<1> QED
  BY <1>3 DEF slot_bytes, SlotBytes
-----------------------------------------------------------------------------
(* Every step preserves the invariant *)

\* A batch writes the slots of its own new tokens and no slot of an earlier one.
LEMMA StorePreserves ==
    ASSUME IInv, NEW batch \in Batches, Store(batch)
    PROVE  IInv'
<1>1. /\ HasSlots(batch) /\ kv_cache' = store_turboquant_kv(batch) /\ block_table' = block_table
      /\ text' = [r \in Requests |-> text[r] \o batch[r]]
  BY DEF Store
<1>2. /\ kv_cache \in [Blocks -> [Offsets -> SlotBytes]] /\ block_table \in [Requests -> Seq(Blocks)]
      /\ text \in [Requests -> Seq(Tokens)]
  BY DEF IInv
<1> DEFINE Chosen(b, o) == CHOOSE l \in written(batch, b, o) : TRUE
<1>3. ASSUME NEW b \in Blocks, NEW o \in Offsets, written(batch, b, o) = {}
      PROVE  kv_cache'[b][o] = kv_cache[b][o]
  BY <1>1, <1>3 DEF store_turboquant_kv
<1>4. ASSUME NEW b \in Blocks, NEW o \in Offsets, written(batch, b, o) # {}
      PROVE  /\ Chosen(b, o) \in written(batch, b, o)
             /\ kv_cache'[b][o] = slot_bytes(batch[Chosen(b, o)[1]][Chosen(b, o)[2]])
  BY <1>1, <1>4 DEF store_turboquant_kv
<1> HIDE DEF Chosen
<1>5. ASSUME NEW l \in places(batch)
      PROVE  batch[l[1]][l[2]] \in Tokens
  <2>1. l[1] \in Requests /\ l[2] \in 1 .. Len(batch[l[1]])
    BY <1>1, PlaceHasSlot
  <2> QED
    BY <2>1, BatchType
<1>6. kv_cache' \in [Blocks -> [Offsets -> SlotBytes]]
  <2>1. ASSUME NEW b \in Blocks, NEW o \in Offsets PROVE kv_cache'[b][o] \in SlotBytes
    <3>1. CASE written(batch, b, o) = {}
      BY <1>2, <1>3, <3>1
    <3>2. CASE written(batch, b, o) # {}
      <4>1. Chosen(b, o) \in places(batch)
        BY <1>4, <3>2 DEF written
      <4> QED
        BY <1>4, <1>5, <3>2, <4>1, TokenBytes
    <3> QED
      BY <3>1, <3>2
  <2>2. DOMAIN kv_cache' = Blocks /\ \A b \in Blocks : kv_cache'[b] \in [Offsets -> SlotBytes]
    <3>1. kv_cache' = [b \in Blocks |-> [o \in Offsets |-> kv_cache'[b][o]]]
      BY <1>1 DEF store_turboquant_kv
    <3> QED
      BY <2>1, <3>1
  <2>3. kv_cache' = [b \in Blocks |-> kv_cache'[b]]
    BY <1>1 DEF store_turboquant_kv
  <2> QED
    BY <2>2, <2>3
<1>7. ASSUME NEW r \in Requests
      PROVE  /\ text'[r] = text[r] \o batch[r]
             /\ text[r] \in Seq(Tokens) /\ batch[r] \in Seq(Tokens) /\ Len(batch[r]) <= MaxBatch
             /\ text'[r] \in Seq(Tokens) /\ Len(text'[r]) = Len(text[r]) + Len(batch[r])
             /\ \A i \in 1 .. Len(text[r]) : text'[r][i] = text[r][i]
             /\ \A i \in 1 .. Len(batch[r]) : text'[r][Len(text[r]) + i] = batch[r][i]
  <2>1. text'[r] = text[r] \o batch[r]
    BY <1>1, ZenonT(30)
  <2>2. text[r] \in Seq(Tokens) /\ batch[r] \in Seq(Tokens) /\ Len(batch[r]) <= MaxBatch
    BY <1>2, BatchType
  <2> DEFINE a == text[r]
             c == batch[r]
  <2>3. /\ a \o c \in Seq(Tokens) /\ Len(a \o c) = Len(a) + Len(c)
        /\ \A i \in 1 .. Len(a) : (a \o c)[i] = a[i]
        /\ \A i \in 1 .. Len(c) : (a \o c)[Len(a) + i] = c[i]
    <3>1. a \in Seq(Tokens) /\ c \in Seq(Tokens)
      BY <2>2
    <3> HIDE DEF a, c
    <3> QED
      BY <3>1
  <2> QED
    BY <2>1, <2>2, <2>3, ZenonT(30)
<1>8. text' \in [Requests -> Seq(Tokens)]
  <2>1. text' = [r \in Requests |-> text'[r]]
    BY <1>1, ZenonT(30)
  <2> QED
    BY <1>7, <2>1, ZenonT(30)
<1>9. ASSUME NEW r \in Requests, NEW pos \in Len(text[r]) .. Len(text'[r]) - 1
      PROVE  /\ <<r, pos - Len(text[r]) + 1>> \in places(batch)
             /\ position(<<r, pos - Len(text[r]) + 1>>) = pos
  <2> DEFINE n == Len(text[r])
             m == Len(batch[r])
             i == pos - n + 1
  <2>1. n \in Nat /\ m \in Nat /\ MaxBatch \in Nat /\ m <= MaxBatch /\ pos \in n .. n + m - 1
    <3>1. /\ Len(text'[r]) = n + m /\ m <= MaxBatch
          /\ text[r] \in Seq(Tokens) /\ batch[r] \in Seq(Tokens)
      BY <1>7, Zenon
    <3>2. MaxBatch \in Nat
      BY CacheAssumption
    <3>3. n \in Nat /\ m \in Nat
      BY <3>1
    <3>4. pos \in n .. Len(text'[r]) - 1
      OBVIOUS
    <3> HIDE DEF n, m
    <3> QED
      BY <3>1, <3>2, <3>3, <3>4
  <2> HIDE DEF n, m
  <2>2. i \in 1 .. MaxBatch /\ i <= m /\ n + i - 1 = pos
    BY <2>1
  <2> HIDE DEF i
  <2>3. <<r, i>> \in Requests \X (1 .. MaxBatch) /\ <<r, i>>[1] = r /\ <<r, i>>[2] = i
    BY <2>2
  <2>4. <<r, i>> \in places(batch) /\ position(<<r, i>>) = pos
    BY <2>2, <2>3 DEF places, position, n, m
  <2> QED
    BY <2>4 DEF i, n
<1>10. ASSUME NEW r \in Requests, NEW pos \in 0 .. Len(text'[r]) - 1
       PROVE  /\ pos \in Nat /\ Page(pos) + 1 \in 1 .. Len(block_table[r])
              /\ block_table[r][Page(pos) + 1] \in Blocks /\ Offset(pos) \in Offsets
  <2>1. pos \in Nat /\ block_table[r] \in Seq(Blocks) /\ Len(text[r]) \in Nat
    BY <1>2, <1>7
  <2>2. Page(pos) + 1 \in 1 .. Len(block_table[r])
    <3>1. CASE pos < Len(text[r])
      <4>1. Len(text[r]) <= Len(block_table[r]) * BlockSize /\ Len(block_table[r]) * BlockSize \in Nat
        BY <2>1, CacheAssumption DEF IInv
      <4>2. pos < Len(block_table[r]) * BlockSize /\ Len(block_table[r]) \in Nat
        BY <2>1, <3>1, <4>1
      <4> QED
        BY <2>1, <4>2, PageInTable
    <3>2. CASE ~(pos < Len(text[r]))
      <4>1. pos \in Len(text[r]) .. Len(text'[r]) - 1
        BY <1>7, <2>1, <3>2
      <4>2. /\ <<r, pos - Len(text[r]) + 1>> \in places(batch)
            /\ position(<<r, pos - Len(text[r]) + 1>>) = pos
            /\ <<r, pos - Len(text[r]) + 1>>[1] = r
        BY <1>9, <4>1, ZenonT(30)
      <4> QED
        BY <1>1, <4>2, PlaceHasSlot
    <3> QED
      BY <3>1, <3>2
  <2>3. Offset(pos) \in Offsets
    BY <2>1, PageAndOffset, Zenon
  <2>4. block_table[r][Page(pos) + 1] \in Blocks
    <3>1. \A u \in Seq(Blocks) : \A i \in 1 .. Len(u) : u[i] \in Blocks
      OBVIOUS
    <3> QED BY <3>1, <2>1, <2>2, Zenon
  <2> QED BY <2>1, <2>2, <2>3, <2>4, Zenon
<1>11. ASSUME NEW r \in Requests PROVE Holds(kv_cache', block_table[r], text'[r])
  <2> SUFFICES ASSUME NEW pos \in 0 .. Len(text'[r]) - 1
               PROVE  kv_cache'[block_table[r][Page(pos) + 1]][Offset(pos)] =
                        slot_bytes(text'[r][pos + 1])
    BY DEF Holds, Entry
  <2> DEFINE b == block_table[r][Page(pos) + 1]
             o == Offset(pos)
  <2>1. pos \in Nat /\ Page(pos) + 1 \in 1 .. Len(block_table[r]) /\ b \in Blocks /\ o \in Offsets
    BY <1>10
  <2>2. \A l \in written(batch, b, o) : l[1] = r /\ position(l) = pos /\ l \in places(batch)
    BY <1>1, <2>1, OnlyOwnPlace
  <2> HIDE DEF b, o
  <2>3. CASE pos < Len(text[r])
    <3>1. ASSUME NEW l \in written(batch, b, o) PROVE FALSE
      <4>1. l[1] = r /\ position(l) = pos /\ l \in places(batch)
        BY <2>2
      <4>2. position(l) >= Len(text[r])
        BY <1>1, <4>1, PlaceHasSlot
      <4> QED
        BY <1>7, <2>1, <2>3, <4>1, <4>2
    <3>2. kv_cache'[b][o] = kv_cache[b][o]
      BY <1>3, <2>1, <3>1
    <3>3. pos \in 0 .. Len(text[r]) - 1
      BY <1>7, <2>1, <2>3
    <3>4. kv_cache[b][o] = slot_bytes(text[r][pos + 1])
      BY <3>3 DEF IInv, Holds, Entry, b, o
    <3>5. text'[r][pos + 1] = text[r][pos + 1]
      <4>1. pos + 1 \in 1 .. Len(text[r])
        BY <1>7, <3>3
      <4> QED
        BY <1>7, <4>1, ZenonT(30)
    <3> QED
      BY <3>2, <3>4, <3>5 DEF b, o
  <2>4. CASE ~(pos < Len(text[r]))
    <3> DEFINE i == pos - Len(text[r]) + 1
    <3>1. pos \in Len(text[r]) .. Len(text'[r]) - 1 /\ Len(text[r]) \in Nat
      BY <1>7, <2>1, <2>4
    <3>2. <<r, i>> \in places(batch) /\ position(<<r, i>>) = pos /\ <<r, i>>[1] = r
      BY <1>9, <3>1, ZenonT(30)
    <3>3. <<r, i>> \in written(batch, b, o)
      BY <1>1, <3>2, OwnPlace DEF b, o
    <3>4. Chosen(b, o)[1] = r /\ position(Chosen(b, o)) = pos /\ Chosen(b, o) \in places(batch)
          /\ kv_cache'[b][o] = slot_bytes(batch[Chosen(b, o)[1]][Chosen(b, o)[2]])
      BY <1>4, <2>1, <2>2, <3>3
    <3>5. Chosen(b, o)[2] = i /\ i \in 1 .. Len(batch[r])
      <4>1. Chosen(b, o)[2] \in 1 .. Len(batch[r])
        BY <1>1, <3>4, PlaceHasSlot
      <4>2. Len(text[r]) + Chosen(b, o)[2] - 1 = pos
        BY <3>4 DEF position
      <4> DEFINE k == Chosen(b, o)[2]
                 n == Len(text[r])
      <4>3. k \in Int /\ n \in Nat /\ pos \in Nat /\ n + k - 1 = pos
        BY <2>1, <3>1, <4>1, <4>2
      <4> HIDE DEF k, n
      <4>4. k = pos - n + 1
        BY <4>3
      <4> QED
        BY <4>1, <4>4, ZenonT(30) DEF k, n
    <3>6. text'[r][pos + 1] = batch[r][i]
      <4>1. text'[r][Len(text[r]) + i] = batch[r][i]
        BY <1>7, <3>5, ZenonT(30)
      <4>2. Len(text[r]) + i = pos + 1
        BY <2>1, <3>1
      <4> QED
        BY <4>1, <4>2, ZenonT(30)
    <3> QED
      BY <3>4, <3>5, <3>6 DEF b, o
  <2> QED
    BY <2>3, <2>4
<1>12. ASSUME NEW r \in Requests PROVE Len(text'[r]) <= Len(block_table[r]) * BlockSize
  <2>1. Len(text'[r]) \in Nat /\ Len(block_table[r]) \in Nat /\ Len(block_table[r]) * BlockSize \in Nat
    BY <1>2, <1>7, CacheAssumption
  <2>2. CASE Len(text'[r]) = 0
    BY <2>1, <2>2
  <2>3. CASE Len(text'[r]) # 0
    <3> DEFINE pos == Len(text'[r]) - 1
               n == Len(block_table[r])
               k == Page(pos)
    <3>1. pos \in 0 .. Len(text'[r]) - 1 /\ pos \in Nat
      BY <2>1, <2>3
    <3>2. k \in Nat /\ k + 1 <= n /\ pos = k * BlockSize + Offset(pos)
          /\ Offset(pos) \in Nat /\ Offset(pos) < BlockSize /\ BlockSize \in Nat
      <4>1. k + 1 \in 1 .. n
        BY <1>10, <3>1
      <4> HIDE DEF pos
      <4>2. k \in Nat /\ pos = k * BlockSize + Offset(pos) /\ Offset(pos) \in Offsets
        BY <3>1, PageAndOffset
      <4>3. BlockSize \in Nat
        BY CacheAssumption
      <4> HIDE DEF k
      <4> QED
        BY <4>1, <4>2, <4>3 DEF Offsets
    <3>3. pos < (k + 1) * BlockSize /\ (k + 1) * BlockSize \in Nat
      <4> HIDE DEF k, pos
      <4>1. k * BlockSize \in Nat
        BY <3>2
      <4>2. (k + 1) * BlockSize = k * BlockSize + BlockSize
        BY <3>2
      <4> QED
        BY <3>2, <4>1, <4>2
    <3>4. (k + 1) * BlockSize <= n * BlockSize
      <4> HIDE DEF k
      <4> QED
        BY <2>1, <3>2, SMT
    <3> QED
      BY <2>1, <3>1, <3>3, <3>4
  <2> QED
    BY <2>2, <2>3
<1> QED
  BY <1>1, <1>2, <1>6, <1>8, <1>11, <1>12 DEF IInv

\* A position of a text lies on a page of the block table.
LEMMA TextOnPages ==
    ASSUME IInv, NEW r \in Requests, NEW pos \in 0 .. Len(text[r]) - 1
    PROVE  /\ pos \in Nat /\ Page(pos) + 1 \in 1 .. Len(block_table[r])
           /\ pos + 1 \in 1 .. Len(text[r]) /\ text[r][pos + 1] \in Tokens
           /\ block_table[r][Page(pos) + 1] \in Blocks /\ Offset(pos) \in Offsets
<1>1. /\ block_table[r] \in Seq(Blocks) /\ text[r] \in Seq(Tokens)
      /\ Len(text[r]) <= Len(block_table[r]) * BlockSize
  BY DEF IInv
<1>2. pos \in Nat /\ pos < Len(text[r]) /\ pos + 1 \in 1 .. Len(text[r]) /\ Len(text[r]) \in Nat
  BY <1>1
<1> DEFINE n == Len(block_table[r])
<1>3. n \in Nat /\ n * BlockSize \in Nat
  BY <1>1, CacheAssumption
<1>4. pos < n * BlockSize
  BY <1>1, <1>2, <1>3
<1>5. Page(pos) + 1 \in 1 .. n
  BY <1>2, <1>3, <1>4, PageInTable
<1>6. Offset(pos) \in Offsets
  BY <1>2, PageAndOffset
<1>7. text[r][pos + 1] \in Tokens
  BY <1>1, <1>2
<1>8. block_table[r][Page(pos) + 1] \in Blocks
  <2> HIDE DEF n
  <2>1. \A i \in 1 .. Len(block_table[r]) : block_table[r][i] \in Blocks
    BY <1>1
  <2> QED
    BY <1>5, <2>1 DEF n
<1> QED
  BY <1>2, <1>5, <1>6, <1>7, <1>8

\* A new block joins a table it was not in, behind the pages of the text.
LEMMA AllocatePreserves ==
    ASSUME IInv, NEW r \in Requests, NEW b \in Blocks, Allocate(r, b)
    PROVE  IInv'
<1>1. /\ kv_cache' = kv_cache /\ text' = text
      /\ block_table' = [block_table EXCEPT ![r] = Append(@, b)]
      /\ b \notin InUse
  BY DEF Allocate
<1> DEFINE t == block_table[r]
           u == block_table'[r]
<1>2. t \in Seq(Blocks) /\ IsInjectiveTable(t) /\ u = Append(t, b)
  BY <1>1 DEF IInv
<1>3. b \notin Range(t)
  BY <1>1 DEF InUse
<1>4. /\ u \in Seq(Blocks) /\ Len(u) = Len(t) + 1 /\ Len(t) \in Nat
      /\ \A i \in 1 .. Len(t) : u[i] = t[i]
      /\ u[Len(t) + 1] = b
  BY <1>2
<1>5. IsInjectiveTable(u)
  <2> SUFFICES ASSUME NEW i \in 1 .. Len(t) + 1, NEW j \in 1 .. Len(t) + 1, u[i] = u[j]
               PROVE  i = j
    BY <1>4 DEF IsInjectiveTable
  <2>1. \A k \in 1 .. Len(t) : u[k] \in Range(t)
    BY <1>2, <1>4 DEF Range
  <2>2. CASE i \in 1 .. Len(t) /\ j \in 1 .. Len(t)
    BY <1>2, <1>4, <2>2 DEF IsInjectiveTable
  <2>3. CASE i = Len(t) + 1 /\ j \in 1 .. Len(t)
    BY <1>3, <1>4, <2>1, <2>3
  <2>4. CASE j = Len(t) + 1 /\ i \in 1 .. Len(t)
    BY <1>3, <1>4, <2>1, <2>4
  <2>5. \A k \in 1 .. Len(t) + 1 : k \in 1 .. Len(t) \/ k = Len(t) + 1
    BY <1>4
  <2> QED
    BY <2>2, <2>3, <2>4, <2>5
<1>6. Holds(kv_cache, u, text[r])
  <2> SUFFICES ASSUME NEW pos \in 0 .. Len(text[r]) - 1
               PROVE  Entry(kv_cache, u, pos) = slot_bytes(text[r][pos + 1])
    BY DEF Holds
  <2>1. Page(pos) + 1 \in 1 .. Len(t)
    BY TextOnPages
  <2>2. Entry(kv_cache, t, pos) = slot_bytes(text[r][pos + 1])
    BY DEF IInv, Holds
  <2> QED
    BY <1>4, <2>1, <2>2 DEF Entry
<1>7. Len(text[r]) <= Len(u) * BlockSize
  <2> DEFINE n == Len(t)
             m == Len(text[r])
  <2>1. m <= n * BlockSize /\ text[r] \in Seq(Tokens)
    BY DEF IInv
  <2>2. BlockSize \in Nat /\ n \in Nat /\ m \in Nat
    BY <1>4, <2>1, CacheAssumption
  <2> HIDE DEF n, m
  <2>3. n * BlockSize \in Nat /\ (n + 1) * BlockSize = n * BlockSize + BlockSize
    BY <2>2
  <2>4. m <= (n + 1) * BlockSize
    BY <2>1, <2>2, <2>3
  <2> QED
    BY <1>4, <2>4 DEF n, m
<1>8. \A q \in Requests \ {r} : block_table'[q] = block_table[q]
  BY <1>1 DEF IInv
<1>9. block_table' \in [Requests -> Seq(Blocks)]
  BY <1>1, <1>4 DEF IInv
<1> QED
  BY <1>1, <1>5, <1>6, <1>7, <1>8, <1>9 DEF IInv

\* A prefix-cache hit takes over whole pages of a text, and the blocks under them.
LEMMA SharePreserves ==
    ASSUME IInv, NEW r \in Requests, NEW q \in Requests \ {r}, NEW n \in 1 .. MaxSeqLen, Share(r, q, n)
    PROVE  IInv'
<1>1. /\ kv_cache' = kv_cache /\ n * BlockSize <= Len(text[q])
      /\ block_table' = [block_table EXCEPT ![r] = SubSeq(block_table[q], 1, n)]
      /\ text' = [text EXCEPT ![r] = SubSeq(text[q], 1, n * BlockSize)]
  BY DEF Share
<1> DEFINE t == block_table[q]
           s == text[q]
           u == block_table'[r]
           v == text'[r]
           k == n * BlockSize
<1>2. /\ t \in Seq(Blocks) /\ IsInjectiveTable(t) /\ s \in Seq(Tokens) /\ Holds(kv_cache, t, s)
      /\ u = SubSeq(t, 1, n) /\ v = SubSeq(s, 1, k) /\ Len(s) <= Len(t) * BlockSize
  BY <1>1, ZenonT(30) DEF IInv
<1>3. n \in Nat /\ n >= 1 /\ BlockSize \in Nat /\ BlockSize >= 1 /\ k \in Nat /\ k <= Len(s)
  BY <1>1, CacheAssumption
<1>4. n <= Len(t)
  <2> DEFINE m == Len(t)
  <2>1. m \in Nat /\ Len(s) \in Nat /\ m * BlockSize \in Nat
    BY <1>2, <1>3
  <2>2. k <= m * BlockSize
    BY <1>2, <1>3, <2>1
  <2> HIDE DEF m
  <2>3. ~(m + 1 <= n)
    <3> SUFFICES ASSUME m + 1 <= n PROVE FALSE
      OBVIOUS
    <3>1. (m + 1) * BlockSize <= n * BlockSize
      BY <1>3, <2>1, SMT
    <3>2. (m + 1) * BlockSize = m * BlockSize + BlockSize
      BY <1>3, <2>1
    <3> QED
      BY <1>3, <2>1, <2>2, <3>1, <3>2
  <2> QED
    BY <1>3, <2>1, <2>3 DEF m
<1> HIDE DEF k, s, t
<1>5. u \in Seq(Blocks) /\ Len(u) = n /\ \A i \in 1 .. n : u[i] = t[i]
  BY <1>2, <1>3, <1>4
<1>6. v \in Seq(Tokens) /\ Len(v) = k /\ \A i \in 1 .. k : v[i] = s[i]
  BY <1>2, <1>3
<1>7. IsInjectiveTable(u)
  <2>1. \A i \in 1 .. n : i \in DOMAIN t
    BY <1>2, <1>3, <1>4
  <2>2. DOMAIN u = 1 .. n
    BY <1>5
  <2> QED
    BY <1>2, <1>5, <2>1, <2>2 DEF IsInjectiveTable
<1>8. Holds(kv_cache, u, v)
  <2> SUFFICES ASSUME NEW pos \in 0 .. k - 1
               PROVE  Entry(kv_cache, u, pos) = slot_bytes(v[pos + 1])
    BY <1>6 DEF Holds
  <2>1. pos \in Nat /\ pos < n * BlockSize /\ pos + 1 \in 1 .. k /\ pos \in 0 .. Len(s) - 1
    BY <1>2, <1>3 DEF k
  <2>2. Page(pos) + 1 \in 1 .. n
    BY <1>3, <2>1, PageInTable
  <2>3. Entry(kv_cache, t, pos) = slot_bytes(s[pos + 1])
    BY <1>2, <2>1 DEF Holds
  <2> QED
    BY <1>5, <1>6, <2>1, <2>2, <2>3 DEF Entry
<1>9. Len(v) <= Len(u) * BlockSize
  <2>1. Len(u) * BlockSize = k
    BY <1>5 DEF k
  <2> QED
    BY <1>3, <1>6, <2>1
<1>10. \A p \in Requests \ {r} : block_table'[p] = block_table[p] /\ text'[p] = text[p]
  BY <1>1 DEF IInv
<1>11. block_table' \in [Requests -> Seq(Blocks)] /\ text' \in [Requests -> Seq(Tokens)]
  <2>1. SubSeq(block_table[q], 1, n) \in Seq(Blocks) /\ SubSeq(text[q], 1, n * BlockSize) \in Seq(Tokens)
    BY <1>2, <1>5, <1>6 DEF s, t, k
  <2> QED
    BY <1>1, <2>1 DEF IInv
<1> QED
  BY <1>1, <1>7, <1>8, <1>9, <1>10, <1>11 DEF IInv

\* A request without blocks has no text.
LEMMA FreePreserves ==
    ASSUME IInv, NEW r \in Requests, Free(r)
    PROVE  IInv'
<1>1. /\ kv_cache' = kv_cache
      /\ block_table' = [block_table EXCEPT ![r] = <<>>]
      /\ text' = [text EXCEPT ![r] = <<>>]
  BY DEF Free
<1>2. block_table' \in [Requests -> Seq(Blocks)] /\ text' \in [Requests -> Seq(Tokens)]
  BY <1>1 DEF IInv
<1>3. \A q \in Requests \ {r} : block_table'[q] = block_table[q] /\ text'[q] = text[q]
  BY <1>1 DEF IInv
<1>4. block_table'[r] = <<>> /\ text'[r] = <<>>
  BY <1>1 DEF IInv
<1>5. /\ IsInjectiveTable(<<>>) /\ Holds(kv_cache, <<>>, <<>>)
      /\ Len(<<>>) <= Len(<<>>) * BlockSize
  <2>1. Len(<<>>) = 0 /\ DOMAIN <<>> = {}
    OBVIOUS
  <2>2. 0 .. 0 - 1 = {}
    OBVIOUS
  <2>3. 0 <= 0 * BlockSize
    BY CacheAssumption
  <2> QED
    BY <2>1, <2>2, <2>3 DEF IsInjectiveTable, Holds
<1> QED
  BY <1>1, <1>2, <1>3, <1>4, <1>5 DEF IInv

\* An empty cache: every slot is as long as a slot, and no request has text.
LEMMA InitHolds == Init => IInv
<1> SUFFICES ASSUME Init PROVE IInv
  OBVIOUS
<1> DEFINE n == compute_paper_slot_size(HeadSize)
<1>1. n \in Nat
  <2>1. HeadSize \in Nat
    BY CacheAssumption
  <2>2. per_vector(HeadSize) \in Nat
    BY <2>1, SMT DEF per_vector, mse_bytes, MSE_BITS
  <2> QED
    BY <2>2, SMT DEF compute_paper_slot_size
<1> HIDE DEF n
<1>2. [i \in 1 .. n |-> 0] \in SlotBytes
  <2>1. [i \in 1 .. n |-> 0] \in Seq(Bytes) /\ Len([i \in 1 .. n |-> 0]) = n
    BY <1>1 DEF Bytes
  <2> QED
    BY <2>1, ZenonT(30) DEF SlotBytes, n
<1>3. kv_cache \in [Blocks -> [Offsets -> SlotBytes]]
  BY <1>2 DEF Init, n
<1>4. /\ block_table = [r \in Requests |-> <<>>] /\ text = [r \in Requests |-> <<>>]
  BY DEF Init
<1>5. /\ IsInjectiveTable(<<>>) /\ Holds(kv_cache, <<>>, <<>>)
      /\ Len(<<>>) <= Len(<<>>) * BlockSize
  <2>1. Len(<<>>) = 0 /\ DOMAIN <<>> = {}
    OBVIOUS
  <2>2. 0 .. 0 - 1 = {}
    OBVIOUS
  <2>3. 0 <= 0 * BlockSize
    BY CacheAssumption
  <2> QED
    BY <2>1, <2>2, <2>3 DEF IsInjectiveTable, Holds
<1> QED
  BY <1>3, <1>4, <1>5 DEF IInv

\* The invariant behind the three theorems below.
THEOREM CacheInvariant == Spec => []IInv
<1>1. IInv /\ [Next]_vars => IInv'
  <2> SUFFICES ASSUME IInv, [Next]_vars PROVE IInv'
    OBVIOUS
  <2>1. CASE \E r \in Requests : \E b \in Blocks : Allocate(r, b)
    BY <2>1, AllocatePreserves
  <2>2. CASE \E r \in Requests : \E q \in Requests \ {r}, n \in 1 .. MaxSeqLen : Share(r, q, n)
    BY <2>2, SharePreserves
  <2>3. CASE \E r \in Requests : Free(r)
    BY <2>3, FreePreserves
  <2>4. CASE \E batch \in Batches : Store(batch)
    BY <2>4, StorePreserves
  <2>5. CASE UNCHANGED vars
    BY <2>5 DEF vars, IInv
  <2> QED
    BY <2>1, <2>2, <2>3, <2>4, <2>5 DEF Next, Batches
<1> QED
  BY <1>1, InitHolds, PTL DEF Spec

\* Every slot always holds compute_paper_slot_size bytes, and no text outgrows its
\* block table.
THEOREM CacheTypeCorrect == Spec => []CacheTypeOK
<1>1. IInv => CacheTypeOK
  <2> SUFFICES ASSUME IInv PROVE CacheTypeOK
    OBVIOUS
  <2>1. \A b \in Blocks, o \in Offsets :
          kv_cache[b][o] \in Seq(0 .. 255) /\ Len(kv_cache[b][o]) = compute_paper_slot_size(HeadSize)
    BY DEF IInv, SlotBytes, Bytes
  <2>2. kv_cache \in [Blocks -> [Offsets -> Seq(0 .. 255)]]
    <3>1. SlotBytes \subseteq Seq(0 .. 255)
      BY DEF SlotBytes, Bytes
    <3> QED
      BY <3>1 DEF IInv
  <2> QED
    BY <2>1, <2>2 DEF IInv, CacheTypeOK
<1> QED
  BY <1>1, CacheInvariant, PTL

\* The position a token was stored at is the one it is gathered from.
LEMMA DequantFindsToken ==
    ASSUME IInv, NEW r \in Requests, NEW pos \in 0 .. Len(text[r]) - 1,
           NEW width \in Nat, Len(block_table[r]) <= width, NEW stale
    PROVE  dequant(r, pos, width, stale) =
             [key   |-> quantized(text[r][pos + 1].key, Centroids),
              value |-> quantized(text[r][pos + 1].value, Centroids)]
<1> DEFINE t == block_table[r]
           page == Page(pos)
<1>1. /\ page + 1 \in 1 .. Len(t) /\ text[r][pos + 1] \in Tokens
      /\ pos \in Nat
  BY TextOnPages
<1>2. page \in Nat /\ t \in Seq(Blocks) /\ Len(t) \in Nat
  BY <1>1, PageAndOffset DEF IInv
<1>3. kv_cache[t[page + 1]][Offset(pos)] = slot_bytes(text[r][pos + 1])
  BY DEF IInv, Holds, Entry
<1> HIDE DEF page
<1>4. ~(page > width - 1) /\ page + 1 \in 1 .. width
  BY <1>1, <1>2
<1>5. row(r, width, stale)[page + 1] = t[page + 1]
  BY <1>1, <1>2, <1>4 DEF row
<1>6. dequant(r, pos, width, stale) = read_slot(kv_cache[t[page + 1]][Offset(pos)], HeadSize)
  <2>1. dequant(r, pos, width, stale) =
          read_slot(kv_cache[row(r, width, stale)[(IF page > width - 1 THEN width - 1 ELSE page) + 1]][Offset(pos)],
                    HeadSize)
    BY DEF dequant, page, Page, Offset
  <2> QED
    BY <1>4, <1>5, <2>1
<1> QED
  BY <1>1, <1>3, <1>6, TokenBytes

\* dequant_paged_kv always finds what store_turboquant_kv put there for the same
\* token of the same request.
THEOREM CacheReadsBack == Spec => []ReadsBackWhatWasStored
<1>1. IInv => ReadsBackWhatWasStored
  <2> SUFFICES ASSUME IInv, NEW r \in Requests, NEW pos \in 0 .. Len(text[r]) - 1,
                      NEW width \in Len(block_table[r]) .. NumBlocks, NEW stale \in Blocks
               PROVE  dequant(r, pos, width, stale) =
                        [key   |-> quantized(text[r][pos + 1].key, Centroids),
                         value |-> quantized(text[r][pos + 1].value, Centroids)]
    BY DEF ReadsBackWhatWasStored
  <2>1. Len(block_table[r]) \in Nat
    BY DEF IInv
  <2>2. width \in Nat /\ Len(block_table[r]) <= width
    BY <2>1, CacheAssumption, SMTT(30)
  <2> QED
    BY <2>2, DequantFindsToken
<1> QED
  BY <1>1, CacheInvariant, PTL

\* The index gathered for a coordinate is always the one of a nearest centroid.
THEOREM CacheReadsNearest == Spec => []ReadsBackNearestCentroid
<1>1. IInv => ReadsBackNearestCentroid
  <2> SUFFICES ASSUME IInv, NEW r \in Requests, NEW pos \in 0 .. Len(text[r]) - 1, NEW j \in 1 .. HeadSize,
                      NEW v \in {"key", "value"}, NEW k \in DOMAIN Centroids
               PROVE  LET y == text[r][pos + 1][v].y[j]
                      IN  Distance(y, Centroids[dequant(r, pos, Len(block_table[r]), 0)[v].indices[j] + 1])
                            <= Distance(y, Centroids[k])
    BY DEF ReadsBackNearestCentroid
  <2> DEFINE token == text[r][pos + 1]
             found == dequant(r, pos, Len(block_table[r]), 0)
  <2>1. token \in Tokens
    BY TextOnPages, ZenonT(30)
  <2>2. Len(block_table[r]) \in Nat
    BY DEF IInv
  <2>3. found = [key |-> quantized(token.key, Centroids), value |-> quantized(token.value, Centroids)]
    BY <2>2, DequantFindsToken
  <2>4. IsVector(token.key, HeadSize) /\ IsVector(token.value, HeadSize) /\ IsTable(Centroids)
    BY <2>1, CacheAssumption DEF IsVector, IsTable
  <2> HIDE DEF found, token
  <2>5. found[v].indices = indices(token[v], Centroids) /\ IsVector(token[v], HeadSize)
    BY <2>3, <2>4 DEF quantized
  <2>6. token[v].y \in [1 .. HeadSize -> Int]
    BY <2>5 DEF IsVector
  <2>7. token[v].y[j] \in Int /\ found[v].indices[j] = quantize(token[v].y[j], Centroids)
    BY <2>5, <2>6, ZenonT(30) DEF indices
  <2>8. Nearest(token[v].y[j], Centroids)
    BY <2>4, <2>7, QuantizeIsNearest
  <2> QED
    BY <2>7, <2>8, SMTT(30) DEF Nearest, found, token
<1> QED
  BY <1>1, CacheInvariant, PTL

-----------------------------------------------------------------------------
(* The set-up of the layers: the inductive invariant *)

Dtypes == {"float", "uint8", "int8"}

LayerRecords ==
  [turboquant : BOOLEAN, dtype : Dtypes,
   impl : {"AscendAttention", "AscendC8", "AscendTurboQuant"},
   tq_config : BOOLEAN, centroids : {0} \cup {2 ^ b : b \in {3, 4}},
   patched_spec : BOOLEAN, pi_centroids : Seq(Nat), tq_cached : BOOLEAN]

\* Layer l, as a property of its attributes, at a stage of the set-up.  The create_weights
\* of TurboQuant never runs: the method is looked up before _tq_config is set.  So the
\* class comes from the surgery alone, which goes by _tq_config.
ConstructedAs(l, layer, g, skips, at) ==
  /\ layer.turboquant <=> l \notin skips
  /\ layer.tq_config <=> l \notin skips
  /\ ~layer.patched_spec
  /\ at # "serving" => layer.dtype = IF g.quant_config = "C8" THEN "int8"
                                     ELSE IF l \in skips THEN "float" ELSE "uint8"
  /\ layer.impl = "AscendTurboQuant" <=> at = "serving" /\ g.importable /\ l \notin skips

AllConstructed ==
  \A i \in DOMAIN layers : ConstructedAs(i - 1, layers[i], given, skip.indices, stage)

\* What grouping leaves of the specs: a TurboQuant spec stays with the layers it was made
\* for, and they keep it unless C8 gave all specs one dtype.
Grouped(s, g, skips, slot) ==
  \A l \in 0 .. g.num_layers - 1 :
    /\ s[l].kind = "TQFull" => l \notin skips \cup g.sliding /\ s[l].slot = slot
    /\ l \notin skips \cup g.sliding /\ g.quant_config # "C8" => s[l].kind = "TQFull"

LTypes ==
  /\ stage \in {"args", "import", "model", "specs", "groups", "serving", "stopped"}
  /\ given \in Givens
  /\ skip \in [indices : SUBSET Layers, sliding_window : BOOLEAN]
  /\ patched \in BOOLEAN
  /\ layers \in Seq(LayerRecords)

LStages ==
  /\ stage \in {"args", "import"} => layers = << >> /\ ~patched
  /\ stage \notin {"args", "stopped"} =>
       /\ ~skip.sliding_window /\ get_boundary_skip_layers(given.num_layers) \subseteq skip.indices
       /\ AllConstructed
  /\ stage \notin {"args", "import", "stopped"} => patched = given.importable
  /\ stage \in {"specs", "groups", "serving"} => Len(layers) = given.num_layers
  /\ stage = "specs" => specs = [l \in Layers |-> get_kv_cache_spec(l)]
  /\ stage \in {"groups", "serving"} => Grouped(specs, given, skip.indices, slot_size_aligned)

LInv == LTypes /\ LStages

-----------------------------------------------------------------------------
(* The boundary layers, and the bytes of a slot *)

\* get_boundary_skip_layers takes two layers at each end when there are four, and with
\* fewer all but the middle one.
LEMMA BoundaryLayers ==
  ASSUME NEW n \in Nat \ {0}
  PROVE  /\ get_boundary_skip_layers(n) \subseteq 0 .. n - 1
         /\ \A l \in 0 .. n - 1 :
              \/ n >= 4 /\ (l < 2 \/ l >= n - 2)
              \/ n < 4 /\ 2 * l + 1 # n
              => l \in get_boundary_skip_layers(n)
         /\ n # 1 => 0 \in get_boundary_skip_layers(n)
<1>1. n \div 2 \in Nat /\ 2 * (n \div 2) <= n /\ n <= 2 * (n \div 2) + 1
  OBVIOUS
<1> DEFINE h == n \div 2
<1> HIDE DEF h
<1>2. h \in Nat /\ 2 * h <= n /\ n <= 2 * h + 1
  BY <1>1 DEF h
<1>3. get_boundary_skip_layers(n) = 0 .. Smaller(2, h) - 1 \cup n - Smaller(2, h) .. n - 1
  BY DEF get_boundary_skip_layers, h
<1> QED BY <1>2, <1>3 DEF Smaller

\* store_turboquant_kv writes as many bytes as compute_paper_slot_size says, for every
\* even head size.
LEMMA SlotIsWhatIsStored ==
  ASSUME given \in Givens
  PROVE  compute_paper_slot_size(head_size) = stored_bytes
<1> DEFINE zero == [y |-> [j \in 1 .. head_size |-> 0], norm |-> 0]
<1>1. head_size \in Nat /\ head_size % 2 = 0
  BY LayerAssumption DEF Givens, head_size
<1>2. 0 \in Norms
  BY DEF Norms, MaxNorm
<1>3. IsVector(zero, head_size)
  BY <1>2 DEF IsVector
<1>4. IsTable(<<0>>)
  BY DEF IsTable, IsSorted
<1> HIDE DEF zero
<1>5. Len(slot_data(zero, zero, <<0>>)) = compute_paper_slot_size(head_size)
  BY <1>1, <1>3, <1>4, SlotReadBack
<1> QED BY <1>5 DEF stored_bytes, zero

-----------------------------------------------------------------------------
(* The steps *)

LEMMA InitLInv == LayerInit => LInv
<1> SUFFICES ASSUME LayerInit PROVE LInv
  OBVIOUS
<1>1. LTypes
  <2>1. layers \in Seq(LayerRecords)
    BY DEF LayerInit
  <2> QED BY <2>1, ZenonT(30) DEF LayerInit, LTypes
<1>2. stage = "args" /\ layers = << >> /\ ~patched
  BY DEF LayerInit
<1>3. /\ stage \in {"args", "stopped"} /\ stage \in {"args", "import", "stopped"}
      /\ stage \notin {"specs", "groups", "serving"} /\ stage \notin {"groups", "serving"}
      /\ stage # "specs"
  BY <1>2
<1>4. LStages
  BY <1>2, <1>3, Zenon DEF LStages
<1> QED BY <1>1, <1>4 DEF LInv

\* A layer as the constructor makes it.
LEMMA ConstructedLayer ==
  ASSUME LInv, stage = "model", NEW l \in Layers
  PROVE  LET layer == _init_turboquant_buffers(_init_kv_cache_quant(bare_layer(l)))
         IN  layer \in LayerRecords /\ ConstructedAs(l, layer, given, skip.indices, "model")
<1> DEFINE bare == bare_layer(l)
           quantized_layer == _init_kv_cache_quant(bare)
           n == 2 ^ centroid_bits
           tq == l \notin skip.indices
<1>1. ~skip.sliding_window /\ given.cache_dtype \in DOMAIN TQ_PRESETS
  BY DEF LInv, LTypes, LStages, Givens
<1>2. centroid_bits \in {3, 4}
  BY <1>1 DEF centroid_bits, preset, TQ_PRESETS
<1>3. n \in {2 ^ b : b \in {3, 4}}
  BY <1>2, ZenonT(30)
<1> HIDE DEF n
<1>4. /\ bare \in LayerRecords /\ bare.turboquant = tq /\ ~bare.tq_config /\ ~bare.patched_spec
      /\ bare.dtype = (IF l \in skip.indices THEN "float" ELSE "uint8")
      /\ bare.impl = "AscendAttention"
  <2>1. skipped(l) <=> l \in skip.indices
    BY <1>1 DEF skipped
  <2> QED BY <2>1 DEF bare_layer, LayerRecords, Dtypes
<1> HIDE DEF bare
<1>5. \/ get_quant_method(bare) = "none" /\ given.quant_config # "C8"
      \/ get_quant_method(bare) = "FAQuant" /\ given.quant_config # "C8"
      \/ get_quant_method(bare) = "C8"
  BY <1>4 DEF get_quant_method
<1>6. /\ quantized_layer \in LayerRecords /\ quantized_layer.turboquant = tq
      /\ ~quantized_layer.tq_config /\ ~quantized_layer.patched_spec
      /\ quantized_layer.dtype = IF given.quant_config = "C8" THEN "int8"
                                 ELSE IF l \in skip.indices THEN "float" ELSE "uint8"
      /\ quantized_layer.impl # "AscendTurboQuant"
  <2>1. CASE get_quant_method(bare) # "C8"
    <3>1. quantized_layer = bare
      BY <1>5, <2>1 DEF _init_kv_cache_quant, create_weights
    <3> QED BY <1>4, <1>5, <2>1, <3>1
  <2>2. CASE get_quant_method(bare) = "C8"
    <3>1. given.quant_config \in {"C8", "C8_producer"}
      BY <1>4, <2>2 DEF get_quant_method
    <3>2. quantized_layer =
            [bare EXCEPT !.dtype = IF given.quant_config = "C8_producer" THEN @ ELSE "int8",
                         !.impl = "AscendC8"]
      BY <2>2 DEF _init_kv_cache_quant, create_weights
    <3> QED BY <1>4, <3>1, <3>2 DEF LayerRecords, Dtypes
  <2> QED BY <2>1, <2>2
<1> HIDE DEF quantized_layer
<1>7. CASE tq
  <2>1. _init_turboquant_buffers(quantized_layer) =
          [quantized_layer EXCEPT !.centroids = n, !.tq_config = TRUE]
    BY <1>6, <1>7 DEF _init_turboquant_buffers, n
  <2> QED BY <1>3, <1>6, <1>7, <2>1 DEF LayerRecords, ConstructedAs, quantized_layer, bare
<1>8. CASE ~tq
  <2>1. _init_turboquant_buffers(quantized_layer) = quantized_layer
    BY <1>6, <1>8 DEF _init_turboquant_buffers
  <2> QED BY <1>6, <1>8, <2>1 DEF ConstructedAs, quantized_layer, bare
<1> QED BY <1>7, <1>8

\* _ensure_on_device changes only what it derives.
LEMMA CachedOnDevice ==
  ASSUME NEW layer \in LayerRecords, head_size \in Nat
  PROVE  LET cached == _ensure_on_device(layer) IN
         /\ cached \in LayerRecords
         /\ cached.turboquant = layer.turboquant /\ cached.tq_config = layer.tq_config
         /\ cached.patched_spec = layer.patched_spec /\ cached.impl = layer.impl
<1> DEFINE p == <<head_size>>
           cached == [layer EXCEPT !.pi_centroids = p, !.tq_cached = TRUE]
<1>1. p \in Seq(Nat)
  OBVIOUS
<1> HIDE DEF p
<1>2. /\ cached \in LayerRecords
      /\ cached.turboquant = layer.turboquant /\ cached.tq_config = layer.tq_config
      /\ cached.patched_spec = layer.patched_spec /\ cached.impl = layer.impl
  BY <1>1, ZenonT(30) DEF LayerRecords
<1> QED BY <1>2 DEF _ensure_on_device, p

\* The class surgery, on a layer as the constructor made it.
LEMMA LayerAfterSurgery ==
  ASSUME NEW l, NEW layer \in LayerRecords, NEW skips,
         ConstructedAs(l, layer, given, skips, "groups")
  PROVE  surgery(layer) \in LayerRecords /\ ConstructedAs(l, surgery(layer), given, skips, "serving")
<1>1. CASE given.importable /\ l \notin skips
  <2>1. surgery(layer) = [layer EXCEPT !.impl = "AscendTurboQuant", !.dtype = "uint8"]
    BY <1>1 DEF surgery, ConstructedAs
  <2> QED BY <1>1, <2>1 DEF ConstructedAs, LayerRecords, Dtypes
<1>2. CASE ~(given.importable /\ l \notin skips)
  <2>1. surgery(layer) = layer
    BY <1>2 DEF surgery, ConstructedAs
  <2> QED BY <1>2, <2>1 DEF ConstructedAs
<1> QED BY <1>1, <1>2

\* What the specs that the worker reports say of a layer.
ReportedAs(l, spec, g, skips, slot) ==
  /\ DOMAIN spec = {"kind", "dtype", "slot", "blocks"}
  /\ spec.kind \in {"Full", "TQFull", "SlidingWindow"}
  /\ spec.kind = "TQFull" <=> l \notin skips \cup g.sliding
  /\ spec.kind = "TQFull" => spec.slot = slot
  /\ g.quant_config # "C8" => spec.dtype = IF l \in skips THEN "float" ELSE "uint8"

LEMMA ReportedSpecs ==
  ASSUME LInv, stage = "specs", NEW l \in Layers
  PROVE  ReportedAs(l, specs[l], given, skip.indices, slot_size_aligned)
<1>1. layers \in Seq(LayerRecords) /\ Len(layers) = given.num_layers /\ given.num_layers \in Nat
  BY LayerAssumption DEF LInv, LTypes, LStages, Givens
<1>2. l + 1 \in DOMAIN layers /\ (l + 1) - 1 = l
  BY <1>1 DEF Layers
<1>3. specs[l] = get_kv_cache_spec(l)
  BY DEF LInv, LStages
<1>4. ConstructedAs(l, layer_of(l), given, skip.indices, "specs")
  BY <1>2 DEF LInv, LStages, AllConstructed, layer_of
<1> DEFINE layer == layer_of(l)
<1> HIDE DEF layer
<1>5. /\ ~layer.patched_spec /\ (layer.turboquant <=> l \notin skip.indices)
      /\ given.quant_config # "C8" => layer.dtype = IF l \in skip.indices THEN "float" ELSE "uint8"
  BY <1>4 DEF ConstructedAs, layer
<1>6. specs[l] = IF is_sliding(l) THEN spec_of("SlidingWindow", layer, head_size)
                 ELSE IF layer.turboquant THEN spec_of("TQFull", layer, slot_size_aligned)
                 ELSE spec_of("Full", layer, head_size)
  BY <1>3, <1>5 DEF get_kv_cache_spec, layer
<1> QED BY <1>5, <1>6 DEF spec_of, is_sliding, ReportedAs

\* Grouping keeps to the layers: with more than one layer, the first is a boundary layer,
\* so specs of TurboQuant layers merge into its spec only when C8 made their dtypes equal.
LEMMA GroupedSpecs ==
  ASSUME LInv, GetKVCacheGroups, stage' = "groups"
  PROVE  Grouped(specs', given, skip.indices, slot_size_aligned)
<1> DEFINE s == IF given.disable_hybrid_kv_cache_manager THEN unify_hybrid_kv_cache_specs(specs)
                ELSE specs
<1>1. stage = "specs"
  BY DEF GetKVCacheGroups
<1>2. given.num_layers \in Nat \ {0} /\ Layers = 0 .. given.num_layers - 1 /\ 0 \in Layers
  BY LayerAssumption DEF LInv, LTypes, Givens, Layers
<1>3. ASSUME NEW l \in Layers
      PROVE  ReportedAs(l, s[l], given, skip.indices, slot_size_aligned)
  <2>1. ReportedAs(l, specs[l], given, skip.indices, slot_size_aligned)
    BY <1>1, ReportedSpecs
  <2>2. CASE s[l] = specs[l]
    BY <2>1, <2>2
  <2>3. CASE s[l] = [specs[l] EXCEPT !.kind = "Full"] /\ specs[l].kind = "SlidingWindow"
    <3>1. /\ s[l].kind = "Full" /\ s[l].dtype = specs[l].dtype
          /\ DOMAIN s[l] = {"kind", "dtype", "slot", "blocks"}
      BY <2>1, <2>3 DEF ReportedAs
    <3> QED BY <2>1, <2>3, <3>1 DEF ReportedAs
  <2>4. s[l] = specs[l] \/ (s[l] = [specs[l] EXCEPT !.kind = "Full"] /\ specs[l].kind = "SlidingWindow")
    BY DEF unify_hybrid_kv_cache_specs
  <2> QED BY <2>2, <2>3, <2>4
<1>4. \/ is_kv_cache_spec_uniform(s) /\ specs' = [l \in Layers |-> s[0]]
      \/ specs' = s
      \/ specs' = unify_kv_cache_spec_page_size(s)
  BY DEF GetKVCacheGroups, Raise
<1> SUFFICES ASSUME NEW l \in Layers
             PROVE  /\ specs'[l].kind = "TQFull" => /\ l \notin skip.indices \cup given.sliding
                                                    /\ specs'[l].slot = slot_size_aligned
                    /\ l \notin skip.indices \cup given.sliding /\ given.quant_config # "C8"
                         => specs'[l].kind = "TQFull"
  BY <1>2 DEF Grouped
<1>5. /\ ReportedAs(l, s[l], given, skip.indices, slot_size_aligned)
      /\ ReportedAs(0, s[0], given, skip.indices, slot_size_aligned)
  BY <1>2, <1>3
<1>6. l # 0 => 0 \in skip.indices
  <2>1. l # 0 => given.num_layers # 1
    BY <1>2
  <2> QED BY <1>1, <1>2, <2>1, BoundaryLayers DEF LInv, LStages
<1> HIDE DEF s
<1>7. CASE is_kv_cache_spec_uniform(s) /\ specs' = [m \in Layers |-> s[0]]
  <2>1. specs'[l] = s[0]
    BY <1>7
  <2>2. IF s[0].kind = "Full" THEN s[l].kind # "SlidingWindow" /\ s[l].dtype = s[0].dtype
        ELSE s[l] = s[0]
    BY <1>7 DEF is_kv_cache_spec_uniform
  <2>3. CASE s[0].kind = "Full"
    <3>1. l = 0 => l \in skip.indices \cup given.sliding
      BY <1>5, <2>3 DEF ReportedAs
    <3>2. l # 0 /\ given.quant_config # "C8" => l \in skip.indices
      BY <1>5, <1>6, <2>2, <2>3 DEF ReportedAs
    <3> QED BY <2>1, <2>3, <3>1, <3>2
  <2>4. CASE s[0].kind # "Full"
    BY <1>5, <2>1, <2>2, <2>4 DEF ReportedAs
  <2> QED BY <2>3, <2>4
<1>8. CASE specs' = s
  BY <1>5, <1>8 DEF ReportedAs
<1>9. CASE specs' = unify_kv_cache_spec_page_size(s)
  <2> DEFINE n == s[l].blocks * (max_page_size(s) \div page_size_bytes(s[l]))
  <2>0. specs'[l] = [s[l] EXCEPT !.blocks = n]
    BY <1>9 DEF unify_kv_cache_spec_page_size
  <2> HIDE DEF n
  <2>1. specs'[l].kind = s[l].kind /\ specs'[l].slot = s[l].slot
    BY <1>5, <2>0 DEF ReportedAs
  <2> QED BY <1>5, <2>1 DEF ReportedAs
<1> QED BY <1>4, <1>7, <1>8, <1>9

\* What the stages after the first rest on does not change once the layers are chosen.
LEMMA SameGivens ==
  ASSUME UNCHANGED <<given, skip>>
  PROVE  /\ Layers' = Layers /\ head_size' = head_size
         /\ get_boundary_skip_layers(given.num_layers)' = get_boundary_skip_layers(given.num_layers)
         /\ patched' = patched => slot_size_aligned' = slot_size_aligned
BY DEF Layers, head_size, get_boundary_skip_layers, slot_size_aligned, slot_size_of_preset, preset

LEMMA CreateEngineConfigLInv == LInv /\ CreateEngineConfig => LInv'
<1> SUFFICES ASSUME LInv, CreateEngineConfig PROVE LInv'
  OBVIOUS
<1> DEFINE b == get_boundary_skip_layers(given.num_layers)
<1>1. /\ stage = "args" /\ layers' = << >> /\ given' = given
      /\ ~patched' /\ patched' \in BOOLEAN
      /\ given \in Givens /\ skip \in [indices : SUBSET Layers, sliding_window : BOOLEAN]
  BY DEF CreateEngineConfig, LInv, LTypes, LStages
<1>2. b \subseteq Layers /\ Layers' = Layers /\ get_boundary_skip_layers(given.num_layers)' = b
  BY <1>1, LayerAssumption, BoundaryLayers DEF Givens, Layers, get_boundary_skip_layers
<1>3. layers' \in Seq(LayerRecords) /\ AllConstructed'
  BY <1>1 DEF AllConstructed
<1> HIDE DEF b
<1>4. CASE stage' = "stopped" /\ skip' = skip
  <2>1. LTypes'
    BY <1>1, <1>2, <1>3, <1>4, ZenonT(30) DEF LTypes
  <2>2. LStages'
    BY <1>4 DEF LStages
  <2> QED BY <2>1, <2>2 DEF LInv
<1>5. CASE /\ stage' = "import" /\ ~skip.sliding_window
           /\ skip' = [skip EXCEPT !.indices = @ \cup b]
  <2>1. /\ skip' \in [indices : SUBSET Layers, sliding_window : BOOLEAN]
        /\ ~skip'.sliding_window /\ b \subseteq skip'.indices
    BY <1>1, <1>2, <1>5
  <2>2. LTypes'
    BY <1>1, <1>2, <1>3, <1>5, <2>1, ZenonT(30) DEF LTypes
  <2>3. LStages'
    BY <1>1, <1>2, <1>3, <1>5, <2>1 DEF LStages
  <2> QED BY <2>2, <2>3 DEF LInv
<1> QED BY <1>4, <1>5 DEF CreateEngineConfig, Raise, b

LEMMA ImportModelRunnerLInv == LInv /\ ImportModelRunner => LInv'
<1> SUFFICES ASSUME LInv, ImportModelRunner PROVE LInv'
  OBVIOUS
<1>1. /\ stage = "import" /\ stage' = "model" /\ UNCHANGED <<given, skip, layers, specs>>
      /\ layers = << >> /\ given.importable \in BOOLEAN /\ patched' = given.importable
  BY DEF ImportModelRunner, LInv, LTypes, LStages, Givens
<1>2. LTypes'
  BY <1>1, SameGivens DEF LInv, LTypes
<1>3. AllConstructed'
  BY <1>1 DEF AllConstructed
<1>4. LStages'
  BY <1>1, <1>3, SameGivens DEF LInv, LStages
<1> QED BY <1>2, <1>4 DEF LInv

LEMMA ConstructLayerLInv == LInv /\ ConstructLayer => LInv'
<1> SUFFICES ASSUME LInv, ConstructLayer PROVE LInv'
  OBVIOUS
<1> DEFINE l == Len(layers)
           layer == _init_turboquant_buffers(_init_kv_cache_quant(bare_layer(l)))
<1>1. /\ stage = "model" /\ stage' = "model" /\ UNCHANGED <<given, skip, patched, specs>>
      /\ layers \in Seq(LayerRecords) /\ l < given.num_layers /\ given.num_layers \in Nat
      /\ layers' = Append(layers, layer)
  BY LayerAssumption DEF ConstructLayer, LInv, LTypes, Givens
<1>2. l \in Layers
  BY <1>1 DEF Layers
<1>3. layer \in LayerRecords /\ ConstructedAs(l, layer, given, skip.indices, "model")
  BY <1>1, <1>2, ConstructedLayer
<1> HIDE DEF layer
<1>4. /\ layers' \in Seq(LayerRecords) /\ DOMAIN layers' = 1 .. l + 1
      /\ layers'[l + 1] = layer /\ \A i \in 1 .. l : layers'[i] = layers[i]
  BY <1>1, <1>3
<1>5. AllConstructed'
  <2> SUFFICES ASSUME NEW i \in 1 .. l + 1
               PROVE  ConstructedAs(i - 1, layers'[i], given, skip.indices, "model")
    BY <1>1, <1>4 DEF AllConstructed
  <2>1. CASE i = l + 1
    BY <1>1, <1>3, <1>4, <2>1
  <2>2. CASE i # l + 1
    <3>1. i \in DOMAIN layers /\ layers'[i] = layers[i]
      BY <1>1, <1>4, <2>2
    <3> QED BY <1>1, <3>1 DEF LInv, LStages, AllConstructed
  <2> QED BY <2>1, <2>2
<1>6. LTypes'
  BY <1>1, <1>4, SameGivens DEF LInv, LTypes
<1>7. LStages'
  BY <1>1, <1>5, SameGivens DEF LInv, LStages
<1> QED BY <1>6, <1>7 DEF LInv

LEMMA GetKVCacheSpecLInv == LInv /\ GetKVCacheSpec => LInv'
<1> SUFFICES ASSUME LInv, GetKVCacheSpec PROVE LInv'
  OBVIOUS
<1>1. /\ stage = "model" /\ stage' = "specs" /\ UNCHANGED <<given, skip, patched, layers>>
      /\ Len(layers) = given.num_layers /\ specs' = [l \in Layers |-> get_kv_cache_spec(l)]
  BY DEF GetKVCacheSpec
<1>2. [l \in Layers |-> get_kv_cache_spec(l)]' = [l \in Layers |-> get_kv_cache_spec(l)]
  BY <1>1, SameGivens DEF get_kv_cache_spec, layer_of, is_sliding
<1>3. AllConstructed'
  BY <1>1 DEF LInv, LStages, AllConstructed, ConstructedAs
<1>4. LTypes'
  BY <1>1, SameGivens DEF LInv, LTypes
<1>5. LStages'
  BY <1>1, <1>2, <1>3, SameGivens DEF LInv, LStages
<1> QED BY <1>4, <1>5 DEF LInv

LEMMA GetKVCacheGroupsLInv == LInv /\ GetKVCacheGroups => LInv'
<1> SUFFICES ASSUME LInv, GetKVCacheGroups PROVE LInv'
  OBVIOUS
<1>1. /\ stage = "specs" /\ UNCHANGED <<given, skip, patched, layers>>
      /\ stage' \in {"groups", "stopped"}
  BY DEF GetKVCacheGroups, Raise
<1>2. stage' = "groups" => Grouped(specs, given, skip.indices, slot_size_aligned)'
  BY <1>1, GroupedSpecs, SameGivens
<1>3. stage' = "groups" => AllConstructed'
  BY <1>1 DEF LInv, LStages, AllConstructed, ConstructedAs
<1>4. LTypes'
  BY <1>1, SameGivens DEF LInv, LTypes
<1>5. LStages'
  BY <1>1, <1>2, <1>3, SameGivens DEF LInv, LStages
<1> QED BY <1>4, <1>5 DEF LInv

LEMMA InitializeKVCacheLInv == LInv /\ InitializeKVCache => LInv'
<1> SUFFICES ASSUME LInv, InitializeKVCache PROVE LInv'
  OBVIOUS
<1>1. /\ stage = "groups" /\ stage' = "serving" /\ UNCHANGED <<given, skip, patched, specs>>
      /\ layers \in Seq(LayerRecords) /\ Len(layers) = given.num_layers
      /\ layers' = [i \in DOMAIN layers |-> surgery(layers[i])]
      /\ \A i \in DOMAIN layers : ConstructedAs(i - 1, layers[i], given, skip.indices, "groups")
  BY DEF InitializeKVCache, LInv, LTypes, LStages, AllConstructed
<1>2. ASSUME NEW i \in DOMAIN layers
      PROVE  /\ surgery(layers[i]) \in LayerRecords
             /\ ConstructedAs(i - 1, surgery(layers[i]), given, skip.indices, "serving")
  <2>1. layers[i] \in LayerRecords
    BY <1>1
  <2> QED BY <1>1, <2>1, LayerAfterSurgery
<1>3. /\ layers' \in Seq(LayerRecords) /\ Len(layers') = Len(layers)
      /\ DOMAIN layers' = DOMAIN layers
  BY <1>1, <1>2
<1>4. AllConstructed'
  BY <1>1, <1>2, <1>3 DEF AllConstructed
<1>5. LTypes'
  BY <1>1, <1>3, SameGivens DEF LInv, LTypes
<1>6. LStages'
  BY <1>1, <1>3, <1>4, SameGivens DEF LInv, LStages
<1> QED BY <1>5, <1>6 DEF LInv

LEMMA ForwardLInv ==
  ASSUME LInv, NEW l \in Layers, NEW pass \in Passes, Forward(l, pass)
  PROVE  LInv'
<1>1. /\ stage = "serving" /\ stage' \in {"serving", "stopped"}
      /\ UNCHANGED <<given, skip, patched, specs>>
      /\ layers \in Seq(LayerRecords) /\ Len(layers) = given.num_layers /\ AllConstructed
  BY DEF Forward, Raise, LInv, LTypes, LStages
<1>2. head_size \in Nat /\ given.num_layers \in Nat
  BY LayerAssumption DEF LInv, LTypes, Givens, head_size
<1>3. l + 1 \in DOMAIN layers
  BY <1>1, <1>2 DEF Layers
<1>4. /\ layers' \in Seq(LayerRecords) /\ Len(layers') = Len(layers)
      /\ \A i \in DOMAIN layers :
           /\ layers'[i].turboquant = layers[i].turboquant
           /\ layers'[i].tq_config = layers[i].tq_config
           /\ layers'[i].patched_spec = layers[i].patched_spec
           /\ layers'[i].impl = layers[i].impl
  <2>1. CASE layers' = layers
    BY <1>1, <2>1
  <2>2. CASE layers' = [layers EXCEPT ![l + 1] = _ensure_on_device(@)]
    <3>1. layers[l + 1] \in LayerRecords
      BY <1>1, <1>3
    <3>2. /\ _ensure_on_device(layers[l + 1]) \in LayerRecords
          /\ _ensure_on_device(layers[l + 1]).turboquant = layers[l + 1].turboquant
          /\ _ensure_on_device(layers[l + 1]).tq_config = layers[l + 1].tq_config
          /\ _ensure_on_device(layers[l + 1]).patched_spec = layers[l + 1].patched_spec
          /\ _ensure_on_device(layers[l + 1]).impl = layers[l + 1].impl
      BY <1>2, <3>1, CachedOnDevice
    <3> QED BY <1>1, <1>3, <2>2, <3>2
  <2> QED BY <2>1, <2>2 DEF Forward
<1>5. stage' = "serving" => AllConstructed'
  BY <1>1, <1>4 DEF AllConstructed, ConstructedAs
<1>6. LTypes'
  BY <1>1, <1>4, SameGivens DEF LInv, LTypes
<1>7. LStages'
  BY <1>1, <1>4, <1>5, SameGivens DEF LInv, LStages
<1> QED BY <1>6, <1>7 DEF LInv

LEMMA StutterLInv == LInv /\ UNCHANGED layer_vars => LInv'
<1> SUFFICES ASSUME LInv, UNCHANGED <<stage, given, skip, patched, layers, specs>> PROVE LInv'
  BY DEF layer_vars
<1>1. LTypes'
  BY SameGivens DEF LInv, LTypes
<1>2. AllConstructed' = AllConstructed
  BY DEF AllConstructed
<1>3. [l \in Layers |-> get_kv_cache_spec(l)]' = [l \in Layers |-> get_kv_cache_spec(l)]
  BY SameGivens DEF get_kv_cache_spec, layer_of, is_sliding
<1>4. LStages'
  BY <1>2, <1>3, SameGivens DEF LInv, LStages
<1> QED BY <1>1, <1>4 DEF LInv

LEMMA LInvAlways == LayerSpec => []LInv
<1>1. LInv /\ [LayerNext]_layer_vars => LInv'
  BY CreateEngineConfigLInv, ImportModelRunnerLInv, ConstructLayerLInv, GetKVCacheSpecLInv,
     GetKVCacheGroupsLInv, InitializeKVCacheLInv, ForwardLInv, StutterLInv, ZenonT(30)
     DEF LayerNext
<1> QED BY <1>1, InitLInv, PTL DEF LayerSpec

-----------------------------------------------------------------------------
(* The guarantees *)

\* A layer in service.
LEMMA LayerInService ==
  ASSUME LInv, stage = "serving", NEW l \in Layers
  PROVE  /\ ConstructedAs(l, layer_of(l), given, skip.indices, "serving")
         /\ l \in 0 .. given.num_layers - 1 /\ given.num_layers \in Nat \ {0}
         /\ given \in Givens /\ patched = given.importable
         /\ Grouped(specs, given, skip.indices, slot_size_aligned)
         /\ get_boundary_skip_layers(given.num_layers) \subseteq skip.indices
<1>1. /\ layers \in Seq(LayerRecords) /\ Len(layers) = given.num_layers /\ given \in Givens
      /\ patched = given.importable /\ AllConstructed
      /\ Grouped(specs, given, skip.indices, slot_size_aligned)
      /\ get_boundary_skip_layers(given.num_layers) \subseteq skip.indices
  BY DEF LInv, LTypes, LStages
<1>2. given.num_layers \in Nat \ {0} /\ l \in 0 .. given.num_layers - 1
  BY <1>1, LayerAssumption DEF Givens, Layers
<1>3. l + 1 \in DOMAIN layers /\ (l + 1) - 1 = l
  BY <1>1, <1>2
<1>4. ConstructedAs(l, layers[l + 1], given, skip.indices, "serving")
  BY <1>1, <1>3 DEF AllConstructed
<1> QED BY <1>1, <1>2, <1>4 DEF layer_of

\* A slot of the TurboQuant cache takes exactly the bytes that store_turboquant_kv
\* concatenates for a token and head, for every even head size and every preset.
THEOREM SlotsAlwaysFit == LayerSpec => []SlotsFit
<1>1. LInv => SlotsFit
  <2> SUFFICES ASSUME LInv, stage = "serving", NEW l \in Layers,
                      served_by_turboquant(l), specs[l].kind = "TQFull"
               PROVE  specs[l].slot = stored_bytes
    BY DEF SlotsFit
  <2>1. patched
    BY LayerInService DEF served_by_turboquant, ConstructedAs
  <2>2. specs[l].slot = slot_size_aligned
    BY LayerInService DEF Grouped
  <2> QED BY <2>1, <2>2, LayerInService, SlotIsWhatIsStored DEF slot_size_aligned
<1> QED BY <1>1, LInvAlways, PTL

\* Except for sliding windows, C8 checkpoints and a missing turboquant_ops, the layers
\* that the TurboQuant class serves are those whose cache is the single TurboQuant
\* tensor, for every number of layers, set of layers to skip and grouping of the specs.
THEOREM ImplAlwaysMatchesCache == LayerSpec => []ImplMatchesCache
<1>1. LInv => ImplMatchesCache
  <2> SUFFICES ASSUME LInv, stage = "serving", given.quant_config # "C8", given.importable,
                      NEW l \in Layers \ given.sliding
               PROVE  served_by_turboquant(l) <=> specs[l].kind = "TQFull"
    BY DEF ImplMatchesCache
  <2>1. served_by_turboquant(l) <=> l \notin skip.indices
    BY LayerInService DEF served_by_turboquant, ConstructedAs
  <2>2. l \notin skip.indices <=> specs[l].kind = "TQFull"
    BY LayerInService DEF Grouped
  <2> QED BY <2>1, <2>2
<1> QED BY <1>1, LInvAlways, PTL

\* The boundary layers of get_boundary_skip_layers and those the user names stay
\* uncompressed, in models of any number of layers.
THEOREM SkippedLayersStayUncompressed == LayerSpec => []SkippedLayersUncompressed
<1>1. LInv => SkippedLayersUncompressed
  <2> SUFFICES ASSUME LInv, stage = "serving", NEW l \in Layers,
                      \/ l \in skip.indices
                      \/ given.num_layers >= 4 /\ (l < 2 \/ l >= given.num_layers - 2)
                      \/ given.num_layers < 4 /\ 2 * l + 1 # given.num_layers
               PROVE  specs[l].kind # "TQFull" /\ ~served_by_turboquant(l)
    BY DEF SkippedLayersUncompressed
  <2>1. l \in skip.indices
    <3>1. /\ l \in 0 .. given.num_layers - 1 /\ given.num_layers \in Nat \ {0}
          /\ get_boundary_skip_layers(given.num_layers) \subseteq skip.indices
      BY LayerInService
    <3> QED BY <3>1, BoundaryLayers
  <2>2. ~served_by_turboquant(l)
    BY <2>1, LayerInService DEF served_by_turboquant, ConstructedAs
  <2>3. specs[l].kind # "TQFull"
    BY <2>1, LayerInService DEF Grouped
  <2> QED BY <2>2, <2>3
<1> QED BY <1>1, LInvAlways, PTL

=============================================================================
