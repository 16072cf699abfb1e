--------------------------- MODULE SendPath_proofs ---------------------------
(***************************************************************************)
(* Proofs about SendPath for any tracks, environments, ring, staging area  *)
(* and blocks: the alignment hint is kept, a block that can be converted   *)
(* goes into the ring whole and from its start, and what the ring gets is  *)
(* the track, for every byte and every conversion of the three builds.     *)
(***************************************************************************)
EXTENDS SendPath, SequenceTheorems, TLAPS

Paths == {"dsd", "pack24", "16to32", "16to24", "copy"}

-----------------------------------------------------------------------------
(* Places in vectors and buffers. *)

\* A place is a whole number of groups and a rest, and there is one such pair.
LEMMA DivMod ==
  ASSUME NEW d \in Nat, d > 0, NEW q \in Nat, NEW r \in Nat, r < d
  PROVE  (d * q + r) \div d = q /\ (d * q + r) % d = r
  BY SMT

LEMMA DivModOf ==
  ASSUME NEW d \in Nat, d > 0, NEW b \in Nat
  PROVE  /\ b \div d \in Nat /\ b % d \in 0 .. d - 1
         /\ b = d * (b \div d) + (b % d)
  BY SMT

\* A vector, or a buffer, of n bytes.
Holds(v, n) == v = [j \in 1 .. n |-> v[j]]

\* Two vectors, one stored behind the other.
Join(a, b) == a \o b

LEMMA Joined ==
  ASSUME NEW m \in Nat, NEW n \in Nat, NEW a, NEW b, Holds(a, m), Holds(b, n)
  PROVE  /\ Holds(Join(a, b), m + n)
         /\ \A p \in 1 .. m : Join(a, b)[p] = a[p]
         /\ \A p \in m + 1 .. m + n : Join(a, b)[p] = b[p - m]
<1> DEFINE S == {a[j] : j \in 1 .. m} \cup {b[j] : j \in 1 .. n}
<1>1. a \in Seq(S) /\ Len(a) = m
  <2>1. \A j \in 1 .. m : a[j] \in S
    OBVIOUS
  <2> HIDE DEF S
  <2>2. a \in [1 .. m -> S]
    BY <2>1 DEF Holds
  <2>3. QED
    BY <2>2
<1>2. b \in Seq(S) /\ Len(b) = n
  <2>1. \A j \in 1 .. n : b[j] \in S
    OBVIOUS
  <2> HIDE DEF S
  <2>2. b \in [1 .. n -> S]
    BY <2>1 DEF Holds
  <2>3. QED
    BY <2>2
<1> HIDE DEF S
<1>3. Join(a, b) \in Seq(S) /\ Len(Join(a, b)) = m + n
  BY ONLY <1>1, <1>2, m \in Nat, n \in Nat DEF Join
<1>4. \A p \in 1 .. m : Join(a, b)[p] = a[p]
  BY ONLY <1>1, <1>2, m \in Nat, n \in Nat DEF Join
<1>5. \A p \in m + 1 .. m + n : Join(a, b)[p] = b[p - m]
  BY ONLY <1>1, <1>2, m \in Nat, n \in Nat DEF Join
<1>6. Holds(Join(a, b), m + n)
  <2>1. Join(a, b) \in [1 .. m + n -> S]
    BY ONLY <1>3, LenProperties
  <2>2. QED
    BY ONLY <2>1 DEF Holds
<1>7. QED
  BY <1>4, <1>5, <1>6

-----------------------------------------------------------------------------
(* The vector loops. *)

LEMMA PackMask ==
  ASSUME NEW first \in {0, 1}, NEW a \in 0 .. 3, NEW r \in 0 .. 2, NEW mask,
         mask = [k \in 1 .. 16 |-> IF k > 12 THEN 0 ELSE 4 * ((k - 1) \div 3) + ((k - 1) % 3) + first]
  PROVE  mask[3 * a + r + 1] = 4 * a + r + first
<1>1. (3 * a + r) \div 3 = a /\ (3 * a + r) % 3 = r
  BY DivMod
<1>2. PICK k \in 1 .. 12 : k = 3 * a + r + 1 /\ k - 1 = 3 * a + r
  OBVIOUS
<1>3. mask[k] = 4 * ((k - 1) \div 3) + ((k - 1) % 3) + first
  OBVIOUS
<1>4. QED
  BY <1>1, <1>2, <1>3

\* Byte r of sample q of the eight that _mm256_shuffle_epi8 packs.
LEMMA PackAvx2Byte ==
  ASSUME NEW src, NEW i \in Nat, NEW first \in {0, 1}, NEW q \in 0 .. 7, NEW r \in 0 .. 2
  PROVE  PackAvx2(src, i, first)[3 * q + r + 1] = src[4 * (i + q) + r + first + 1]
<1>1. PICK v : v = Load(src, 4 * i, 32)
  OBVIOUS
<1>2. Len(v) = 32 /\ \A p \in 1 .. 32 : v[p] = src[4 * i + p]
  BY <1>1 DEF Load
<1>3. PICK mask : mask = [k \in 1 .. 16 |-> IF k > 12 THEN 0 ELSE 4 * ((k - 1) \div 3) + ((k - 1) % 3) + first]
  OBVIOUS
<1>4. PICK shuffled : shuffled = Shuffle(v, mask)
  OBVIOUS
<1>5. ASSUME NEW h \in 0 .. 1, NEW a \in 0 .. 3
      PROVE  shuffled[16 * h + 3 * a + r + 1] = src[4 * (i + (4 * h + a)) + r + first + 1]
  <2>1. PICK m \in 0 .. 15 : m = 3 * a + r
    OBVIOUS
  <2>2. PICK k \in 1 .. 32 : k = 16 * h + m + 1
    OBVIOUS
  <2>3. shuffled[k] = v[16 * h + mask[m + 1] + 1]
    <3>1. (k - 1) \div 16 = h /\ (k - 1) % 16 = m
      BY <2>2
    <3>2. QED
      BY <1>2, <1>4, <3>1 DEF Shuffle
  <2>4. mask[m + 1] = 4 * a + r + first
    BY <1>3, <2>1, PackMask
  <2>5. PICK p \in 1 .. 32 : p = 16 * h + (4 * a + r + first) + 1
    OBVIOUS
  <2>6. v[p] = src[4 * i + p]
    BY <1>2
  <2>7. QED
    BY <2>1, <2>2, <2>3, <2>4, <2>5, <2>6
<1>7. PackAvx2(src, i, first) = Join(SubSeq(shuffled, 1, 12), SubSeq(shuffled, 17, 28))
  BY <1>1, <1>3, <1>4 DEF PackAvx2, Join
<1>8. /\ \A p \in 1 .. 12 : PackAvx2(src, i, first)[p] = shuffled[p]
      /\ \A p \in 13 .. 24 : PackAvx2(src, i, first)[p] = shuffled[p + 4]
  <2>1. PICK x, y : x = SubSeq(shuffled, 1, 12) /\ y = SubSeq(shuffled, 17, 28)
    OBVIOUS
  <2>2. Holds(x, 12) /\ \A p \in 1 .. 12 : x[p] = shuffled[p]
    BY <2>1 DEF Holds
  <2>3. Holds(y, 12) /\ \A p \in 1 .. 12 : y[p] = shuffled[p + 16]
    BY <2>1 DEF Holds
  <2>4. /\ \A p \in 1 .. 12 : Join(x, y)[p] = x[p]
        /\ \A p \in 13 .. 24 : Join(x, y)[p] = y[p - 12]
    BY <2>2, <2>3, Joined
  <2>5. QED
    BY <1>7, <2>1, <2>2, <2>3, <2>4
<1>9. CASE q < 4
  <2>1. shuffled[16 * 0 + 3 * q + r + 1] = src[4 * (i + (4 * 0 + q)) + r + first + 1]
    BY <1>5, <1>9
  <2>2. QED
    BY <1>8, <1>9, <2>1
<1>10. CASE q >= 4
  <2>1. q - 4 \in 0 .. 3
    BY <1>10
  <2>2. shuffled[16 * 1 + 3 * (q - 4) + r + 1] = src[4 * (i + (4 * 1 + (q - 4))) + r + first + 1]
    BY <1>5, <2>1
  <2>3. QED
    BY <1>8, <1>10, <2>2
<1>11. QED
  BY <1>9, <1>10

\* Byte r of sample q of the sixteen that vld4q and vst3q pack.
LEMMA PackNeonByte ==
  ASSUME NEW src, NEW i \in Nat, NEW first \in {0, 1}, NEW q \in 0 .. 15, NEW r \in 0 .. 2
  PROVE  PackNeon(src, i, first)[3 * q + r + 1] = src[4 * (i + q) + r + first + 1]
<1>1. PICK in : in = Load(src, 4 * i, 64)
  OBVIOUS
<1>2. Len(in) = 64 /\ \A p \in 1 .. 64 : in[p] = src[4 * i + p]
  BY <1>1 DEF Load
<1>3. Lane(in, 4, first + r)[q + 1] = src[4 * (i + q) + r + first + 1]
  <2>1. Lane(in, 4, first + r)[q + 1] = in[4 * q + (first + r) + 1]
    <3>1. Len(in) \div 4 = 16
      BY <1>2
    <3>2. q + 1 \in 1 .. 16 /\ (q + 1) - 1 = q
      OBVIOUS
    <3>3. QED
      BY <3>1, <3>2 DEF Lane
  <2>2. PICK p \in 1 .. 64 : p = 4 * q + (first + r) + 1
    OBVIOUS
  <2>3. QED
    BY <1>2, <2>1, <2>2
<1>4. PICK x, y, z : x = Lane(in, 4, first) /\ y = Lane(in, 4, first + 1) /\ z = Lane(in, 4, first + 2)
  OBVIOUS
<1>5. PackNeon(src, i, first) = Store3(x, y, z)
  BY <1>1, <1>4 DEF PackNeon
<1>6. PICK p \in 1 .. 48 : p = 3 * q + r + 1
  OBVIOUS
<1>7. (p - 1) % 3 = r /\ (p - 1) \div 3 = q
  BY <1>6
<1>8. Store3(x, y, z)[p] = (<<x, y, z>>[r + 1])[q + 1]
  BY <1>7 DEF Store3
<1>9. CASE r = 0
  BY <1>3, <1>4, <1>5, <1>6, <1>8, <1>9
<1>10. CASE r = 1
  BY <1>3, <1>4, <1>5, <1>6, <1>8, <1>10
<1>11. CASE r = 2
  BY <1>3, <1>4, <1>5, <1>6, <1>8, <1>11
<1>12. QED
  BY <1>9, <1>10, <1>11

\* A vector's length, and the place of byte k of the c-th n bytes of lane h.
LengthIs(v, n) == Len(v) = n
Place(p, n, h, c, k) ==
  k < n /\ n * (c + 1) <= 16 /\ p = 16 * h + n * c + k + 1
InLane(m) == m \in 1 .. 16

\* Elements of two bytes of a and of b in turn.
LEMMA UnpackPairs ==
  ASSUME NEW a, NEW b, NEW half \in Nat, half < 2, NEW n \in Nat, LengthIs(a, n), NEW p \in Nat, p <= n,
         NEW h \in Nat, NEW c \in Nat, NEW k \in Nat, Place(p, 4, h, c, k)
  PROVE  Unpack(a, b, 2, half)[p] = IF k < 2 THEN a[16 * h + 8 * half + 2 * c + k + 1]
                                    ELSE b[16 * h + 8 * half + 2 * c + k - 1]
<1>0. k < 4 /\ c < 4 /\ p \in 1 .. n /\ p = 16 * h + 4 * c + k + 1
  BY DEF Place
<1>1. (p - 1) \div 16 = h /\ (p - 1) % 16 = 4 * c + k
  BY <1>0
<1>2. PICK m \in 0 .. 15 : m = (p - 1) % 16
  BY <1>1
<1>3. CASE k < 2
  <2>1. m \div 2 = 2 * c /\ m % 2 = k /\ (m \div 2) \div 2 = c /\ (m \div 2) % 2 = 0
    BY <1>0, <1>1, <1>2, <1>3
  <2>2. Unpack(a, b, 2, half)[p] = a[16 * h + 8 * half + 2 * c + k + 1]
    BY <1>0, <1>1, <1>2, <2>1 DEF Unpack, LengthIs
  <2>3. QED
    BY <1>3, <2>2
<1>4. CASE k >= 2
  <2>1. m \div 2 = 2 * c + 1 /\ m % 2 = k - 2 /\ (m \div 2) \div 2 = c /\ (m \div 2) % 2 = 1
    BY <1>0, <1>1, <1>2, <1>4
  <2>2. Unpack(a, b, 2, half)[p] = b[16 * h + 8 * half + 2 * c + (k - 2) + 1]
    BY <1>0, <1>1, <1>2, <2>1 DEF Unpack, LengthIs
  <2>3. QED
    BY <1>4, <2>2
<1>5. QED
  BY <1>3, <1>4

\* Elements of four bytes of a and of b in turn.
LEMMA UnpackFours ==
  ASSUME NEW a, NEW b, NEW half \in Nat, half < 2, NEW n \in Nat, LengthIs(a, n), NEW p \in Nat, p <= n,
         NEW h \in Nat, NEW c \in Nat, NEW k \in Nat, Place(p, 8, h, c, k)
  PROVE  Unpack(a, b, 4, half)[p] = IF k < 4 THEN a[16 * h + 8 * half + 4 * c + k + 1]
                                    ELSE b[16 * h + 8 * half + 4 * c + k - 3]
<1>0. k < 8 /\ c < 2 /\ p \in 1 .. n /\ p = 16 * h + 8 * c + k + 1
  BY DEF Place
<1>1. (p - 1) \div 16 = h /\ (p - 1) % 16 = 8 * c + k
  BY <1>0
<1>2. PICK m \in 0 .. 15 : m = (p - 1) % 16
  BY <1>1
<1>3. CASE k < 4
  <2>1. m \div 4 = 2 * c /\ m % 4 = k /\ (m \div 4) \div 2 = c /\ (m \div 4) % 2 = 0
    BY <1>0, <1>1, <1>2, <1>3
  <2>2. Unpack(a, b, 4, half)[p] = a[16 * h + 8 * half + 4 * c + k + 1]
    BY <1>0, <1>1, <1>2, <2>1 DEF Unpack, LengthIs
  <2>3. QED
    BY <1>3, <2>2
<1>4. CASE k >= 4
  <2>1. m \div 4 = 2 * c + 1 /\ m % 4 = k - 4 /\ (m \div 4) \div 2 = c /\ (m \div 4) % 2 = 1
    BY <1>0, <1>1, <1>2, <1>4
  <2>2. Unpack(a, b, 4, half)[p] = b[16 * h + 8 * half + 4 * c + (k - 4) + 1]
    BY <1>0, <1>1, <1>2, <2>1 DEF Unpack, LengthIs
  <2>3. QED
    BY <1>4, <2>2
<1>5. QED
  BY <1>3, <1>4

\* Two vectors of two lanes, stored lane by lane.
LEMMA StoreByLaneIs ==
  ASSUME NEW lo, NEW hi, NEW m \in Nat, InLane(m)
  PROVE  /\ StoreByLane(lo, hi)[m] = lo[m]
         /\ StoreByLane(lo, hi)[16 + m] = hi[m]
         /\ StoreByLane(lo, hi)[32 + m] = lo[16 + m]
         /\ StoreByLane(lo, hi)[48 + m] = hi[16 + m]
<1>0. m \in 1 .. 16
  BY DEF InLane
<1>1. PICK a, b, c, d : /\ a = SubSeq(lo, 1, 16) /\ b = SubSeq(hi, 1, 16)
                        /\ c = SubSeq(lo, 17, 32) /\ d = SubSeq(hi, 17, 32)
  OBVIOUS
<1>2. /\ Holds(a, 16) /\ a[m] = lo[m]
      /\ Holds(b, 16) /\ b[m] = hi[m]
  BY <1>0, <1>1 DEF Holds
<1>3. /\ Holds(c, 16) /\ c[m] = lo[16 + m]
      /\ Holds(d, 16) /\ d[m] = hi[16 + m]
  BY <1>0, <1>1 DEF Holds
<1>4. PICK ab : ab = Join(a, b)
  OBVIOUS
<1>5. Holds(ab, 32) /\ ab[m] = a[m] /\ ab[16 + m] = b[m]
  <2>1. /\ Holds(ab, 32)
        /\ \A p \in 1 .. 16 : ab[p] = a[p]
        /\ \A p \in 17 .. 32 : ab[p] = b[p - 16]
    BY ONLY <1>2, <1>4, Joined
  <2>2. QED
    BY <1>0, <2>1
<1>6. PICK abc : abc = Join(ab, c)
  OBVIOUS
<1>7. Holds(abc, 48) /\ abc[m] = ab[m] /\ abc[16 + m] = ab[16 + m] /\ abc[32 + m] = c[m]
  <2>1. /\ Holds(abc, 48)
        /\ \A p \in 1 .. 32 : abc[p] = ab[p]
        /\ \A p \in 33 .. 48 : abc[p] = c[p - 32]
    BY ONLY <1>3, <1>5, <1>6, Joined
  <2>2. QED
    BY <1>0, <2>1
<1>8. PICK abcd : abcd = Join(abc, d)
  OBVIOUS
<1>9. /\ abcd[m] = abc[m] /\ abcd[16 + m] = abc[16 + m] /\ abcd[32 + m] = abc[32 + m]
      /\ abcd[48 + m] = d[m]
  <2>1. /\ \A p \in 1 .. 48 : abcd[p] = abc[p]
        /\ \A p \in 49 .. 64 : abcd[p] = d[p - 48]
    BY ONLY <1>3, <1>7, <1>8, Joined
  <2>2. QED
    BY <1>0, <2>1
<1>10. StoreByLane(lo, hi) = abcd
  BY <1>1, <1>4, <1>6, <1>8 DEF StoreByLane, Join
<1>11. QED
  BY <1>2, <1>3, <1>5, <1>7, <1>9, <1>10

\* Byte b of sample s of samples of w bytes.
SampleByte(j, w, s, b) == b < w /\ j = w * s + b + 1

\* Byte k of sample q of the sixteen that _mm256_unpack and two permutations widen.
LEMMA Widen32Avx2Byte ==
  ASSUME NEW src, NEW i \in Nat, NEW q \in Nat, q < 16, NEW k \in Nat, NEW y \in Nat, SampleByte(y, 4, q, k)
  PROVE  Widen32Avx2(src, i)[y] = IF k < 2 THEN 0 ELSE src[2 * (i + q) + k - 1]
<1> PICK h \in Nat, half \in Nat, c \in Nat : h < 2 /\ half < 2 /\ c < 4 /\ q = 8 * h + 4 * half + c
  <2>1. q = 8 * (q \div 8) + 4 * ((q % 8) \div 4) + (q % 4) /\ q \div 8 < 2 /\ (q % 8) \div 4 < 2 /\ q % 4 < 4
    OBVIOUS
  <2>2. q \div 8 \in Nat /\ (q % 8) \div 4 \in Nat /\ q % 4 \in Nat
    OBVIOUS
  <2>3. QED
    BY <2>1, <2>2
<1> k < 4 /\ y = 4 * q + k + 1
  BY DEF SampleByte
<1>0. PICK n \in Nat : n = 32
  OBVIOUS
<1>1. PICK in : in = Load(src, 2 * i, 32)
  OBVIOUS
<1>2. \A p \in 1 .. n : in[p] = src[2 * i + p]
  BY <1>0, <1>1 DEF Load
<1>3. PICK z : z = Zeros(32)
  OBVIOUS
<1>4. LengthIs(z, n) /\ \A p \in 1 .. n : z[p] = 0
  BY <1>0, <1>3 DEF Zeros, LengthIs
<1>5. PICK lo, hi : lo = Unpack(z, in, 2, 0) /\ hi = Unpack(z, in, 2, 1)
  OBVIOUS
<1>6. PICK m \in Nat : m \in 1 .. 16 /\ m = 4 * c + k + 1
  OBVIOUS
<1>7. PICK p \in Nat : p \in 1 .. n /\ p = 16 * h + 4 * c + k + 1
  BY <1>0
<1>8. PICK v : v = Unpack(z, in, 2, half)
  OBVIOUS
<1>9. v[p] = IF k < 2 THEN 0 ELSE src[2 * (i + q) + k - 1]
  <2>1. v[p] = IF k < 2 THEN z[16 * h + 8 * half + 2 * c + k + 1] ELSE in[16 * h + 8 * half + 2 * c + k - 1]
    <3>1. Place(p, 4, h, c, k)
      BY <1>7 DEF Place
    <3>2. QED
      BY <1>4, <1>7, <1>8, <3>1, UnpackPairs
  <2>2. CASE k < 2
    BY <1>0, <1>4, <2>1, <2>2
  <2>3. CASE k >= 2
    <3>1. PICK x \in 1 .. n : x = 16 * h + 8 * half + 2 * c + k - 1
      BY <1>0, <2>3
    <3>2. in[x] = src[2 * i + x] /\ 2 * i + x = 2 * (i + q) + k - 1
      BY <1>2, <3>1
    <3>3. QED
      BY <2>1, <2>3, <3>1, <3>2
  <2>4. QED
    BY <2>2, <2>3
<1>10. Widen32Avx2(src, i) = StoreByLane(lo, hi)
  BY <1>1, <1>3, <1>5 DEF Widen32Avx2
<1>11. InLane(m)
  BY <1>6 DEF InLane
<1>12. /\ StoreByLane(lo, hi)[m] = lo[m]
       /\ StoreByLane(lo, hi)[16 + m] = hi[m]
       /\ StoreByLane(lo, hi)[32 + m] = lo[16 + m]
       /\ StoreByLane(lo, hi)[48 + m] = hi[16 + m]
  BY <1>11, StoreByLaneIs
<1>13. StoreByLane(lo, hi)[y] = v[p]
  <2>1. CASE h = 0 /\ half = 0
    BY <1>5, <1>6, <1>7, <1>8, <1>12, <2>1
  <2>2. CASE h = 0 /\ half = 1
    BY <1>5, <1>6, <1>7, <1>8, <1>12, <2>2
  <2>3. CASE h = 1 /\ half = 0
    BY <1>5, <1>6, <1>7, <1>8, <1>12, <2>3
  <2>4. CASE h = 1 /\ half = 1
    BY <1>5, <1>6, <1>7, <1>8, <1>12, <2>4
  <2>5. QED
    BY <2>1, <2>2, <2>3, <2>4
<1>14. QED
  BY <1>9, <1>10, <1>13

\* The halves of a vector of one lane, one behind the other.
LEMMA JoinedHalves ==
  ASSUME NEW lo, NEW hi, Holds(lo, 16), Holds(hi, 16), NEW m \in Nat, InLane(m)
  PROVE  Join(lo, hi)[m] = lo[m] /\ Join(lo, hi)[16 + m] = hi[m]
<1>1. /\ \A p \in 1 .. 16 : Join(lo, hi)[p] = lo[p]
      /\ \A p \in 17 .. 32 : Join(lo, hi)[p] = hi[p - 16]
  BY Joined
<1>2. QED
  BY <1>1 DEF InLane

\* Byte k of sample q of the eight that vzip1q and vzip2q widen.
LEMMA Widen32NeonByte ==
  ASSUME NEW src, NEW i \in Nat, NEW q \in Nat, q < 8, NEW k \in Nat, NEW y \in Nat, SampleByte(y, 4, q, k)
  PROVE  Widen32Neon(src, i)[y] = IF k < 2 THEN 0 ELSE src[2 * (i + q) + k - 1]
<1> PICK half \in Nat, c \in Nat : half < 2 /\ c < 4 /\ q = 4 * half + c
  <2>1. q = 4 * (q \div 4) + (q % 4) /\ q \div 4 < 2 /\ q % 4 < 4 /\ q \div 4 \in Nat /\ q % 4 \in Nat
    OBVIOUS
  <2>2. QED
    BY <2>1
<1> k < 4 /\ y = 4 * q + k + 1
  BY DEF SampleByte
<1>0. PICK n \in Nat : n = 16
  OBVIOUS
<1>1. PICK in : in = Load(src, 2 * i, 16)
  OBVIOUS
<1>2. \A p \in 1 .. n : in[p] = src[2 * i + p]
  BY <1>0, <1>1 DEF Load
<1>3. PICK z : z = Zeros(16)
  OBVIOUS
<1>4. LengthIs(z, n) /\ \A p \in 1 .. n : z[p] = 0
  BY <1>0, <1>3 DEF Zeros, LengthIs
<1>5. PICK lo, hi : lo = Unpack(z, in, 2, 0) /\ hi = Unpack(z, in, 2, 1)
  OBVIOUS
<1>6. PICK m \in Nat : m \in 1 .. n /\ m = 4 * c + k + 1
  BY <1>0
<1>7. PICK v : v = Unpack(z, in, 2, half)
  OBVIOUS
<1>8. v[m] = IF k < 2 THEN 0 ELSE src[2 * (i + q) + k - 1]
  <2>1. v[m] = IF k < 2 THEN z[16 * 0 + 8 * half + 2 * c + k + 1] ELSE in[16 * 0 + 8 * half + 2 * c + k - 1]
    <3>1. Place(m, 4, 0, c, k)
      BY <1>6 DEF Place
    <3>2. QED
      BY <1>4, <1>6, <1>7, <3>1, UnpackPairs
  <2>2. CASE k < 2
    BY <1>0, <1>4, <2>1, <2>2
  <2>3. CASE k >= 2
    <3>1. PICK x \in 1 .. n : x = 8 * half + 2 * c + k - 1
      BY <1>0, <2>3
    <3>2. in[x] = src[2 * i + x] /\ 2 * i + x = 2 * (i + q) + k - 1
      BY <1>2, <3>1
    <3>3. QED
      BY <2>1, <2>3, <3>1, <3>2
  <2>4. QED
    BY <2>2, <2>3
<1>9. Widen32Neon(src, i) = Join(lo, hi)
  BY <1>1, <1>3, <1>5 DEF Widen32Neon, Join
<1>10. Join(lo, hi)[16 * half + m] = v[m]
  <2>0. Holds(lo, 16) /\ Holds(hi, 16)
    BY <1>0, <1>4, <1>5 DEF Holds, Unpack, LengthIs
  <2>1. Join(lo, hi)[m] = lo[m] /\ Join(lo, hi)[16 + m] = hi[m]
    <3>1. InLane(m)
      BY <1>0, <1>6 DEF InLane
    <3>2. QED
      BY <2>0, <3>1, JoinedHalves
  <2>2. CASE half = 0
    BY <1>5, <1>7, <2>1, <2>2
  <2>3. CASE half = 1
    BY <1>5, <1>7, <2>1, <2>3
  <2>4. QED
    BY <2>2, <2>3
<1>11. y = 16 * half + m
  BY <1>6
<1>12. QED
  BY <1>8, <1>9, <1>10, <1>11

\* Byte r of sample q of the sixteen that vld2q and vst3q put over a zero byte.
LEMMA Widen24NeonByte ==
  ASSUME NEW src, NEW i \in Nat, NEW q \in Nat, q < 16, NEW r \in Nat, NEW p \in Nat, SampleByte(p, 3, q, r)
  PROVE  Widen24Neon(src, i)[p] = IF r = 0 THEN 0 ELSE src[2 * (i + q) + r]
<1> r < 3 /\ p = 3 * q + r + 1
  BY DEF SampleByte
<1>1. PICK in : in = Load(src, 2 * i, 32)
  OBVIOUS
<1>2. Len(in) = 32 /\ \A m \in 1 .. 32 : in[m] = src[2 * i + m]
  BY <1>1 DEF Load
<1>3. PICK x, y, z : x = Zeros(16) /\ y = Lane(in, 2, 0) /\ z = Lane(in, 2, 1)
  OBVIOUS
<1>4. x[q + 1] = 0
  BY <1>3 DEF Zeros
<1>5. y[q + 1] = src[2 * (i + q) + 1] /\ z[q + 1] = src[2 * (i + q) + 2]
  <2>1. Len(in) \div 2 = 16
    BY <1>2
  <2>2. q + 1 \in 1 .. 16 /\ (q + 1) - 1 = q
    OBVIOUS
  <2>3. y[q + 1] = in[2 * q + 0 + 1] /\ z[q + 1] = in[2 * q + 1 + 1]
    BY <1>3, <2>1, <2>2 DEF Lane
  <2>4. PICK p1 \in 1 .. 32, p2 \in 1 .. 32 : p1 = 2 * q + 0 + 1 /\ p2 = 2 * q + 1 + 1
    OBVIOUS
  <2>5. in[p1] = src[2 * i + p1] /\ in[p2] = src[2 * i + p2]
    BY <1>2
  <2>6. QED
    BY <2>3, <2>4, <2>5
<1>6. Widen24Neon(src, i) = Store3(x, y, z)
  BY <1>1, <1>3 DEF Widen24Neon
<1>7. p \in 1 .. 48
  OBVIOUS
<1>8. (p - 1) % 3 = r /\ (p - 1) \div 3 = q
  OBVIOUS
<1>9. Store3(x, y, z)[p] = (<<x, y, z>>[r + 1])[q + 1]
  BY <1>7, <1>8 DEF Store3
<1>10. CASE r = 0
  BY <1>4, <1>6, <1>7, <1>9, <1>10
<1>11. CASE r = 1
  BY <1>5, <1>6, <1>7, <1>9, <1>11
<1>12. CASE r = 2
  BY <1>5, <1>6, <1>7, <1>9, <1>12
<1>13. QED
  BY <1>10, <1>11, <1>12

-----------------------------------------------------------------------------
(* Bit reversal. *)

\* A byte's nibbles exchanged, each with its bits in the other order.
NibblesReversed(x) == 16 * nibble_reverse[(x % 16) + 1] + nibble_reverse[(x \div 16) + 1]

LEMMA NibbleValues ==
  \A a \in 0 .. 15 : nibble_reverse[a + 1] \in 0 .. 15
  BY DEF nibble_reverse

LEMMA RowValues ==
  ASSUME NEW h \in 0 .. 15, NEW a \in 0 .. 15
  PROVE  BitReverseRows[h + 1][a + 1] = 16 * nibble_reverse[a + 1] + nibble_reverse[h + 1]
<1>1. CASE h = 0
  BY <1>1 DEF BitReverseRows, nibble_reverse
<1>2. CASE h = 1
  BY <1>2 DEF BitReverseRows, nibble_reverse
<1>3. CASE h = 2
  BY <1>3 DEF BitReverseRows, nibble_reverse
<1>4. CASE h = 3
  BY <1>4 DEF BitReverseRows, nibble_reverse
<1>5. CASE h = 4
  BY <1>5 DEF BitReverseRows, nibble_reverse
<1>6. CASE h = 5
  BY <1>6 DEF BitReverseRows, nibble_reverse
<1>7. CASE h = 6
  BY <1>7 DEF BitReverseRows, nibble_reverse
<1>8. CASE h = 7
  BY <1>8 DEF BitReverseRows, nibble_reverse
<1>9. CASE h = 8
  BY <1>9 DEF BitReverseRows, nibble_reverse
<1>10. CASE h = 9
  BY <1>10 DEF BitReverseRows, nibble_reverse
<1>11. CASE h = 10
  BY <1>11 DEF BitReverseRows, nibble_reverse
<1>12. CASE h = 11
  BY <1>12 DEF BitReverseRows, nibble_reverse
<1>13. CASE h = 12
  BY <1>13 DEF BitReverseRows, nibble_reverse
<1>14. CASE h = 13
  BY <1>14 DEF BitReverseRows, nibble_reverse
<1>15. CASE h = 14
  BY <1>15 DEF BitReverseRows, nibble_reverse
<1>16. CASE h = 15
  BY <1>16 DEF BitReverseRows, nibble_reverse
<1>17. QED
  BY <1>1, <1>2, <1>3, <1>4, <1>5, <1>6, <1>7, <1>8, <1>9, <1>10, <1>11, <1>12, <1>13, <1>14, <1>15, <1>16

\* What the table of the scalar loops holds.
LEMMA TableValues ==
  ASSUME NEW x \in 0 .. 255
  PROVE  kBitReverseLUT[x] = NibblesReversed(x) /\ kBitReverseLUT[x] \in 0 .. 255
<1>1. x \div 16 \in 0 .. 15 /\ x % 16 \in 0 .. 15
  OBVIOUS
<1>2. PICK h \in 0 .. 15, a \in 0 .. 15 : h = x \div 16 /\ a = x % 16
  BY <1>1
<1>3. kBitReverseLUT[x] = BitReverseRows[h + 1][a + 1]
  BY <1>2 DEF kBitReverseLUT
<1>4. nibble_reverse[a + 1] \in 0 .. 15 /\ nibble_reverse[h + 1] \in 0 .. 15
  BY NibbleValues
<1>5. QED
  BY <1>2, <1>3, <1>4, RowValues DEF NibblesReversed

\* A shift of 16-bit words by four: the nibble stays in its byte.
LEMMA NibbleLeft ==
  ASSUME NEW a \in 0 .. 15, NEW b \in 0 .. 15
  PROVE  /\ ((a + 256 * b) * 16) % 256 = 16 * a
         /\ (((a + 256 * b) * 16) \div 256) % 256 = 16 * b
  OBVIOUS

LEMMA NibbleRight ==
  ASSUME NEW a \in 0 .. 255, NEW b \in 0 .. 255
  PROVE  /\ (((a + 256 * b) \div 16) % 256) % 16 = a \div 16
         /\ ((((a + 256 * b) \div 16) \div 256) % 256) % 16 = b \div 16
  OBVIOUS

IsBytes(v, n) == \A p \in 1 .. n : v[p] \in 0 .. 255

\* The instruction sequence of the AVX2 build, and that of NEON.
LEMMA SimdReverses ==
  ASSUME NEW v, NEW n \in Nat, n % 2 = 0, LengthIs(v, n), IsBytes(v, n)
  PROVE  /\ LengthIs(simd_bit_reverse(v), n)
         /\ \A p \in 1 .. n : simd_bit_reverse(v)[p] = kBitReverseLUT[v[p]]
<1>1. PICK low : low = Lookup(LowNibbles(v))
  OBVIOUS
<1>2. Len(low) = n /\ \A p \in 1 .. n : low[p] = nibble_reverse[(v[p] % 16) + 1]
  BY <1>1 DEF Lookup, LowNibbles, LengthIs
<1>3. \A p \in 1 .. n : low[p] \in 0 .. 15
  <2> TAKE p \in 1 .. n
  <2>1. PICK x \in 0 .. 255 : x = v[p]
    BY DEF IsBytes
  <2>2. x % 16 \in 0 .. 15
    OBVIOUS
  <2>3. QED
    BY <1>2, <2>1, <2>2, NibbleValues
<1>4. PICK left : left = ShiftLeft16(low)
  OBVIOUS
<1>5. Len(left) = n /\ \A p \in 1 .. n : left[p] = ByteOfWord(Word(low, p) * 16, p)
  BY <1>2, <1>4 DEF ShiftLeft16
<1>6. ASSUME NEW p \in 1 .. n
      PROVE  left[p] = 16 * low[p]
  <2>1. CASE p % 2 = 1
    <3>1. p + 1 \in 1 .. n
      BY <2>1
    <3>2. low[p] \in 0 .. 15 /\ low[p + 1] \in 0 .. 15
      BY <1>3, <3>1
    <3>3. left[p] = ((low[p] + 256 * low[p + 1]) * 16) % 256
      BY <1>5, <2>1 DEF ByteOfWord, Word
    <3>4. QED
      BY <3>2, <3>3, NibbleLeft
  <2>2. CASE p % 2 # 1
    <3>1. p - 1 \in 1 .. n
      BY <2>2
    <3>2. low[p - 1] \in 0 .. 15 /\ low[p] \in 0 .. 15
      BY <1>3, <3>1
    <3>3. left[p] = (((low[p - 1] + 256 * low[p]) * 16) \div 256) % 256
      BY <1>5, <2>2 DEF ByteOfWord, Word
    <3>4. QED
      BY <3>2, <3>3, NibbleLeft
  <2>3. QED
    BY <2>1, <2>2
<1>7. PICK right : right = ShiftRight16(v)
  OBVIOUS
<1>8. Len(right) = n /\ \A p \in 1 .. n : right[p] = ByteOfWord(Word(v, p) \div 16, p)
  BY <1>7 DEF ShiftRight16, LengthIs
<1>9. ASSUME NEW p \in 1 .. n
      PROVE  right[p] % 16 = v[p] \div 16
  <2>1. CASE p % 2 = 1
    <3>1. p + 1 \in 1 .. n
      BY <2>1
    <3>2. PICK x \in 0 .. 255, y \in 0 .. 255 : x = v[p] /\ y = v[p + 1]
      BY <3>1 DEF IsBytes
    <3>3. right[p] = ((x + 256 * y) \div 16) % 256
      BY <1>8, <2>1, <3>2 DEF ByteOfWord, Word
    <3>4. (((x + 256 * y) \div 16) % 256) % 16 = x \div 16
      BY NibbleRight
    <3>5. QED
      BY <3>2, <3>3, <3>4
  <2>2. CASE p % 2 # 1
    <3>1. p - 1 \in 1 .. n
      BY <2>2
    <3>2. PICK x \in 0 .. 255, y \in 0 .. 255 : x = v[p - 1] /\ y = v[p]
      BY <3>1 DEF IsBytes
    <3>3. right[p] = (((x + 256 * y) \div 16) \div 256) % 256
      BY <1>8, <2>2, <3>2 DEF ByteOfWord, Word
    <3>4. ((((x + 256 * y) \div 16) \div 256) % 256) % 16 = y \div 16
      BY NibbleRight
    <3>5. QED
      BY <3>2, <3>3, <3>4
  <2>3. QED
    BY <2>1, <2>2
<1>10. PICK high : high = Lookup(LowNibbles(right))
  OBVIOUS
<1>11. \A p \in 1 .. n : high[p] = nibble_reverse[(right[p] % 16) + 1]
  BY <1>8, <1>10 DEF Lookup, LowNibbles
<1>12. simd_bit_reverse(v) = Or(left, high)
  BY <1>1, <1>4, <1>7, <1>10 DEF simd_bit_reverse
<1>13. Len(Or(left, high)) = n /\ \A p \in 1 .. n : Or(left, high)[p] = left[p] + high[p]
  BY <1>5 DEF Or
<1>14. ASSUME NEW p \in 1 .. n
       PROVE  simd_bit_reverse(v)[p] = kBitReverseLUT[v[p]]
  <2>1. simd_bit_reverse(v)[p] = 16 * nibble_reverse[(v[p] % 16) + 1] + nibble_reverse[(v[p] \div 16) + 1]
    BY <1>2, <1>6, <1>9, <1>11, <1>12, <1>13
  <2>2. v[p] \in 0 .. 255
    BY DEF IsBytes
  <2>3. QED
    BY <2>1, <2>2, TableValues DEF NibblesReversed
<1>15. QED
  BY <1>12, <1>13, <1>14 DEF LengthIs

LEMMA NeonReverses ==
  ASSUME NEW v, NEW n \in Nat, LengthIs(v, n), IsBytes(v, n)
  PROVE  /\ LengthIs(neon_bit_reverse(v), n)
         /\ \A p \in 1 .. n : neon_bit_reverse(v)[p] = kBitReverseLUT[v[p]]
<1>1. PICK high : high = [j \in 1 .. Len(v) |-> v[j] \div 16]
  OBVIOUS
<1>2. PICK low : low = Lookup(LowNibbles(v))
  OBVIOUS
<1>3. PICK up, down : up = [j \in 1 .. Len(v) |-> (low[j] * 16) % 256] /\ down = Lookup(LowNibbles(high))
  OBVIOUS
<1>4. neon_bit_reverse(v) = Or(up, down)
  BY <1>1, <1>2, <1>3 DEF neon_bit_reverse
<1>5. \A p \in 1 .. n : low[p] = nibble_reverse[(v[p] % 16) + 1]
  BY <1>2 DEF Lookup, LowNibbles, LengthIs
<1>6. Len(up) = n /\ \A p \in 1 .. n : up[p] = (low[p] * 16) % 256
  BY <1>3 DEF LengthIs
<1>7. \A p \in 1 .. n : down[p] = nibble_reverse[((v[p] \div 16) % 16) + 1]
  BY <1>1, <1>3 DEF Lookup, LowNibbles, LengthIs
<1>8. Len(Or(up, down)) = n /\ \A p \in 1 .. n : Or(up, down)[p] = up[p] + down[p]
  BY <1>6 DEF Or
<1>9. ASSUME NEW p \in 1 .. n
      PROVE  neon_bit_reverse(v)[p] = kBitReverseLUT[v[p]]
  <2>1. v[p] \in 0 .. 255
    BY DEF IsBytes
  <2>2. v[p] % 16 \in 0 .. 15 /\ (v[p] \div 16) % 16 = v[p] \div 16
    BY <2>1
  <2>3. low[p] \in 0 .. 15
    BY <1>5, <2>2, NibbleValues
  <2>4. (low[p] * 16) % 256 = 16 * low[p]
    BY <2>3
  <2>5. neon_bit_reverse(v)[p] = 16 * nibble_reverse[(v[p] % 16) + 1] + nibble_reverse[(v[p] \div 16) + 1]
    BY <1>4, <1>5, <1>6, <1>7, <1>8, <2>2, <2>4
  <2>6. QED
    BY <2>1, <2>5, TableValues DEF NibblesReversed
<1>10. QED
  BY <1>4, <1>8, <1>9 DEF LengthIs

-----------------------------------------------------------------------------
(* The DSD vectors. *)

VectorSizes == {16, 32}

\* The group of bytes that is number c of a half of lane h.
GroupOf(q, h, half, c) == q = 4 * h + 2 * half + c

DsdBits(build, reverse, v) ==
  IF ~reverse THEN v ELSE IF build = "avx2" THEN simd_bit_reverse(v) ELSE neon_bit_reverse(v)

DsdMask == [k \in 1 .. 16 |-> 4 * ((k - 1) \div 4) + 3 - ((k - 1) % 4)]
DsdSwapped(swap, v) == IF swap THEN Shuffle(v, DsdMask) ELSE v

\* A byte in the order of its bits that the layout asks for, and the byte of the
\* group that byte k comes from.
DsdValue(reverse, x) == IF reverse THEN kBitReverseLUT[x] ELSE x
SwapPlace(swap, k) == IF ~swap THEN k ELSE IF k < 4 THEN 3 - k ELSE 11 - k
SwapsTo(swap, k, x) == x = SwapPlace(swap, k)

LEMMA DsdBitsAre ==
  ASSUME NEW build, NEW reverse \in BOOLEAN, NEW v, NEW n \in Nat, n \in VectorSizes,
         LengthIs(v, n), IsBytes(v, n)
  PROVE  /\ LengthIs(DsdBits(build, reverse, v), n)
         /\ \A p \in 1 .. n : DsdBits(build, reverse, v)[p] = DsdValue(reverse, v[p])
<1>1. n \in Nat /\ n % 2 = 0
  BY DEF VectorSizes
<1>2. CASE ~reverse
  BY <1>2 DEF DsdBits, DsdValue
<1>3. CASE reverse /\ build = "avx2"
  BY <1>1, <1>3, SimdReverses DEF DsdBits, DsdValue
<1>4. CASE reverse /\ build # "avx2"
  BY <1>1, <1>4, NeonReverses DEF DsdBits, DsdValue
<1>5. QED
  BY <1>2, <1>3, <1>4

LEMMA SwapMask ==
  ASSUME NEW c \in Nat, c < 2, NEW k \in Nat, k < 8, NEW j \in 1 .. 16, Place(j, 8, 0, c, k)
  PROVE  DsdMask[j] = 8 * c + SwapPlace(TRUE, k)
<1>1. j = 8 * c + k + 1
  BY DEF Place
<1>2. DsdMask[j] = 4 * ((j - 1) \div 4) + 3 - ((j - 1) % 4)
  BY DEF DsdMask
<1>3. CASE k < 4
  <2>1. (j - 1) \div 4 = 2 * c /\ (j - 1) % 4 = k
    BY <1>1, <1>3
  <2>2. QED
    BY <1>1, <1>2, <1>3, <2>1 DEF SwapPlace
<1>4. CASE k >= 4
  <2>1. (j - 1) \div 4 = 2 * c + 1 /\ (j - 1) % 4 = k - 4
    BY <1>1, <1>4
  <2>2. PICK y \in 0 .. 7 : y = 11 - k
    BY <1>4
  <2>3. SwapPlace(TRUE, k) = y
    BY <1>4, <2>2 DEF SwapPlace
  <2>4. DsdMask[j] = 8 * c + y
    BY <1>2, <2>1, <2>2
  <2>5. QED
    BY <2>3, <2>4
<1>5. k < 4 \/ k >= 4
  OBVIOUS
<1>6. QED
  BY <1>3, <1>4, <1>5

LEMMA SwapPlaces ==
  ASSUME NEW swap \in BOOLEAN, NEW k \in Nat, k < 8
  PROVE  \E x \in Nat : x < 8 /\ (x < 4 <=> k < 4) /\ SwapsTo(swap, k, x)
<1>1. CASE ~swap
  BY <1>1 DEF SwapsTo, SwapPlace
<1>2. CASE swap
  <2>1. CASE k < 4
    <3>1. SwapsTo(swap, k, 3 - k)
      BY <1>2, <2>1 DEF SwapsTo, SwapPlace
    <3>2. QED
      BY <2>1, <3>1
  <2>2. CASE k >= 4
    <3>1. SwapsTo(swap, k, 11 - k)
      BY <1>2, <2>2 DEF SwapsTo, SwapPlace
    <3>2. QED
      BY <2>2, <3>1
  <2>3. QED
    BY <2>1, <2>2
<1>3. QED
  BY <1>1, <1>2

LEMMA DsdSwappedIs ==
  ASSUME NEW swap \in BOOLEAN, NEW v, NEW n \in Nat, LengthIs(v, n), NEW p \in 1 .. n, NEW x \in 1 .. n,
         NEW h \in Nat, NEW c \in Nat, c < 2, NEW k \in Nat, k < 8, NEW k1 \in Nat,
         SwapsTo(swap, k, k1), Place(p, 8, h, c, k), Place(x, 8, h, c, k1)
  PROVE  DsdSwapped(swap, v)[p] = v[x]
<1>1. CASE ~swap
  BY <1>1 DEF DsdSwapped, SwapPlace, Place, SwapsTo
<1>2. CASE swap
  <2>1. PICK j \in 1 .. 16 : j = 8 * c + k + 1
    OBVIOUS
  <2>2. DsdMask[j] = 8 * c + k1
    <3>1. Place(j, 8, 0, c, k)
      BY <2>1 DEF Place
    <3>2. DsdMask[j] = 8 * c + SwapPlace(TRUE, k)
      BY <3>1, SwapMask
    <3>3. k1 = SwapPlace(TRUE, k)
      BY <1>2 DEF SwapsTo, SwapPlace
    <3>4. QED
      BY <3>2, <3>3
  <2>3. (p - 1) \div 16 = h /\ (p - 1) % 16 = 8 * c + k
    BY DEF Place
  <2>4. Shuffle(v, DsdMask)[p] = v[16 * h + DsdMask[j] + 1]
    BY <2>1, <2>3 DEF Shuffle, LengthIs
  <2>5. DsdSwapped(swap, v) = Shuffle(v, DsdMask)
    BY <1>2 DEF DsdSwapped
  <2>6. x = 16 * h + (8 * c + k1) + 1
    BY DEF Place
  <2>7. QED
    BY <2>2, <2>4, <2>5, <2>6
<1>3. QED
  BY <1>1, <1>2

\* Byte k of group q, which is number c of a half of lane h: it is byte p of the half,
\* and it comes from byte x of its group.
Cell(n, swap, h, half, c, k, x, p, q) ==
  /\ n \in VectorSizes /\ swap \in BOOLEAN
  /\ h \in Nat /\ h < 2 /\ half \in Nat /\ half < 2 /\ c \in Nat /\ c < 2
  /\ k \in Nat /\ k < 8 /\ x \in Nat /\ x < 8 /\ (x < 4 <=> k < 4) /\ SwapsTo(swap, k, x)
  /\ p \in 1 .. n /\ Place(p, 8, h, c, k)
  /\ q \in Nat /\ GroupOf(q, h, half, c)

LEMMA DsdHalfByte ==
  ASSUME NEW left, NEW right, NEW n \in Nat, NEW swap, NEW h \in Nat, NEW half \in Nat, NEW c \in Nat,
         NEW k \in Nat, NEW k1 \in Nat, NEW p \in Nat, NEW q \in Nat,
         LengthIs(left, n), Cell(n, swap, h, half, c, k, k1, p, q)
  PROVE  DsdSwapped(swap, Unpack(left, right, 4, half))[p]
           = IF k < 4 THEN left[4 * q + k1 + 1] ELSE right[4 * q + k1 - 3]
<1>0. /\ n \in VectorSizes /\ swap \in BOOLEAN /\ h < 2 /\ half < 2 /\ c < 2
      /\ k < 8 /\ k1 < 8 /\ (k1 < 4 <=> k < 4) /\ SwapsTo(swap, k, k1)
      /\ p \in 1 .. n /\ Place(p, 8, h, c, k) /\ GroupOf(q, h, half, c)
  BY DEF Cell
<1>1. PICK u : u = Unpack(left, right, 4, half)
  OBVIOUS
<1>2. LengthIs(u, n)
  BY <1>0, <1>1 DEF Unpack, LengthIs, VectorSizes
<1>4. PICK x \in 1 .. n : x = 16 * h + 8 * c + k1 + 1
  <2>1. 16 * h + 8 * c + k1 + 1 \in 1 .. n
    BY <1>0 DEF Place, VectorSizes
  <2>2. QED
    BY <2>1
<1>5. Place(x, 8, h, c, k1)
  BY <1>0, <1>4 DEF Place
<1>6. DsdSwapped(swap, u)[p] = u[x]
  BY <1>0, <1>2, <1>5, DsdSwappedIs
<1>7. u[x] = IF k1 < 4 THEN left[16 * h + 8 * half + 4 * c + k1 + 1] ELSE right[16 * h + 8 * half + 4 * c + k1 - 3]
  BY <1>0, <1>1, <1>5, UnpackFours
<1>8. 16 * h + 8 * half + 4 * c = 4 * q
  BY <1>0 DEF GroupOf
<1>9. QED
  BY <1>0, <1>1, <1>6, <1>7, <1>8

\* The vector of a group of the planar channels, and byte k of group g in any build.
DsdVector(build, src, perChannel, n, reverse, swap, g) ==
  LET left  == DsdBits(build, reverse, Load(src, 4 * g, n))
      right == DsdBits(build, reverse, Load(src, perChannel + 4 * g, n))
      lo    == DsdSwapped(swap, Unpack(left, right, 4, 0))
      hi    == DsdSwapped(swap, Unpack(left, right, 4, 1))
  IN IF build = "avx2" THEN StoreByLane(lo, hi) ELSE Join(lo, hi)

DsdByte(src, perChannel, reverse, swap, g, k) ==
  DsdValue(reverse, IF k < 4 THEN src[4 * g + SwapPlace(swap, k) + 1]
                    ELSE src[perChannel + 4 * g + SwapPlace(swap, k) - 3])

LEMMA LoadBytes ==
  ASSUME NEW src, NEW at \in Nat, NEW n \in Nat, n \in VectorSizes, NEW length \in Nat, IsBytes(src, length), at + n <= length
  PROVE  /\ LengthIs(Load(src, at, n), n)
         /\ IsBytes(Load(src, at, n), n)
         /\ \A p \in 1 .. n : Load(src, at, n)[p] = src[at + p]
<1>1. LengthIs(Load(src, at, n), n) /\ \A p \in 1 .. n : Load(src, at, n)[p] = src[at + p]
  BY DEF Load, LengthIs, VectorSizes
<1>2. ASSUME NEW p \in 1 .. n
      PROVE  Load(src, at, n)[p] \in 0 .. 255
  <2>1. at + p \in 1 .. length
    BY DEF VectorSizes
  <2>2. QED
    BY <1>1, <2>1 DEF IsBytes
<1>3. QED
  BY <1>1, <1>2 DEF IsBytes

\* Where a vector of the group g is taken from.
DsdSource(src, perChannel, n, g) ==
  perChannel \in Nat /\ g \in Nat /\ 4 * g + n <= perChannel /\ IsBytes(src, 2 * perChannel)

\* The channels' vectors there, their bits in order.
DsdInput(build, src, perChannel, n, reverse, g, left, right) ==
  /\ DsdSource(src, perChannel, n, g) /\ reverse \in BOOLEAN
  /\ left = DsdBits(build, reverse, Load(src, 4 * g, n))
  /\ right = DsdBits(build, reverse, Load(src, perChannel + 4 * g, n))

\* A half of the vector, byte by byte.
LEMMA DsdHalf ==
  ASSUME NEW build, NEW src, NEW perChannel \in Nat, NEW n \in Nat, NEW reverse, NEW swap, NEW g \in Nat,
         NEW left, NEW right, DsdInput(build, src, perChannel, n, reverse, g, left, right),
         NEW h \in Nat, NEW half \in Nat, NEW c \in Nat, NEW k \in Nat, NEW k1 \in Nat,
         NEW p \in Nat, NEW q \in Nat, Cell(n, swap, h, half, c, k, k1, p, q)
  PROVE  /\ LengthIs(left, n)
         /\ DsdSwapped(swap, Unpack(left, right, 4, half))[p] = DsdByte(src, perChannel, reverse, swap, g + q, k)
<1>0. /\ n \in VectorSizes /\ swap \in BOOLEAN /\ h < 2 /\ half < 2 /\ c < 2
      /\ k < 8 /\ k1 < 8 /\ (k1 < 4 <=> k < 4) /\ SwapsTo(swap, k, k1)
      /\ p \in 1 .. n /\ Place(p, 8, h, c, k) /\ GroupOf(q, h, half, c)
      /\ DsdSource(src, perChannel, n, g) /\ reverse \in BOOLEAN
      /\ left = DsdBits(build, reverse, Load(src, 4 * g, n))
      /\ right = DsdBits(build, reverse, Load(src, perChannel + 4 * g, n))
  BY DEF Cell, DsdInput
<1>1. PICK l, r : l = Load(src, 4 * g, n) /\ r = Load(src, perChannel + 4 * g, n)
  OBVIOUS
<1>2. /\ LengthIs(l, n) /\ IsBytes(l, n) /\ \A x \in 1 .. n : l[x] = src[4 * g + x]
      /\ LengthIs(r, n) /\ IsBytes(r, n) /\ \A x \in 1 .. n : r[x] = src[perChannel + 4 * g + x]
  <2>1. PICK length \in Nat : length = 2 * perChannel
    OBVIOUS
  <2>2. PICK a \in Nat, b \in Nat : a = 4 * g /\ b = perChannel + 4 * g /\ a + n <= length /\ b + n <= length
    BY <1>0, <2>1 DEF DsdSource
  <2>3. LengthIs(l, n) /\ IsBytes(l, n) /\ \A x \in 1 .. n : l[x] = src[a + x]
    BY <1>0, <1>1, <2>1, <2>2, LoadBytes DEF DsdSource
  <2>4. LengthIs(r, n) /\ IsBytes(r, n) /\ \A x \in 1 .. n : r[x] = src[b + x]
    BY <1>0, <1>1, <2>1, <2>2, LoadBytes DEF DsdSource
  <2>5. QED
    BY <2>2, <2>3, <2>4
<1>3. /\ LengthIs(left, n) /\ \A x \in 1 .. n : left[x] = DsdValue(reverse, l[x])
      /\ LengthIs(right, n) /\ \A x \in 1 .. n : right[x] = DsdValue(reverse, r[x])
  <2>1. /\ LengthIs(DsdBits(build, reverse, l), n)
        /\ \A x \in 1 .. n : DsdBits(build, reverse, l)[x] = DsdValue(reverse, l[x])
    BY <1>0, <1>2, DsdBitsAre
  <2>2. /\ LengthIs(DsdBits(build, reverse, r), n)
        /\ \A x \in 1 .. n : DsdBits(build, reverse, r)[x] = DsdValue(reverse, r[x])
    BY <1>0, <1>2, DsdBitsAre
  <2>3. QED
    BY <1>0, <1>1, <2>1, <2>2
<1>5. DsdSwapped(swap, Unpack(left, right, 4, half))[p]
           = IF k < 4 THEN left[4 * q + k1 + 1] ELSE right[4 * q + k1 - 3]
  BY <1>3, DsdHalfByte
<1>6. 4 * q + 4 <= n
  BY <1>0 DEF Place, VectorSizes, GroupOf
<1>7. CASE k < 4
  <2>1. PICK x \in 1 .. n : x = 4 * q + k1 + 1
    BY <1>0, <1>6, <1>7 DEF VectorSizes
  <2>2. left[x] = DsdValue(reverse, src[4 * g + x])
    BY <1>2, <1>3
  <2>3. 4 * g + x = 4 * (g + q) + k1 + 1
    BY <2>1
  <2>4. QED
    BY <1>0, <1>3, <1>5, <1>7, <2>1, <2>2, <2>3 DEF DsdByte, SwapsTo
<1>8. CASE k >= 4
  <2>1. PICK x \in 1 .. n : x = 4 * q + k1 - 3
    BY <1>0, <1>6, <1>8 DEF VectorSizes
  <2>2. right[x] = DsdValue(reverse, src[perChannel + 4 * g + x])
    BY <1>2, <1>3
  <2>3. perChannel + 4 * g + x = perChannel + 4 * (g + q) + k1 - 3
    BY <2>1
  <2>4. QED
    BY <1>0, <1>3, <1>5, <1>8, <2>1, <2>2, <2>3 DEF DsdByte, SwapsTo
<1>9. QED
  BY <1>7, <1>8

LEMMA CellOf ==
  ASSUME NEW n \in Nat, n \in VectorSizes, NEW swap \in BOOLEAN, NEW h \in Nat, 16 * h + 16 <= n,
         NEW half \in Nat, half < 2, NEW c \in Nat, c < 2, NEW k \in Nat, k < 8
  PROVE  \E x \in Nat : Cell(n, swap, h, half, c, k, x, 16 * h + 8 * c + k + 1, 4 * h + 2 * half + c)
<1>1. PICK x \in Nat : x < 8 /\ (x < 4 <=> k < 4) /\ SwapsTo(swap, k, x)
  BY SwapPlaces
<1>2. PICK p \in Nat : p = 16 * h + 8 * c + k + 1
  OBVIOUS
<1>3. PICK q \in Nat : q = 4 * h + 2 * half + c
  OBVIOUS
<1>4. h < 2
  BY DEF VectorSizes
<1>5. p \in 1 .. n /\ Place(p, 8, h, c, k) /\ GroupOf(q, h, half, c)
  BY <1>2, <1>3 DEF Place, GroupOf
<1>6. Cell(n, swap, h, half, c, k, x, p, q)
  BY <1>1, <1>4, <1>5 DEF Cell
<1>7. QED
  BY <1>2, <1>3, <1>6

\* Byte k of group q of the eight that the AVX2 loop stores.
LEMMA DsdAvx2Byte ==
  ASSUME NEW src, NEW perChannel \in Nat, NEW g \in Nat, DsdSource(src, perChannel, 32, g),
         NEW reverse \in BOOLEAN, NEW swap \in BOOLEAN,
         NEW h \in Nat, h < 2, NEW half \in Nat, half < 2, NEW c \in Nat, c < 2, NEW k \in Nat, k < 8,
         NEW q \in Nat, GroupOf(q, h, half, c)
  PROVE  DsdVector("avx2", src, perChannel, 32, reverse, swap, g)[8 * q + k + 1]
           = DsdByte(src, perChannel, reverse, swap, g + q, k)
<1> q = 4 * h + 2 * half + c
  BY DEF GroupOf
<1>1. PICK n \in Nat : n = 32 /\ n \in VectorSizes
  BY DEF VectorSizes
<1>2. PICK left, right : /\ left = DsdBits("avx2", reverse, Load(src, 4 * g, n))
                         /\ right = DsdBits("avx2", reverse, Load(src, perChannel + 4 * g, n))
  OBVIOUS
<1>3. PICK p \in Nat : p = 16 * h + 8 * c + k + 1
  OBVIOUS
<1>4. PICK x \in Nat : Cell(n, swap, h, half, c, k, x, p, q)
  BY <1>1, <1>3, CellOf
<1>5. PICK v : v = DsdSwapped(swap, Unpack(left, right, 4, half))
  OBVIOUS
<1>6. v[p] = DsdByte(src, perChannel, reverse, swap, g + q, k)
  <2>1. DsdInput("avx2", src, perChannel, n, reverse, g, left, right)
    BY <1>1, <1>2 DEF DsdInput
  <2>2. QED
    BY <1>4, <1>5, <2>1, DsdHalf
<1>7. PICK lo, hi : /\ lo = DsdSwapped(swap, Unpack(left, right, 4, 0))
                    /\ hi = DsdSwapped(swap, Unpack(left, right, 4, 1))
  OBVIOUS
<1>8. DsdVector("avx2", src, perChannel, 32, reverse, swap, g) = StoreByLane(lo, hi)
  BY <1>1, <1>2, <1>7 DEF DsdVector
<1>9. PICK m \in Nat : m = 8 * c + k + 1 /\ InLane(m)
  BY DEF InLane
<1>10. /\ StoreByLane(lo, hi)[m] = lo[m]
       /\ StoreByLane(lo, hi)[16 + m] = hi[m]
       /\ StoreByLane(lo, hi)[32 + m] = lo[16 + m]
       /\ StoreByLane(lo, hi)[48 + m] = hi[16 + m]
  BY <1>9, StoreByLaneIs
<1>11. StoreByLane(lo, hi)[8 * q + k + 1] = v[p]
  <2>1. /\ half = 0 => v = lo
        /\ half = 1 => v = hi
    BY <1>5, <1>7
  <2>2. CASE h = 0 /\ half = 0
    <3>1. 8 * q + k + 1 = m /\ p = m
      BY <1>3, <1>9, <2>2
    <3>2. QED
      BY ONLY <1>10, <2>1, <2>2, <3>1
  <2>3. CASE h = 0 /\ half = 1
    <3>1. 8 * q + k + 1 = 16 + m /\ p = m
      BY <1>3, <1>9, <2>3
    <3>2. QED
      BY ONLY <1>10, <2>1, <2>3, <3>1
  <2>4. CASE h = 1 /\ half = 0
    <3>1. 8 * q + k + 1 = 32 + m /\ p = 16 + m
      BY <1>3, <1>9, <2>4
    <3>2. QED
      BY ONLY <1>10, <2>1, <2>4, <3>1
  <2>5. CASE h = 1 /\ half = 1
    <3>1. 8 * q + k + 1 = 48 + m /\ p = 16 + m
      BY <1>3, <1>9, <2>5
    <3>2. QED
      BY ONLY <1>10, <2>1, <2>5, <3>1
  <2>6. QED
    BY <2>2, <2>3, <2>4, <2>5
<1>12. QED
  BY <1>6, <1>8, <1>11

LEMMA DsdSwappedLength ==
  ASSUME NEW swap \in BOOLEAN, NEW v, LengthIs(v, 16), Holds(v, 16)
  PROVE  Holds(DsdSwapped(swap, v), 16)
<1>1. CASE ~swap
  BY <1>1 DEF DsdSwapped
<1>2. CASE swap
  BY <1>2 DEF DsdSwapped, Shuffle, LengthIs, Holds
<1>3. QED
  BY <1>1, <1>2

\* Byte k of group q of the four that the NEON loop stores.
LEMMA DsdNeonByte ==
  ASSUME NEW src, NEW perChannel \in Nat, NEW g \in Nat, DsdSource(src, perChannel, 16, g),
         NEW reverse \in BOOLEAN, NEW swap \in BOOLEAN,
         NEW half \in Nat, half < 2, NEW c \in Nat, c < 2, NEW k \in Nat, k < 8,
         NEW q \in Nat, GroupOf(q, 0, half, c)
  PROVE  DsdVector("neon", src, perChannel, 16, reverse, swap, g)[8 * q + k + 1]
           = DsdByte(src, perChannel, reverse, swap, g + q, k)
<1> q = 2 * half + c
  BY DEF GroupOf
<1>1. PICK n \in Nat : n = 16 /\ n \in VectorSizes
  BY DEF VectorSizes
<1>2. PICK left, right : /\ left = DsdBits("neon", reverse, Load(src, 4 * g, n))
                         /\ right = DsdBits("neon", reverse, Load(src, perChannel + 4 * g, n))
  OBVIOUS
<1>3. PICK p \in Nat : p = 8 * c + k + 1 /\ InLane(p)
  BY DEF InLane
<1>4. PICK x \in Nat : Cell(n, swap, 0, half, c, k, x, p, q)
  BY <1>1, <1>3, CellOf
<1>5. PICK v : v = DsdSwapped(swap, Unpack(left, right, 4, half))
  OBVIOUS
<1>6. LengthIs(left, n) /\ v[p] = DsdByte(src, perChannel, reverse, swap, g + q, k)
  <2>1. DsdInput("neon", src, perChannel, n, reverse, g, left, right)
    BY <1>1, <1>2 DEF DsdInput
  <2>2. QED
    BY <1>4, <1>5, <2>1, DsdHalf
<1>7. PICK lo, hi : /\ lo = DsdSwapped(swap, Unpack(left, right, 4, 0))
                    /\ hi = DsdSwapped(swap, Unpack(left, right, 4, 1))
  OBVIOUS
<1>8. DsdVector("neon", src, perChannel, 16, reverse, swap, g) = Join(lo, hi)
  BY <1>1, <1>2, <1>7 DEF DsdVector
<1>9. Holds(lo, 16) /\ Holds(hi, 16)
  <2>1. \A y : LengthIs(Unpack(left, right, 4, y), 16) /\ Holds(Unpack(left, right, 4, y), 16)
    BY <1>1, <1>6 DEF Unpack, LengthIs, Holds
  <2>2. QED
    BY <1>7, <2>1, DsdSwappedLength
<1>10. Join(lo, hi)[p] = lo[p] /\ Join(lo, hi)[16 + p] = hi[p]
  BY <1>3, <1>9, JoinedHalves
<1>11. Join(lo, hi)[8 * q + k + 1] = v[p]
  <2>1. /\ half = 0 => v = lo
        /\ half = 1 => v = hi
    BY <1>5, <1>7
  <2>2. CASE half = 0
    <3>1. 8 * q + k + 1 = p
      BY <1>3, <2>2
    <3>2. QED
      BY ONLY <1>10, <2>1, <2>2, <3>1
  <2>3. CASE half = 1
    <3>1. 8 * q + k + 1 = 16 + p
      BY <1>3, <2>3
    <3>2. QED
      BY ONLY <1>10, <2>1, <2>3, <3>1
  <2>4. half = 0 \/ half = 1
    BY ONLY half \in Nat, half < 2
  <2>5. QED
    BY ONLY <2>2, <2>3, <2>4
<1>12. QED
  BY <1>6, <1>8, <1>11

-----------------------------------------------------------------------------
(* The loops: what the groups store and what is left over. *)

\* One more element behind the others.
Then(s, e) == Append(s, e)

LEMMA Appended ==
  ASSUME NEW n \in Nat, NEW s, Holds(s, n), NEW e
  PROVE  /\ \A p \in 1 .. n : Then(s, e)[p] = s[p]
         /\ Then(s, e)[n + 1] = e
<1> DEFINE S == {s[j] : j \in 1 .. n} \cup {e}
<1>1. s \in Seq(S) /\ Len(s) = n /\ e \in S
  <2>1. \A j \in 1 .. n : s[j] \in S
    OBVIOUS
  <2>2. e \in S
    OBVIOUS
  <2> HIDE DEF S
  <2>3. s \in [1 .. n -> S]
    BY <2>1 DEF Holds
  <2>4. QED
    BY <2>2, <2>3
<1> HIDE DEF S
<1>2. QED
  BY <1>1, AppendProperties DEF Then

\* The bytes of n samples of w bytes: those of the whole groups, then the others.
Buffer(n, w, group, groups, stored) ==
  [j \in 1 .. n * w |->
     IF j <= groups * group * w THEN stored[((j - 1) \div (group * w)) + 1][((j - 1) % (group * w)) + 1]
     ELSE stored[groups + 1][j - groups * group * w]]

\* The parts of one are those of another: group by group, and the rest.
Parts(n, w, group, groups, stored, want) ==
  /\ n \in Nat /\ w \in Nat \ {0} /\ group \in Nat /\ groups \in Nat /\ groups * group <= n
  /\ Holds(want, n * w)
  /\ \A q \in 0 .. groups - 1 : \A y \in 1 .. group * w : stored[q + 1][y] = want[group * w * q + y]
  /\ \A y \in 1 .. (n - groups * group) * w : stored[groups + 1][y] = want[groups * group * w + y]

LEMMA BufferIs ==
  ASSUME NEW n \in Nat, NEW w \in Nat, NEW group \in Nat, NEW groups \in Nat,
         NEW stored, NEW want, Parts(n, w, group, groups, stored, want)
  PROVE  Buffer(n, w, group, groups, stored) = want
<1>0. /\ w > 0 /\ groups * group <= n
      /\ Holds(want, n * w)
      /\ \A q \in 0 .. groups - 1 : \A y \in 1 .. group * w : stored[q + 1][y] = want[group * w * q + y]
      /\ \A y \in 1 .. (n - groups * group) * w : stored[groups + 1][y] = want[groups * group * w + y]
  BY DEF Parts
<1>1. PICK size \in Nat, total \in Nat, done \in Nat, rest \in Nat :
        /\ size = group * w /\ total = n * w /\ done = groups * size /\ rest = (n - groups * group) * w
        /\ done = groups * group * w /\ total = done + rest
  <2>1. PICK whole \in Nat : whole = groups * group /\ whole <= n
    BY <1>0
  <2>2. group * w \in Nat /\ n * w \in Nat /\ whole * w \in Nat /\ (n - whole) * w \in Nat
    BY <2>1
  <2>3. groups * (group * w) = whole * w /\ n * w = whole * w + (n - whole) * w
    BY <2>1
  <2>4. QED
    BY <2>1, <2>2, <2>3
<1>2. ASSUME NEW j \in 1 .. total
      PROVE  Buffer(n, w, group, groups, stored)[j] = want[j]
  <2>1. CASE j <= done
    <3>1. size > 0
      BY <1>0, <1>1, <2>1
    <3>2. PICK q \in Nat, y \in Nat : q = (j - 1) \div size /\ y = (j - 1) % size /\ y < size /\ j - 1 = size * q + y
      <4>1. j - 1 \in Nat
        OBVIOUS
      <4>2. QED
        BY <3>1, <4>1, DivModOf
    <3>3. q < groups
      <4>1. size * q < groups * size
        BY <1>1, <2>1, <3>2
      <4>2. SUFFICES ASSUME q >= groups PROVE FALSE
        OBVIOUS
      <4>3. PICK e \in Nat : q = groups + e
        BY <4>2
      <4>4. size * q = groups * size + size * e /\ size * e >= 0
        BY <4>3
      <4>5. QED
        BY <4>1, <4>4
    <3>4. Buffer(n, w, group, groups, stored)[j] = stored[q + 1][y + 1]
      BY <1>1, <2>1, <3>2 DEF Buffer
    <3>5. stored[q + 1][y + 1] = want[size * q + (y + 1)]
      BY <1>0, <1>1, <3>2, <3>3
    <3>6. QED
      BY <3>2, <3>4, <3>5
  <2>2. CASE j > done
    <3>1. PICK y \in 1 .. rest : j = done + y
      BY <1>1, <2>2
    <3>2. Buffer(n, w, group, groups, stored)[j] = stored[groups + 1][y]
      BY <1>1, <2>2, <3>1 DEF Buffer
    <3>3. stored[groups + 1][y] = want[done + y]
      BY <1>0, <1>1, <3>1
    <3>4. QED
      BY <3>1, <3>2, <3>3
  <2>3. QED
    BY <2>1, <2>2
<1>3. Holds(Buffer(n, w, group, groups, stored), total)
  BY <1>1 DEF Holds, Buffer
<1>4. QED
  BY <1>0, <1>1, <1>2, <1>3 DEF Holds

-----------------------------------------------------------------------------
(* The four conversions, sample by sample. *)

PackedBytes(src, n, first) == [j \in 1 .. n * 3 |-> src[4 * ((j - 1) \div 3) + ((j - 1) % 3) + first + 1]]

Widened32(src, n) ==
  [j \in 1 .. n * 4 |-> IF (j - 1) % 4 < 2 THEN 0 ELSE src[2 * ((j - 1) \div 4) + ((j - 1) % 4) - 1]]

Widened24(src, n) ==
  [j \in 1 .. n * 3 |-> IF (j - 1) % 3 = 0 THEN 0 ELSE src[2 * ((j - 1) \div 3) + ((j - 1) % 3)]]

Within(j, n, w) == 1 <= j /\ j <= n * w

LEMMA SampleBytes ==
  ASSUME NEW w \in Nat, w > 0, NEW n \in Nat, NEW j \in Nat, Within(j, n, w)
  PROVE  \E s \in Nat, b \in Nat : SampleByte(j, w, s, b) /\ s < n
<1>1. PICK s \in Nat, b \in Nat : s = (j - 1) \div w /\ b = (j - 1) % w /\ b < w /\ j - 1 = w * s + b
  <2>1. j - 1 \in Nat
    BY DEF Within
  <2>2. QED
    BY <2>1, DivModOf
<1>2. s < n
  <2>1. SUFFICES ASSUME s >= n PROVE FALSE
    OBVIOUS
  <2>2. PICK e \in Nat : s = n + e
    BY <2>1
  <2>3. w * s = n * w + w * e /\ w * e >= 0
    BY <2>2
  <2>4. QED
    BY <1>1, <2>3 DEF Within
<1>3. SampleByte(j, w, s, b)
  BY <1>1 DEF SampleByte
<1>4. QED
  BY <1>2, <1>3

LEMMA SampleByteDivMod ==
  ASSUME NEW w \in Nat \ {0}, NEW n \in Nat, NEW j \in Nat, NEW s \in Nat, NEW b \in Nat, SampleByte(j, w, s, b)
  PROVE  /\ (j - 1) \div w = s /\ (j - 1) % w = b
         /\ s < n => j \in 1 .. n * w
<1>1. (w * s + b) \div w = s /\ (w * s + b) % w = b
  BY DivMod DEF SampleByte
<1>2. j - 1 = w * s + b
  BY DEF SampleByte
<1>3. ASSUME s < n
      PROVE  j \in 1 .. n * w
  <2>1. PICK e \in Nat : n = s + 1 + e
    BY <1>3
  <2>2. n * w = w * s + w + w * e /\ w * e >= 0 /\ w * s >= 0
    BY <2>1
  <2>3. QED
    BY <2>2 DEF SampleByte
<1>4. QED
  BY <1>1, <1>2, <1>3

LEMMA PackedByte ==
  ASSUME NEW src, NEW n \in Nat, NEW first, NEW j \in Nat, NEW s \in Nat, s < n, NEW b \in Nat, SampleByte(j, 3, s, b)
  PROVE  PackedBytes(src, n, first)[j] = src[4 * s + b + first + 1]
<1>1. (j - 1) \div 3 = s /\ (j - 1) % 3 = b /\ j \in 1 .. n * 3
  BY SampleByteDivMod
<1>2. QED
  BY <1>1 DEF PackedBytes

\* How many whole groups there are.
LEMMA WholeGroups ==
  ASSUME NEW n \in Nat, NEW group \in Nat
  PROVE  LET groups == IF group = 0 THEN 0 ELSE n \div group
         IN groups \in Nat /\ groups * group <= n
<1>1. CASE group = 0
  BY <1>1
<1>2. CASE group > 0
  <2>1. n \div group \in Nat /\ n % group \in Nat /\ n = group * (n \div group) + (n % group)
    BY <1>2, DivModOf
  <2>2. QED
    BY <1>2, <2>1
<1>3. QED
  BY <1>1, <1>2

PackVector(build, src, first, i) == IF build = "avx2" THEN PackAvx2(src, i, first) ELSE PackNeon(src, i, first)

\* Packing puts three bytes of every sample behind one another, the lower or the upper
\* ones, whatever the build and the number of samples: the vector loops and what they
\* leave to the scalar one (convert24BitPacked_AVX2 and its shifted form).
THEOREM PackIs ==
  ASSUME NEW build \in Builds, NEW src, NEW n \in Nat, NEW first \in {0, 1}
  PROVE  Pack(build, src, n, first) = PackedBytes(src, n, first)
<1> DEFINE group  == [avx2 |-> 8, neon |-> 16, scalar |-> 0][build]
           groups == IF group = 0 THEN 0 ELSE n \div group
           done   == groups * group
           tail   == [j \in 1 .. (n - done) * 3 |->
                        src[4 * (done + (j - 1) \div 3) + ((j - 1) % 3) + first + 1]]
           whole  == [q \in 1 .. groups |-> PackVector(build, src, first, (q - 1) * group)]
           stored == Append(whole, tail)
<1>1. Pack(build, src, n, first) = Buffer(n, 3, group, groups, stored)
  BY DEF Pack, Convert, Buffer, PackVector, Then
<1>2. /\ build = "avx2" => group = 8
      /\ build = "neon" => group = 16
      /\ build = "scalar" => group = 0
  OBVIOUS
<1>3. groups = IF group = 0 THEN 0 ELSE n \div group
  OBVIOUS
<1>4. done = groups * group
  OBVIOUS
<1>5. Holds(whole, groups) /\ \A q \in 1 .. groups : whole[q] = PackVector(build, src, first, (q - 1) * group)
  BY DEF Holds
<1>6. \A y \in 1 .. (n - done) * 3 : tail[y] = src[4 * (done + (y - 1) \div 3) + ((y - 1) % 3) + first + 1]
  OBVIOUS
<1>7. stored = Then(whole, tail)
  BY DEF Then
<1> HIDE DEF group, groups, done, tail, whole, stored
<1>8. group \in Nat
  BY <1>2 DEF Builds
<1>9. groups \in Nat /\ done \in Nat /\ done <= n
  BY <1>3, <1>4, <1>8, WholeGroups
<1>10. PICK want : want = PackedBytes(src, n, first)
  OBVIOUS
<1>11. /\ \A q \in 1 .. groups : stored[q] = PackVector(build, src, first, (q - 1) * group)
       /\ stored[groups + 1] = tail
  <2>1. /\ \A q \in 1 .. groups : Then(whole, tail)[q] = whole[q]
        /\ Then(whole, tail)[groups + 1] = tail
    BY <1>5, <1>9, Appended
  <2>2. QED
    BY <1>5, <1>7, <2>1
<1>12. ASSUME NEW q \in 0 .. groups - 1, NEW y \in 1 .. group * 3
       PROVE  stored[q + 1][y] = want[group * 3 * q + y]
  <2>1. stored[q + 1] = PackVector(build, src, first, q * group)
    <3>1. q + 1 \in 1 .. groups /\ (q + 1) - 1 = q
      BY <1>9
    <3>2. QED
      BY <1>11, <3>1
  <2>2. PICK a \in Nat, b \in Nat : SampleByte(y, 3, a, b) /\ a < group
    <3>1. y \in Nat /\ Within(y, group, 3)
      BY <1>8 DEF Within
    <3>2. QED
      BY <1>8, <3>1, SampleBytes
  <2>3. PICK s \in Nat : s = q * group + a
    BY <1>8
  <2>4. PICK j \in Nat : j = group * 3 * q + y
    BY <1>8
  <2>5. SampleByte(j, 3, s, b)
    BY <1>8, <2>2, <2>3, <2>4 DEF SampleByte
  <2>6. s < n
    <3>1. (q + 1) * group <= groups * group
      BY <1>8, <1>9
    <3>2. QED
      BY <1>4, <1>8, <1>9, <2>2, <2>3, <3>1
  <2>7. want[j] = src[4 * s + b + first + 1]
    BY <1>10, <2>5, <2>6, PackedByte
  <2>8. y = 3 * a + b + 1 /\ b \in 0 .. 2
    BY <2>2 DEF SampleByte
  <2>9. PICK i \in Nat : i = q * group
    BY <1>8
  <2>10. PackVector(build, src, first, i)[y] = src[4 * (i + a) + b + first + 1]
    <3>1. CASE build = "avx2"
      <4>1. a \in 0 .. 7
        BY <1>2, <2>2, <3>1
      <4>2. QED
        BY <2>8, <3>1, <4>1, PackAvx2Byte DEF PackVector
    <3>2. CASE build = "neon"
      <4>1. a \in 0 .. 15
        BY <1>2, <2>2, <3>2
      <4>2. QED
        BY <2>8, <3>2, <4>1, PackNeonByte DEF PackVector
    <3>3. CASE build = "scalar"
      BY <1>2, <2>2, <3>3
    <3>4. QED
      BY <3>1, <3>2, <3>3 DEF Builds
  <2>11. QED
    BY <2>1, <2>3, <2>4, <2>7, <2>9, <2>10
<1>13. ASSUME NEW y \in 1 .. (n - done) * 3
       PROVE  stored[groups + 1][y] = want[done * 3 + y]
  <2>1. PICK m \in Nat : m = n - done
    BY <1>9
  <2>2. PICK a \in Nat, b \in Nat : SampleByte(y, 3, a, b) /\ a < m
    <3>1. y \in Nat /\ Within(y, m, 3)
      BY <2>1 DEF Within
    <3>2. QED
      BY <3>1, SampleBytes
  <2>3. (y - 1) \div 3 = a /\ (y - 1) % 3 = b
    BY <2>2, SampleByteDivMod
  <2>4. PICK s \in Nat, j \in Nat : s = done + a /\ j = done * 3 + y
    BY <1>9
  <2>5. SampleByte(j, 3, s, b) /\ s < n
    BY <1>9, <2>1, <2>2, <2>4 DEF SampleByte
  <2>6. want[j] = src[4 * s + b + first + 1]
    BY <1>10, <2>5, PackedByte
  <2>7. QED
    BY <1>6, <1>11, <2>3, <2>4, <2>6
<1>14. Holds(want, n * 3)
  BY <1>10 DEF Holds, PackedBytes
<1>15. Buffer(n, 3, group, groups, stored) = want
  <2>1. Parts(n, 3, group, groups, stored, want)
    BY <1>4, <1>8, <1>9, <1>12, <1>13, <1>14 DEF Parts
  <2>2. QED
    BY <1>8, <1>9, <2>1, BufferIs
<1>16. QED
  BY <1>1, <1>10, <1>15

\* Byte b of sample s on the other side of the two 16-bit conversions.
LEMMA Widened32Byte ==
  ASSUME NEW src, NEW n \in Nat, NEW j \in Nat, NEW s \in Nat, s < n, NEW b \in Nat, SampleByte(j, 4, s, b)
  PROVE  Widened32(src, n)[j] = IF b < 2 THEN 0 ELSE src[2 * s + b - 1]
<1>1. (j - 1) \div 4 = s /\ (j - 1) % 4 = b /\ j \in 1 .. n * 4
  BY SampleByteDivMod
<1>2. QED
  BY <1>1 DEF Widened32

LEMMA Widened24Byte ==
  ASSUME NEW src, NEW n \in Nat, NEW j \in Nat, NEW s \in Nat, s < n, NEW b \in Nat, SampleByte(j, 3, s, b)
  PROVE  Widened24(src, n)[j] = IF b = 0 THEN 0 ELSE src[2 * s + b]
<1>1. (j - 1) \div 3 = s /\ (j - 1) % 3 = b /\ j \in 1 .. n * 3
  BY SampleByteDivMod
<1>2. QED
  BY <1>1 DEF Widened24

Widen32Vector(build, src, i) == IF build = "avx2" THEN Widen32Avx2(src, i) ELSE Widen32Neon(src, i)

\* Widening to 32 bits puts two zeros before the two bytes of every sample, whatever the
\* build and the number of samples (convert16To32_AVX2).
THEOREM Widen32Is ==
  ASSUME NEW build \in Builds, NEW src, NEW n \in Nat
  PROVE  convert16To32(build, src, n) = Widened32(src, n)
<1> DEFINE group  == [avx2 |-> 16, neon |-> 8, scalar |-> 0][build]
           groups == IF group = 0 THEN 0 ELSE n \div group
           done   == groups * group
           tail   == [j \in 1 .. (n - done) * 4 |-> IF (j - 1) % 4 < 2 THEN 0 ELSE src[2 * (done + (j - 1) \div 4) + ((j - 1) % 4) - 1]]
           whole  == [q \in 1 .. groups |-> Widen32Vector(build, src, (q - 1) * group)]
           stored == Then(whole, tail)
<1>1. convert16To32(build, src, n) = Buffer(n, 4, group, groups, stored)
  BY DEF convert16To32, Convert, Buffer, Then, Widen32Vector
<1>2. /\ build = "avx2" => group = 16
      /\ build = "neon" => group = 8
      /\ build = "scalar" => group = 0
  OBVIOUS
<1>3. groups = IF group = 0 THEN 0 ELSE n \div group
  OBVIOUS
<1>4. done = groups * group
  OBVIOUS
<1>5. Holds(whole, groups) /\ \A q \in 1 .. groups : whole[q] = Widen32Vector(build, src, (q - 1) * group)
  BY DEF Holds
<1>6. \A y \in 1 .. (n - done) * 4 : tail[y] = IF (y - 1) % 4 < 2 THEN 0 ELSE src[2 * (done + (y - 1) \div 4) + ((y - 1) % 4) - 1]
  OBVIOUS
<1>7. stored = Then(whole, tail)
  BY DEF Then
<1> HIDE DEF group, groups, done, tail, whole, stored
<1>8. group \in Nat
  BY <1>2 DEF Builds
<1>9. groups \in Nat /\ done \in Nat /\ done <= n
  BY <1>3, <1>4, <1>8, WholeGroups
<1>10. PICK want : want = Widened32(src, n)
  OBVIOUS
<1>11. /\ \A q \in 1 .. groups : stored[q] = Widen32Vector(build, src, (q - 1) * group)
       /\ stored[groups + 1] = tail
  <2>1. /\ \A q \in 1 .. groups : Then(whole, tail)[q] = whole[q]
        /\ Then(whole, tail)[groups + 1] = tail
    BY <1>5, <1>9, Appended
  <2>2. QED
    BY <1>5, <1>7, <2>1
<1>12. ASSUME NEW q \in 0 .. groups - 1, NEW y \in 1 .. group * 4
       PROVE  stored[q + 1][y] = want[group * 4 * q + y]
  <2>1. stored[q + 1] = Widen32Vector(build, src, q * group)
    <3>1. q + 1 \in 1 .. groups /\ (q + 1) - 1 = q
      BY <1>9
    <3>2. QED
      BY <1>11, <3>1
  <2>2. PICK a \in Nat, b \in Nat : SampleByte(y, 4, a, b) /\ a < group
    <3>1. y \in Nat /\ Within(y, group, 4)
      BY <1>8 DEF Within
    <3>2. QED
      BY <1>8, <3>1, SampleBytes
  <2>3. PICK s \in Nat : s = q * group + a
    BY <1>8
  <2>4. PICK j \in Nat : j = group * 4 * q + y
    BY <1>8
  <2>5. SampleByte(j, 4, s, b)
    BY <1>8, <2>2, <2>3, <2>4 DEF SampleByte
  <2>6. s < n /\ q * group + group <= n
    <3>1. (q + 1) * group <= groups * group
      BY <1>8, <1>9
    <3>2. QED
      BY <1>4, <1>8, <1>9, <2>2, <2>3, <3>1
  <2>7. want[j] = IF b < 2 THEN 0 ELSE src[2 * s + b - 1]
    BY <1>10, <2>5, <2>6, Widened32Byte
  <2>8. y = 4 * a + b + 1 /\ b < 4
    BY <2>2 DEF SampleByte
  <2>9. PICK i \in Nat : i = q * group
    BY <1>8
  <2>10. (Widen32Vector(build, src, i))[y] = IF b < 2 THEN 0 ELSE src[2 * (i + a) + b - 1]
    <3>1. CASE build = "avx2"
      <4>1. a < 16
        BY <1>2, <2>2, <3>1
      <4>2. Widen32Avx2(src, i)[y] = IF b < 2 THEN 0 ELSE src[2 * (i + a) + b - 1]
        BY <2>2, <4>1, Widen32Avx2Byte
      <4>3. QED
        BY <3>1, <4>2 DEF Widen32Vector
    <3>2. CASE build = "neon"
      <4>1. a < 8
        BY <1>2, <2>2, <3>2
      <4>2. Widen32Neon(src, i)[y] = IF b < 2 THEN 0 ELSE src[2 * (i + a) + b - 1]
        BY <2>2, <4>1, Widen32NeonByte
      <4>3. QED
        BY <3>2, <4>2 DEF Widen32Vector
    <3>3. CASE build = "scalar"
      BY <1>2, <2>2, <3>3
    <3>4. QED
      BY <3>1, <3>2, <3>3 DEF Builds
  <2>11. QED
    BY <2>1, <2>3, <2>4, <2>7, <2>9, <2>10
<1>13. ASSUME NEW y \in 1 .. (n - done) * 4
       PROVE  stored[groups + 1][y] = want[done * 4 + y]
  <2>1. PICK m \in Nat : m = n - done
    BY <1>9
  <2>2. PICK a \in Nat, b \in Nat : SampleByte(y, 4, a, b) /\ a < m
    <3>1. y \in Nat /\ Within(y, m, 4)
      BY <2>1 DEF Within
    <3>2. QED
      BY <3>1, SampleBytes
  <2>3. (y - 1) \div 4 = a /\ (y - 1) % 4 = b /\ b < 4
    BY <2>2, SampleByteDivMod DEF SampleByte
  <2>4. PICK s \in Nat, j \in Nat : s = done + a /\ j = done * 4 + y
    BY <1>9
  <2>5. SampleByte(j, 4, s, b) /\ s < n
    BY <1>9, <2>1, <2>2, <2>4 DEF SampleByte
  <2>6. want[j] = IF b < 2 THEN 0 ELSE src[2 * s + b - 1]
    BY <1>10, <2>5, Widened32Byte
  <2>7. tail[y] = IF b < 2 THEN 0 ELSE src[2 * s + b - 1]
    BY <1>6, <2>3, <2>4
  <2>8. QED
    BY <1>11, <2>4, <2>6, <2>7
<1>14. Holds(want, n * 4)
  BY <1>10 DEF Holds, Widened32
<1>15. Buffer(n, 4, group, groups, stored) = want
  <2>1. Parts(n, 4, group, groups, stored, want)
    BY <1>4, <1>8, <1>9, <1>12, <1>13, <1>14 DEF Parts
  <2>2. QED
    BY <1>8, <1>9, <2>1, BufferIs
<1>16. QED
  BY <1>1, <1>10, <1>15

\* Widening to 24 bits puts one zero before them (convert16To24).
THEOREM Widen24Is ==
  ASSUME NEW build \in Builds, NEW src, NEW n \in Nat
  PROVE  convert16To24(build, src, n) = Widened24(src, n)
<1> DEFINE group  == IF build = "neon" THEN 16 ELSE 0
           groups == IF group = 0 THEN 0 ELSE n \div group
           done   == groups * group
           tail   == [j \in 1 .. (n - done) * 3 |-> IF (j - 1) % 3 = 0 THEN 0 ELSE src[2 * (done + (j - 1) \div 3) + ((j - 1) % 3)]]
           whole  == [q \in 1 .. groups |-> Widen24Neon(src, (q - 1) * group)]
           stored == Then(whole, tail)
<1>1. convert16To24(build, src, n) = Buffer(n, 3, group, groups, stored)
  BY DEF convert16To24, Convert, Buffer, Then
<1>2. /\ build = "neon" => group = 16
      /\ build # "neon" => group = 0
  OBVIOUS
<1>3. groups = IF group = 0 THEN 0 ELSE n \div group
  OBVIOUS
<1>4. done = groups * group
  OBVIOUS
<1>5. Holds(whole, groups) /\ \A q \in 1 .. groups : whole[q] = Widen24Neon(src, (q - 1) * group)
  BY DEF Holds
<1>6. \A y \in 1 .. (n - done) * 3 : tail[y] = IF (y - 1) % 3 = 0 THEN 0 ELSE src[2 * (done + (y - 1) \div 3) + ((y - 1) % 3)]
  OBVIOUS
<1>7. stored = Then(whole, tail)
  BY DEF Then
<1> HIDE DEF group, groups, done, tail, whole, stored
<1>8. group \in Nat
  BY <1>2 DEF Builds
<1>9. groups \in Nat /\ done \in Nat /\ done <= n
  BY <1>3, <1>4, <1>8, WholeGroups
<1>10. PICK want : want = Widened24(src, n)
  OBVIOUS
<1>11. /\ \A q \in 1 .. groups : stored[q] = Widen24Neon(src, (q - 1) * group)
       /\ stored[groups + 1] = tail
  <2>1. /\ \A q \in 1 .. groups : Then(whole, tail)[q] = whole[q]
        /\ Then(whole, tail)[groups + 1] = tail
    BY <1>5, <1>9, Appended
  <2>2. QED
    BY <1>5, <1>7, <2>1
<1>12. ASSUME NEW q \in 0 .. groups - 1, NEW y \in 1 .. group * 3
       PROVE  stored[q + 1][y] = want[group * 3 * q + y]
  <2>1. stored[q + 1] = Widen24Neon(src, q * group)
    <3>1. q + 1 \in 1 .. groups /\ (q + 1) - 1 = q
      BY <1>9
    <3>2. QED
      BY <1>11, <3>1
  <2>2. PICK a \in Nat, b \in Nat : SampleByte(y, 3, a, b) /\ a < group
    <3>1. y \in Nat /\ Within(y, group, 3)
      BY <1>8 DEF Within
    <3>2. QED
      BY <1>8, <3>1, SampleBytes
  <2>3. PICK s \in Nat : s = q * group + a
    BY <1>8
  <2>4. PICK j \in Nat : j = group * 3 * q + y
    BY <1>8
  <2>5. SampleByte(j, 3, s, b)
    BY <1>8, <2>2, <2>3, <2>4 DEF SampleByte
  <2>6. s < n /\ q * group + group <= n
    <3>1. (q + 1) * group <= groups * group
      BY <1>8, <1>9
    <3>2. QED
      BY <1>4, <1>8, <1>9, <2>2, <2>3, <3>1
  <2>7. want[j] = IF b = 0 THEN 0 ELSE src[2 * s + b]
    BY <1>10, <2>5, <2>6, Widened24Byte
  <2>8. y = 3 * a + b + 1 /\ b < 3
    BY <2>2 DEF SampleByte
  <2>9. PICK i \in Nat : i = q * group
    BY <1>8
  <2>10. (Widen24Neon(src, i))[y] = IF b = 0 THEN 0 ELSE src[2 * (i + a) + b]
    <3>1. a < 16
      BY <1>2, <2>2
    <3>2. QED
      BY <2>2, <3>1, Widen24NeonByte
  <2>11. QED
    BY <2>1, <2>3, <2>4, <2>7, <2>9, <2>10
<1>13. ASSUME NEW y \in 1 .. (n - done) * 3
       PROVE  stored[groups + 1][y] = want[done * 3 + y]
  <2>1. PICK m \in Nat : m = n - done
    BY <1>9
  <2>2. PICK a \in Nat, b \in Nat : SampleByte(y, 3, a, b) /\ a < m
    <3>1. y \in Nat /\ Within(y, m, 3)
      BY <2>1 DEF Within
    <3>2. QED
      BY <3>1, SampleBytes
  <2>3. (y - 1) \div 3 = a /\ (y - 1) % 3 = b /\ b < 3
    BY <2>2, SampleByteDivMod DEF SampleByte
  <2>4. PICK s \in Nat, j \in Nat : s = done + a /\ j = done * 3 + y
    BY <1>9
  <2>5. SampleByte(j, 3, s, b) /\ s < n
    BY <1>9, <2>1, <2>2, <2>4 DEF SampleByte
  <2>6. want[j] = IF b = 0 THEN 0 ELSE src[2 * s + b]
    BY <1>10, <2>5, Widened24Byte
  <2>7. tail[y] = IF b = 0 THEN 0 ELSE src[2 * s + b]
    BY <1>6, <2>3, <2>4
  <2>8. QED
    BY <1>11, <2>4, <2>6, <2>7
<1>14. Holds(want, n * 3)
  BY <1>10 DEF Holds, Widened24
<1>15. Buffer(n, 3, group, groups, stored) = want
  <2>1. Parts(n, 3, group, groups, stored, want)
    BY <1>4, <1>8, <1>9, <1>12, <1>13, <1>14 DEF Parts
  <2>2. QED
    BY <1>8, <1>9, <2>1, BufferIs
<1>16. QED
  BY <1>1, <1>10, <1>15

-----------------------------------------------------------------------------
(* The DSD conversion, byte by byte. *)

\* A planar block of two channels of whole groups, every channel with so many.
DsdPlanar(src, total) == Len(src) = 8 * total /\ IsBytes(src, 8 * total)

DsdGroups(src, perChannel, total, reverse, swap) ==
  [j \in 1 .. total * 8 |-> DsdByte(src, perChannel, reverse, swap, (j - 1) \div 8, (j - 1) % 8)]

AreGroups(want, src, perChannel, total, reverse, swap) ==
  total \in Nat /\ want = DsdGroups(src, perChannel, total, reverse, swap)

LEMMA DsdGroupsByte ==
  ASSUME NEW want, NEW src, NEW perChannel, NEW total, NEW reverse, NEW swap,
         AreGroups(want, src, perChannel, total, reverse, swap),
         NEW j \in Nat, NEW s \in Nat, s < total, NEW b \in Nat, SampleByte(j, 8, s, b)
  PROVE  want[j] = DsdByte(src, perChannel, reverse, swap, s, b)
<1>1. total \in Nat
  BY DEF AreGroups
<1>2. (j - 1) \div 8 = s /\ (j - 1) % 8 = b /\ j \in 1 .. total * 8
  BY <1>1, SampleByteDivMod
<1>3. QED
  BY <1>2 DEF AreGroups, DsdGroups

\* What the scalar loop puts at byte k of group g.
DsdScalar(src, perChannel, reverse, swap, g, k) ==
  LET at == perChannel * (k \div 4) + 4 * g + (IF swap THEN 3 - (k % 4) ELSE k % 4)
  IN IF reverse THEN kBitReverseLUT[src[at + 1]] ELSE src[at + 1]

LEMMA DsdScalarIs ==
  ASSUME NEW src, NEW perChannel \in Nat, NEW reverse \in BOOLEAN, NEW swap \in BOOLEAN,
         NEW g \in Nat, NEW k \in Nat, k < 8
  PROVE  DsdScalar(src, perChannel, reverse, swap, g, k) = DsdByte(src, perChannel, reverse, swap, g, k)
<1>1. PICK x \in Nat : x < 8 /\ (x < 4 <=> k < 4) /\ SwapsTo(swap, k, x)
  BY SwapPlaces
<1>2. PICK at \in Nat : at = perChannel * (k \div 4) + 4 * g + (IF swap THEN 3 - (k % 4) ELSE k % 4)
  OBVIOUS
<1>3. CASE k < 4
  <2>1. k \div 4 = 0 /\ k % 4 = k
    BY <1>3
  <2>2. at + 1 = 4 * g + x + 1
    BY <1>1, <1>2, <1>3, <2>1 DEF SwapsTo, SwapPlace
  <2>3. QED
    BY <1>1, <1>2, <1>3, <2>2 DEF DsdScalar, DsdByte, DsdValue, SwapsTo
<1>4. CASE k >= 4
  <2>1. k \div 4 = 1 /\ k % 4 = k - 4
    BY <1>4
  <2>2. at + 1 = perChannel + 4 * g + x - 3
    BY <1>1, <1>2, <1>4, <2>1 DEF SwapsTo, SwapPlace
  <2>3. QED
    BY <1>1, <1>2, <1>4, <2>2 DEF DsdScalar, DsdByte, DsdValue, SwapsTo
<1>5. QED
  BY <1>3, <1>4

\* A byte of what the vectors store, by its group.
IsDsdVector(v, build, src, perChannel, n, reverse, swap, g) ==
  /\ v = DsdVector(build, src, perChannel, n, reverse, swap, g)
  /\ build \in {"avx2", "neon"} /\ n \in Nat /\ (build = "avx2" => n = 32) /\ (build = "neon" => n = 16)
  /\ reverse \in BOOLEAN /\ swap \in BOOLEAN
  /\ DsdSource(src, perChannel, n, g)

InVector(y, q, k, n) == y \in Nat /\ q \in Nat /\ k \in Nat /\ 4 * q < n /\ SampleByte(y, 8, q, k)

LEMMA DsdVectorByte ==
  ASSUME NEW v, NEW build, NEW src, NEW perChannel, NEW n, NEW reverse, NEW swap, NEW g, NEW y, NEW q, NEW k,
         IsDsdVector(v, build, src, perChannel, n, reverse, swap, g), InVector(y, q, k, n)
  PROVE  v[y] = DsdByte(src, perChannel, reverse, swap, g + q, k)
<1>0. /\ v = DsdVector(build, src, perChannel, n, reverse, swap, g)
      /\ build \in {"avx2", "neon"} /\ n \in Nat /\ (build = "avx2" => n = 32) /\ (build = "neon" => n = 16)
      /\ reverse \in BOOLEAN /\ swap \in BOOLEAN
      /\ DsdSource(src, perChannel, n, g)
      /\ perChannel \in Nat /\ g \in Nat /\ y \in Nat /\ q \in Nat /\ k \in Nat /\ 4 * q < n /\ SampleByte(y, 8, q, k)
  BY DEF IsDsdVector, InVector, DsdSource
<1>1. k < 8 /\ y = 8 * q + k + 1
  BY <1>0 DEF SampleByte
<1>2. PICK h \in Nat, half \in Nat, c \in Nat : half < 2 /\ c < 2 /\ q = 4 * h + 2 * half + c
  <2>1. q = 4 * (q \div 4) + 2 * ((q % 4) \div 2) + (q % 2) /\ (q % 4) \div 2 < 2 /\ q % 2 < 2
    BY <1>0
  <2>2. q \div 4 \in Nat /\ (q % 4) \div 2 \in Nat /\ q % 2 \in Nat
    BY <1>0
  <2>3. QED
    BY <2>1, <2>2
<1>2a. half < 2 /\ c < 2
  BY <1>2
<1>3. CASE build = "avx2"
  <2>1. h < 2 /\ DsdSource(src, perChannel, 32, g) /\ GroupOf(q, h, half, c)
    BY <1>0, <1>2, <1>3 DEF GroupOf
  <2>2. DsdVector("avx2", src, perChannel, 32, reverse, swap, g)[8 * q + k + 1]
          = DsdByte(src, perChannel, reverse, swap, g + q, k)
    BY <1>0, <1>1, <1>2a, <2>1, DsdAvx2Byte
  <2>3. QED
    BY <1>0, <1>1, <1>3, <2>2
<1>4. CASE build = "neon"
  <2>1. DsdSource(src, perChannel, 16, g) /\ GroupOf(q, 0, half, c)
    BY <1>0, <1>2, <1>4 DEF GroupOf
  <2>2. DsdVector("neon", src, perChannel, 16, reverse, swap, g)[8 * q + k + 1]
          = DsdByte(src, perChannel, reverse, swap, g + q, k)
    BY <1>0, <1>1, <1>2a, <2>1, DsdNeonByte
  <2>3. QED
    BY <1>0, <1>1, <1>4, <2>2
<1>5. QED
  BY <1>0, <1>3, <1>4

ChannelOf(perChannel, total) == perChannel = 4 * total

\* The two loops: vectors of a build, and what they leave.
DsdLoop(build, src, perChannel, vector, total, reverse, swap, group, groups, whole, tail) ==
  /\ build = "avx2" => group = 8 /\ vector = 32
  /\ build = "neon" => group = 4 /\ vector = 16
  /\ build = "scalar" => group = 0 /\ vector = 0
  /\ groups = (IF group = 0 THEN 0 ELSE total \div group)
  /\ Holds(whole, groups)
  /\ \A q \in 1 .. groups : whole[q] = DsdVector(build, src, perChannel, vector, reverse, swap, (q - 1) * group)
  /\ \A y \in 1 .. (total - groups * group) * 8 :
       tail[y] = DsdScalar(src, perChannel, reverse, swap, groups * group + (y - 1) \div 8, (y - 1) % 8)

LEMMA DsdUnfolded ==
  ASSUME NEW build \in Builds, NEW src, NEW total \in Nat, DsdPlanar(src, total),
         NEW perChannel \in Nat, ChannelOf(perChannel, total), NEW reverse \in BOOLEAN, NEW swap \in BOOLEAN
  PROVE  \E vector, group, groups, whole, tail :
           /\ DsdLoop(build, src, perChannel, vector, total, reverse, swap, group, groups, whole, tail)
           /\ ConvertDSD(build, src, 2, reverse, swap) = Buffer(total, 8, group, groups, Then(whole, tail))
<1> DEFINE channels == 2
           per    == Len(src) \div channels
           w      == 4 * channels
           vector == IF channels = 2 THEN [avx2 |-> 32, neon |-> 16, scalar |-> 0][build] ELSE 0
           n      == IF channels = 2 /\ build # "scalar" THEN per \div 4 ELSE (per + 3) \div 4
           group  == vector \div 4
           groups == IF group = 0 THEN 0 ELSE n \div group
           done   == groups * group
           tail   == [j \in 1 .. (n - done) * w |->
                        DsdScalar(src, per, reverse, swap, done + (j - 1) \div w, (j - 1) % w)]
           whole  == [q \in 1 .. groups |-> DsdVector(build, src, per, vector, reverse, swap, (q - 1) * group)]
           stored == Then(whole, tail)
<1>1. ConvertDSD(build, src, 2, reverse, swap) = Buffer(n, w, group, groups, stored)
  BY DEF ConvertDSD, Convert, Buffer, Then, DsdVector, DsdScalar, DsdSwapped, DsdMask, DsdBits, Join
<1>2. /\ build = "avx2" => group = 8 /\ vector = 32
      /\ build = "neon" => group = 4 /\ vector = 16
      /\ build = "scalar" => group = 0 /\ vector = 0
  OBVIOUS
<1>3. w = 8 /\ per = Len(src) \div 2
  OBVIOUS
<1>4. n = IF build # "scalar" THEN per \div 4 ELSE (per + 3) \div 4
  OBVIOUS
<1>5. groups = IF group = 0 THEN 0 ELSE n \div group
  OBVIOUS
<1>6. Holds(whole, groups)
      /\ \A q \in 1 .. groups : whole[q] = DsdVector(build, src, per, vector, reverse, swap, (q - 1) * group)
  BY DEF Holds
<1>7. done = groups * group
  OBVIOUS
<1>8. \A y \in 1 .. (n - done) * w :
        tail[y] = DsdScalar(src, per, reverse, swap, done + (y - 1) \div w, (y - 1) % w)
  OBVIOUS
<1>9. stored = Then(whole, tail)
  OBVIOUS
<1> HIDE DEF channels, per, w, vector, n, group, groups, done, tail, whole, stored
<1>10. per = perChannel
  <2>1. Len(src) = 8 * total /\ (8 * total) \div 2 = 4 * total
    BY DEF DsdPlanar
  <2>2. QED
    BY <1>3, <2>1 DEF ChannelOf
<1>11. n = total
  <2>1. (4 * total) \div 4 = total /\ (4 * total + 3) \div 4 = total
    OBVIOUS
  <2>2. QED
    BY <1>4, <1>10, <2>1 DEF ChannelOf
<1>12. DsdLoop(build, src, perChannel, vector, total, reverse, swap, group, groups, whole, tail)
  <2>1. groups = IF group = 0 THEN 0 ELSE total \div group
    BY <1>5, <1>11
  <2>2. Holds(whole, groups)
        /\ \A q \in 1 .. groups : whole[q] = DsdVector(build, src, perChannel, vector, reverse, swap, (q - 1) * group)
    BY <1>6, <1>10
  <2>3. \A y \in 1 .. (total - groups * group) * 8 :
          tail[y] = DsdScalar(src, perChannel, reverse, swap, groups * group + (y - 1) \div 8, (y - 1) % 8)
    BY <1>3, <1>7, <1>8, <1>10, <1>11
  <2>4. QED
    BY <1>2, <2>1, <2>2, <2>3 DEF DsdLoop
<1>13. ConvertDSD(build, src, 2, reverse, swap) = Buffer(total, 8, group, groups, Then(whole, tail))
  BY <1>1, <1>3, <1>9, <1>11
<1>14. QED
  BY <1>12, <1>13

\* A planar DSD block of whole groups becomes a group of four bytes per channel, left
\* before right, each group's bytes swapped and their bits reversed as asked for,
\* whatever the build and the length (the four convertDSD functions).
THEOREM DsdIs ==
  ASSUME NEW build \in Builds, NEW src, NEW total \in Nat, DsdPlanar(src, total),
         NEW perChannel \in Nat, ChannelOf(perChannel, total), NEW reverse \in BOOLEAN, NEW swap \in BOOLEAN
  PROVE  ConvertDSD(build, src, 2, reverse, swap) = DsdGroups(src, perChannel, total, reverse, swap)
<1>1. PICK vector, group, groups, whole, tail :
        /\ DsdLoop(build, src, perChannel, vector, total, reverse, swap, group, groups, whole, tail)
        /\ ConvertDSD(build, src, 2, reverse, swap) = Buffer(total, 8, group, groups, Then(whole, tail))
  BY DsdUnfolded
<1>2. /\ build = "avx2" => group = 8 /\ vector = 32
      /\ build = "neon" => group = 4 /\ vector = 16
      /\ build = "scalar" => group = 0 /\ vector = 0
  BY <1>1 DEF DsdLoop
<1>3. groups = IF group = 0 THEN 0 ELSE total \div group
  BY <1>1 DEF DsdLoop
<1>4. PICK done : done = groups * group
  OBVIOUS
<1>5. Holds(whole, groups) /\ \A q \in 1 .. groups : whole[q] = DsdVector(build, src, perChannel, vector, reverse, swap, (q - 1) * group)
  BY <1>1 DEF DsdLoop
<1>6. \A y \in 1 .. (total - done) * 8 : tail[y] = DsdScalar(src, perChannel, reverse, swap, done + (y - 1) \div 8, (y - 1) % 8)
  BY <1>1, <1>4 DEF DsdLoop
<1>7. PICK stored : stored = Then(whole, tail)
  OBVIOUS
<1>8. group \in Nat
  BY <1>2 DEF Builds
<1>9. groups \in Nat /\ done \in Nat /\ done <= total
  BY <1>3, <1>4, <1>8, WholeGroups
<1>10. PICK want : want = DsdGroups(src, perChannel, total, reverse, swap)
  OBVIOUS
<1>10a. AreGroups(want, src, perChannel, total, reverse, swap)
  BY <1>10 DEF AreGroups
<1>11. /\ \A q \in 1 .. groups : stored[q] = DsdVector(build, src, perChannel, vector, reverse, swap, (q - 1) * group)
       /\ stored[groups + 1] = tail
  <2>1. /\ \A q \in 1 .. groups : Then(whole, tail)[q] = whole[q]
        /\ Then(whole, tail)[groups + 1] = tail
    BY <1>5, <1>9, Appended
  <2>2. QED
    BY <1>5, <1>7, <2>1
<1>12. ASSUME NEW q \in 0 .. groups - 1, NEW y \in 1 .. group * 8
       PROVE  stored[q + 1][y] = want[group * 8 * q + y]
  <2>1. stored[q + 1] = DsdVector(build, src, perChannel, vector, reverse, swap, q * group)
    <3>1. q + 1 \in 1 .. groups /\ (q + 1) - 1 = q
      BY <1>9
    <3>2. QED
      BY <1>11, <3>1
  <2>2. PICK a \in Nat, b \in Nat : SampleByte(y, 8, a, b) /\ a < group
    <3>1. y \in Nat /\ Within(y, group, 8)
      BY <1>8 DEF Within
    <3>2. QED
      BY <1>8, <3>1, SampleBytes
  <2>3. PICK s \in Nat : s = q * group + a
    BY <1>8
  <2>4. PICK j \in Nat : j = group * 8 * q + y
    BY <1>8
  <2>5. SampleByte(j, 8, s, b)
    BY <1>8, <2>2, <2>3, <2>4 DEF SampleByte
  <2>6. s < total /\ q * group + group <= total
    <3>1. (q + 1) * group <= groups * group
      BY <1>8, <1>9
    <3>2. QED
      BY <1>4, <1>8, <1>9, <2>2, <2>3, <3>1
  <2>7. want[j] = DsdByte(src, perChannel, reverse, swap, s, b)
    BY <1>10a, <2>5, <2>6, DsdGroupsByte
  <2>8. y = 8 * a + b + 1 /\ b < 8
    BY <2>2 DEF SampleByte
  <2>9. PICK i \in Nat : i = q * group
    BY <1>8
  <2>10. (DsdVector(build, src, perChannel, vector, reverse, swap, i))[y] = DsdByte(src, perChannel, reverse, swap, (i + a), b)
    <3>1. build \in {"avx2", "neon"} /\ (build = "avx2" => vector = 32) /\ (build = "neon" => vector = 16)
      BY <1>2, <2>2 DEF Builds
    <3>2. vector \in Nat /\ vector = 4 * group
      BY <1>2, <3>1
    <3>3. DsdSource(src, perChannel, vector, i)
      <4>1. 2 * perChannel = 8 * total
        BY DEF ChannelOf
      <4>2. 4 * i + vector <= perChannel
        BY <1>8, <2>6, <2>9, <3>2 DEF ChannelOf
      <4>3. QED
        BY <4>1, <4>2 DEF DsdSource, DsdPlanar
    <3>4. InVector(y, a, b, vector)
      BY <1>8, <2>2, <3>2 DEF InVector
    <3>5. PICK v : v = DsdVector(build, src, perChannel, vector, reverse, swap, i)
      OBVIOUS
    <3>6. IsDsdVector(v, build, src, perChannel, vector, reverse, swap, i)
      BY <3>1, <3>2, <3>3, <3>5 DEF IsDsdVector
    <3>7. v[y] = DsdByte(src, perChannel, reverse, swap, i + a, b)
      BY ONLY <3>4, <3>6, DsdVectorByte
    <3>8. QED
      BY <3>5, <3>7
  <2>11. QED
    BY <2>1, <2>3, <2>4, <2>7, <2>9, <2>10
<1>13. ASSUME NEW y \in 1 .. (total - done) * 8
       PROVE  stored[groups + 1][y] = want[done * 8 + y]
  <2>1. PICK m \in Nat : m = total - done
    BY <1>9
  <2>2. PICK a \in Nat, b \in Nat : SampleByte(y, 8, a, b) /\ a < m
    <3>1. y \in Nat /\ Within(y, m, 8)
      BY <2>1 DEF Within
    <3>2. QED
      BY <3>1, SampleBytes
  <2>3. (y - 1) \div 8 = a /\ (y - 1) % 8 = b /\ b < 8
    BY <2>2, SampleByteDivMod DEF SampleByte
  <2>4. PICK s \in Nat, j \in Nat : s = done + a /\ j = done * 8 + y
    BY <1>9
  <2>5. SampleByte(j, 8, s, b) /\ s < total
    BY <1>9, <2>1, <2>2, <2>4 DEF SampleByte
  <2>6. want[j] = DsdByte(src, perChannel, reverse, swap, s, b)
    BY <1>10a, <2>5, DsdGroupsByte
  <2>7. tail[y] = DsdByte(src, perChannel, reverse, swap, s, b)
    <3>1. tail[y] = DsdScalar(src, perChannel, reverse, swap, s, b)
      BY <1>6, <2>3, <2>4
    <3>2. QED
      BY <2>3, <3>1, DsdScalarIs
  <2>8. QED
    BY <1>11, <2>4, <2>6, <2>7
<1>14. Holds(want, total * 8)
  BY <1>10 DEF Holds, DsdGroups
<1>15. Buffer(total, 8, group, groups, stored) = want
  <2>1. Parts(total, 8, group, groups, stored, want)
    BY <1>4, <1>8, <1>9, <1>12, <1>13, <1>14 DEF Parts
  <2>2. QED
    BY <1>8, <1>9, <2>1, BufferIs
<1>16. QED
  BY <1>1, <1>7, <1>10, <1>15

\* The three builds store the same bytes, for any input of any length.
THEOREM BuildsAgree ==
  ASSUME NEW a \in Builds, NEW b \in Builds, NEW src, NEW n \in Nat
  PROVE  /\ convert24BitPacked(a, src, n) = convert24BitPacked(b, src, n)
         /\ convert24BitPackedShifted(a, src, n) = convert24BitPackedShifted(b, src, n)
         /\ convert16To32(a, src, n) = convert16To32(b, src, n)
         /\ convert16To24(a, src, n) = convert16To24(b, src, n)
<1>1. ASSUME NEW build \in Builds
      PROVE  /\ convert24BitPacked(build, src, n) = PackedBytes(src, n, 0)
             /\ convert24BitPackedShifted(build, src, n) = PackedBytes(src, n, 1)
             /\ convert16To32(build, src, n) = Widened32(src, n)
             /\ convert16To24(build, src, n) = Widened24(src, n)
  <2>1. Pack(build, src, n, 0) = PackedBytes(src, n, 0) /\ Pack(build, src, n, 1) = PackedBytes(src, n, 1)
    BY PackIs
  <2>2. convert16To32(build, src, n) = Widened32(src, n)
    BY Widen32Is
  <2>3. convert16To24(build, src, n) = Widened24(src, n)
    BY Widen24Is
  <2>4. QED
    BY <2>1, <2>2, <2>3 DEF convert24BitPacked, convert24BitPackedShifted
<1>2. QED
  BY <1>1

\* ... and so they do of a planar DSD block.
THEOREM DsdBuildsAgree ==
  ASSUME NEW a \in Builds, NEW b \in Builds, NEW total \in Nat, NEW src, DsdPlanar(src, total)
  PROVE  /\ convertDSD_Passthrough(a, src, 2) = convertDSD_Passthrough(b, src, 2)
         /\ convertDSD_BitReverse(a, src, 2) = convertDSD_BitReverse(b, src, 2)
         /\ convertDSD_ByteSwap(a, src, 2) = convertDSD_ByteSwap(b, src, 2)
         /\ convertDSD_BitReverseSwap(a, src, 2) = convertDSD_BitReverseSwap(b, src, 2)
<1>1. PICK perChannel \in Nat : ChannelOf(perChannel, total)
  BY DEF ChannelOf
<1>2. \A reverse, swap \in BOOLEAN :
        ConvertDSD(a, src, 2, reverse, swap) = ConvertDSD(b, src, 2, reverse, swap)
  BY <1>1, DsdIs
<1>3. QED
  BY <1>2 DEF convertDSD_Passthrough, convertDSD_BitReverse, convertDSD_ByteSwap, convertDSD_BitReverseSwap
-----------------------------------------------------------------------------
(* The control: sessions, keys and hints. *)

\* No track is the one that stands for none.
LEMMA NoTrackIsNone == NoTrack \notin Tracks
  BY SendPathAssumption DEF NoTrack

\* A configuration that open() accepts has one of the five ways into the ring.
LEMMA ConfiguredPath ==
  ASSUME NEW t, Configure(t).path # "none"
  PROVE  /\ Configure(t).path \in Paths
         /\ Configure(t).path = "dsd" <=> IsDsd(t)
  BY DEF Configure, Paths, PcmPath

\* sendAudio touches the pack mode in push24BitPacked only.
LEMMA OnlyPackingDetects ==
  ASSUME NEW c, c.path \in Paths, sync.muted \in BOOLEAN,
         NEW t, NEW n, NEW at, NEW frames
  PROVE  LET after == SendAudio(c, t, n, at, frames).s24
         IN after = s24 \/ \E src, m : after = DetectAlignment(src, m)
<1>1. \A src : push(src).s24 = s24
  BY DEF push, Pushed
<1>2. \A src : push16To32(src).s24 = s24 /\ push16To24(src).s24 = s24
  BY DEF push16To32, push16To24, Pushed
<1>3. \A src, reverse, swap : pushDSDPlanar(src, reverse, swap).s24 = s24
  BY DEF pushDSDPlanar, Pushed
<1>4. \A src : \/ push24BitPacked(src).s24 = s24
               \/ \E m : push24BitPacked(src).s24 = DetectAlignment(src, m)
  BY DEF push24BitPacked, Pushed, Nothing
<1>5. Nothing.s24 = s24
  BY DEF Nothing
<1>6. CASE sync.muted
  BY <1>5, <1>6 DEF SendAudio
<1>7. CASE ~sync.muted
  <2>1. CASE c.path = "dsd"
    BY <1>3, <1>7, <2>1 DEF SendAudio
  <2>2. CASE c.path = "pack24"
    BY <1>4, <1>7, <2>2 DEF SendAudio
  <2>3. CASE c.path = "16to32"
    BY <1>2, <1>7, <2>3 DEF SendAudio
  <2>4. CASE c.path = "16to24"
    BY <1>2, <1>7, <2>4 DEF SendAudio
  <2>5. CASE c.path = "copy"
    BY <1>1, <1>7, <2>5 DEF SendAudio
  <2>6. QED
    BY <2>1, <2>2, <2>3, <2>4, <2>5 DEF Paths
<1>8. QED
  BY <1>6, <1>7

\* Detection chooses a mode while there is none, and leaves one that is known.
LEMMA DetectionRespects ==
  ASSUME DOMAIN s24 = {"mode", "deferred"}, s24.mode \in Alignments, NEW src, NEW m
  PROVE  /\ DOMAIN DetectAlignment(src, m) = {"mode", "deferred"}
         /\ DetectAlignment(src, m).mode \in Alignments
         /\ s24.mode = "MsbAligned" => DetectAlignment(src, m).mode = "MsbAligned"
<1>1. detectS24PackMode(src, m) \in {"Deferred", "MsbAligned", "LsbAligned"}
  BY DEF detectS24PackMode
<1>2. QED
  BY <1>1 DEF DetectAlignment, Alignments

\* While a block is in hand the configuration that sendAudio uses is the session's.
LEMMA InForce ==
  ASSUME SessionConfigured, cache.stale \in BOOLEAN
  PROVE  (IF cache.stale THEN sync.conf ELSE cache.conf) = sync.conf
  BY DEF SessionConfigured

\* The pack mode after a call of sendAudio.
LEMMA AttemptRespects ==
  ASSUME ControlInv, InCallback
  PROVE  /\ DOMAIN Attempt.s24 = {"mode", "deferred"}
         /\ Attempt.s24.mode \in Alignments
         /\ s24.mode = "MsbAligned" => Attempt.s24.mode = "MsbAligned"
<1>1. PICK t \in Tracks : ConfiguredFor(t)
  BY DEF ControlInv, SessionConfigured
<1>2. sync.conf.path \in Paths
  BY <1>1, ConfiguredPath DEF ConfiguredFor
<1>3. Attempt = SendAudio(sync.conf, block.track, block.number, block.at, block.left)
  BY InForce DEF Attempt, ControlInv, ControlTypes
<1>4. sync.muted \in BOOLEAN /\ DOMAIN s24 = {"mode", "deferred"} /\ s24.mode \in Alignments
  BY DEF ControlInv, ControlTypes
<1>5. Attempt.s24 = s24 \/ \E src, m : Attempt.s24 = DetectAlignment(src, m)
  BY <1>2, <1>3, <1>4, OnlyPackingDetects
<1>6. QED
  BY <1>4, <1>5, DetectionRespects

\* What a call to open() needs to go on, it has: the format of a session is that of
\* a track it was configured for.
LEMMA OpenConfigures ==
  ASSUME ControlInv, NEW t \in Tracks, NeedsOpen(t), QuickResume(t) \/ Configure(t).path # "none",
         sync' = Opened(t), env' = env
  PROVE  /\ \E u \in Tracks : ConfiguredFor(u)'
         /\ sync'.format = FormatOf(t)
         /\ QuickResume(t) => sync'.conf = sync.conf
<1>1. CASE QuickResume(t)
  <2>1. PICK u \in Tracks : ConfiguredFor(u)
    BY <1>1 DEF QuickResume, ControlInv, SessionConfigured
  <2>2. sync'.conf = sync.conf /\ sync'.format = sync.format
    BY <1>1 DEF QuickResume, Opened
  <2>3. Configure(u)' = Configure(u)
    BY DEF Configure
  <2>4. QED
    BY <1>1, <2>1, <2>2, <2>3 DEF ConfiguredFor, QuickResume
<1>2. CASE ~QuickResume(t)
  <2>1. Configure(t)' = Configure(t)
    BY DEF Configure
  <2>2. QED
    BY <1>2, <2>1 DEF ConfiguredFor, Opened
<1>3. QED
  BY <1>1, <1>2

\* The hint after the callback looked at a track: given for it, or still the one
\* that was given for the same file.
LEMMA HintGiven ==
  ASSUME OneAlignment, NEW t \in Tracks, NEW key, NEW s, NEW h \in BOOLEAN,
         DOMAIN s = {"mode", "deferred"}, s.mode \in Alignments,
         h => \A u \in Tracks : u.bits = 24 /\ u.aligned = "MsbAligned" /\ key = HintKeyOf(u)
                               => s.mode = "MsbAligned",
         GiveHint(t, key, s, h)
  PROVE  /\ DOMAIN s24' = {"mode", "deferred"} /\ s24'.mode \in Alignments
         /\ hinted' \in BOOLEAN
         /\ ~IsDsd(t) => hintKey' = HintKeyOf(t)
         /\ hinted' => \A u \in Tracks : u.bits = 24 /\ u.aligned = "MsbAligned" /\ hintKey' = HintKeyOf(u)
                                       => s24'.mode = "MsbAligned"
<1>1. CASE IsDsd(t) \/ key = HintKeyOf(t)
  BY <1>1 DEF GiveHint
<1>2. CASE ~(IsDsd(t) \/ key = HintKeyOf(t))
  <2>1. /\ hintKey' = HintKeyOf(t) /\ hinted' = TRUE
        /\ s24' = IF t.bits = 24 /\ t.aligned # "Unknown"
                  THEN [s EXCEPT !.mode = t.aligned] ELSE FreshS24
        /\ t.aligned \in Alignments
    BY <1>2, SendPathAssumption DEF GiveHint
  <2>2. DOMAIN s24' = {"mode", "deferred"} /\ s24'.mode \in Alignments
    BY <2>1 DEF FreshS24, Alignments
  <2>3. ASSUME NEW u \in Tracks, u.bits = 24, u.aligned = "MsbAligned", HintKeyOf(t) = HintKeyOf(u)
        PROVE  s24'.mode = "MsbAligned"
    <3>1. t.aligned = u.aligned
      BY <2>3 DEF OneAlignment, HintKeyOf
    <3>2. t.bits = u.bits
      BY <2>3 DEF HintKeyOf, FormatOf
    <3>3. QED
      BY <2>1, <2>3, <3>1, <3>2
  <2>4. QED
    BY <2>1, <2>2, <2>3
<1>3. QED
  BY <1>1, <1>2

LEMMA BeginKeepsControl ==
  ASSUME OneAlignment, ControlInv, Begin
  PROVE  ControlInv'
<1> DEFINE t == play.track
<1>0. t \in Tracks /\ t # NoTrack /\ play.next \in DOMAIN t.blocks /\ env' = env
  <2>1. t \in Tracks /\ t # NoTrack /\ play.next \in Nat \ {0} /\ play.next <= Len(t.blocks)
    BY DEF Begin, BlockReady, ControlInv, ControlTypes
  <2>2. t.blocks \in Seq(BlockKinds)
    BY <2>1, SendPathAssumption
  <2>3. QED
    BY <2>1, <2>2 DEF Begin
<1>1. /\ block' = [track |-> t, number |-> play.next, at |-> 0,
                   left |-> IF IsDsd(t) THEN 1 ELSE Frames, retries |-> 0]
      /\ play' = [play EXCEPT !.next = @ + 1]
      /\ NeedsOpen(t) => QuickResume(t) \/ Configure(t).path # "none"
  BY DEF Begin
<1>2. BlockInTrack' /\ block'.track = t
  BY <1>0, <1>1 DEF BlockInTrack
<1>3. /\ DOMAIN block' = {"track", "number", "at", "left", "retries"}
      /\ block'.track \in Tracks \cup {NoTrack} /\ block'.number \in Nat
      /\ play' \in [track : Tracks \cup {NoTrack}, next : Nat \ {0}]
  BY <1>0, <1>1 DEF ControlInv, ControlTypes
<1>4. CASE NeedsOpen(t)
  <2>1. /\ sync' = Opened(t)
        /\ cache' = [cache EXCEPT !.stale = @ \/ ~QuickResume(t)]
        /\ GiveHint(t, <<>>, FreshS24, FALSE)
    BY <1>4 DEF Begin
  <2>2. /\ \E u \in Tracks : ConfiguredFor(u)'
        /\ sync'.format = FormatOf(t)
        /\ QuickResume(t) => sync'.conf = sync.conf
    BY <1>0, <1>1, <1>4, <2>1, OpenConfigures
  <2>3. /\ DOMAIN s24' = {"mode", "deferred"} /\ s24'.mode \in Alignments
        /\ hinted' \in BOOLEAN
        /\ HintFollowsKey'
    <3>1. DOMAIN FreshS24 = {"mode", "deferred"} /\ FreshS24.mode \in Alignments
      BY DEF FreshS24, Alignments
    <3>2. QED
      BY <1>0, <1>2, <2>1, <3>1, HintGiven DEF HintFollowsKey
  <2>4. SessionConfigured'
    <3>1. ~cache'.stale => cache'.conf = sync'.conf
      BY <2>1, <2>2 DEF ControlInv, ControlTypes, SessionConfigured
    <3>2. QED
      BY <1>2, <2>2, <3>1 DEF SessionConfigured
  <2>5. ControlTypes'
    <3>1. /\ DOMAIN sync' = {"open", "playing", "paused", "muted", "format", "conf"}
          /\ sync'.open = TRUE /\ sync'.playing = TRUE /\ sync'.paused = FALSE /\ sync'.muted = FALSE
      BY <2>1 DEF Opened
    <3>2. DOMAIN cache' = {"conf", "stale"} /\ cache'.stale \in BOOLEAN
      BY <2>1 DEF ControlInv, ControlTypes
    <3>3. env' \in Environments
      BY <1>0 DEF ControlInv, ControlTypes
    <3>4. QED
      BY <1>3, <2>3, <3>1, <3>2, <3>3 DEF ControlTypes
  <2>6. QED
    BY <1>2, <2>3, <2>4, <2>5 DEF ControlInv
<1>5. CASE ~NeedsOpen(t)
  <2>1. GiveHint(t, hintKey, s24, hinted) /\ UNCHANGED <<sync, cache>>
    BY <1>5 DEF Begin
  <2>2. sync.open /\ sync.format = FormatOf(t)
    BY <1>5 DEF NeedsOpen, ControlInv, ControlTypes
  <2>3. /\ DOMAIN s24' = {"mode", "deferred"} /\ s24'.mode \in Alignments
        /\ hinted' \in BOOLEAN
        /\ HintFollowsKey'
    <3>1. /\ DOMAIN s24 = {"mode", "deferred"} /\ s24.mode \in Alignments /\ hinted \in BOOLEAN
          /\ hinted => \A u \in Tracks : u.bits = 24 /\ u.aligned = "MsbAligned" /\ hintKey = HintKeyOf(u)
                                      => s24.mode = "MsbAligned"
      BY DEF ControlInv, ControlTypes, HintFollowsKey
    <3>2. QED
      BY <1>0, <1>2, <2>1, <3>1, HintGiven DEF HintFollowsKey
  <2>4. SessionConfigured'
    <3>1. PICK u \in Tracks : ConfiguredFor(u)
      BY <2>2 DEF ControlInv, SessionConfigured
    <3>2. Configure(u)' = Configure(u)
      BY <1>0 DEF Configure
    <3>3. ConfiguredFor(u)'
      BY <2>1, <3>1, <3>2 DEF ConfiguredFor
    <3>4. QED
      BY <1>2, <2>1, <2>2, <3>3 DEF ControlInv, SessionConfigured
  <2>5. ControlTypes'
    BY <1>0, <1>3, <2>1, <2>3 DEF ControlInv, ControlTypes
  <2>6. QED
    BY <1>2, <2>3, <2>4, <2>5 DEF ControlInv
<1>6. QED
  BY <1>4, <1>5

\* A step that keeps the sink, the block, the hint and the pack mode as they are,
\* and of the session what was negotiated, keeps the control in order.
LEMMA QuietStep ==
  ASSUME ControlInv, ControlTypes',
         UNCHANGED <<env, cache, hintKey, block>>, sync'.format = sync.format, sync'.conf = sync.conf,
         sync'.open => sync.open,
         \/ UNCHANGED <<s24, hinted>> \/ hinted' = FALSE
  PROVE  ControlInv'
<1>1. SessionConfigured'
  <2>1. \A u : ConfiguredFor(u)' <=> ConfiguredFor(u)
    BY DEF ConfiguredFor, Configure
  <2>2. QED
    BY <2>1 DEF ControlInv, SessionConfigured, InCallback
<1>2. BlockInTrack'
  BY DEF ControlInv, BlockInTrack, InCallback
<1>3. HintFollowsKey'
  BY DEF ControlInv, HintFollowsKey, InCallback
<1>4. QED
  BY <1>1, <1>2, <1>3 DEF ControlInv

LEMMA SendSomeKeepsControl ==
  ASSUME ControlInv, InCallback, SendSome
  PROVE  ControlInv'
<1>1. /\ UNCHANGED <<env, play, sync, hintKey, hinted>>
      /\ s24' = Attempt.s24
      /\ cache' = [conf |-> IF cache.stale THEN sync.conf ELSE cache.conf, stale |-> FALSE]
      /\ \E left, at : block' = [block EXCEPT !.at = at, !.left = left, !.retries = 0]
  BY DEF SendSome
<1>2. DOMAIN block = {"track", "number", "at", "left", "retries"}
  BY DEF ControlInv, ControlTypes
<1>3. block'.track = block.track /\ block'.number = block.number
      /\ DOMAIN block' = {"track", "number", "at", "left", "retries"}
  BY <1>1, <1>2
<1>4. cache'.conf = sync.conf
  <2>1. SessionConfigured /\ cache.stale \in BOOLEAN
    BY DEF ControlInv, ControlTypes
  <2>2. QED
    BY <1>1, <2>1, InForce
<1>5. SessionConfigured'
  <2>1. \A u : ConfiguredFor(u)' <=> ConfiguredFor(u)
    BY <1>1 DEF ConfiguredFor, Configure
  <2>2. QED
    BY <1>1, <1>3, <1>4, <2>1 DEF ControlInv, SessionConfigured, InCallback
<1>6. BlockInTrack'
  BY <1>3 DEF ControlInv, BlockInTrack, InCallback
<1>7. /\ DOMAIN s24' = {"mode", "deferred"} /\ s24'.mode \in Alignments
      /\ s24.mode = "MsbAligned" => s24'.mode = "MsbAligned"
  BY <1>1, AttemptRespects
<1>8. HintFollowsKey'
  BY <1>1, <1>3, <1>7 DEF ControlInv, HintFollowsKey, InCallback
<1>9. ControlTypes'
  BY <1>1, <1>3, <1>7 DEF ControlInv, ControlTypes
<1>10. QED
  BY <1>5, <1>6, <1>8, <1>9 DEF ControlInv

\* A call that gives up leaves no block; the next one asks for everything anew.
LEMMA SendGivesUpKeepsControl ==
  ASSUME ControlInv, SendGivesUp
  PROVE  ControlInv'
<1>1. /\ UNCHANGED <<env, sync, cache, s24, hintKey, hinted>>
      /\ block' = [block EXCEPT !.left = 0, !.track = NoTrack]
      /\ play' = [play EXCEPT !.track = NoTrack]
  BY DEF SendGivesUp
<1>2. ~InCallback' /\ DOMAIN block' = {"track", "number", "at", "left", "retries"}
      /\ block'.track = NoTrack /\ block'.number = block.number
  BY <1>1 DEF ControlInv, ControlTypes, InCallback
<1>3. \A u : ConfiguredFor(u)' <=> ConfiguredFor(u)
  BY <1>1 DEF ConfiguredFor, Configure
<1>4. SessionConfigured'
  BY <1>1, <1>2, <1>3 DEF ControlInv, SessionConfigured
<1>5. BlockInTrack' /\ HintFollowsKey'
  BY <1>1, <1>2 DEF ControlInv, BlockInTrack, HintFollowsKey
<1>6. ControlTypes'
  BY <1>1, <1>2 DEF ControlInv, ControlTypes
<1>7. QED
  BY <1>4, <1>5, <1>6 DEF ControlInv

\* A block that has frames left belongs to a callback that runs.
LeftInCallback == block.left > 0 => InCallback

LEMMA LeftMeansCallback ==
  ASSUME LeftInCallback, [Next]_vars, DOMAIN block = {"track", "number", "at", "left", "retries"},
         ControlInv
  PROVE  LeftInCallback'
<1>1. CASE \E t \in Tracks : Start(t)
  BY <1>1 DEF Start, LeftInCallback, InCallback
<1>2. CASE Begin
  BY <1>2, NoTrackIsNone DEF Begin, BlockReady, LeftInCallback, InCallback
<1>3. CASE BeginRefused
  BY <1>3 DEF BeginRefused, LeftInCallback, InCallback
<1>4. CASE SendSome
  <2>1. block.left > 0 /\ block'.track = block.track
    BY <1>4 DEF SendSome
  <2>2. QED
    BY <2>1 DEF LeftInCallback, InCallback
<1>5. CASE SendNothing
  BY <1>5 DEF SendNothing, LeftInCallback, InCallback
<1>6. CASE SendGivesUp
  BY <1>6 DEF SendGivesUp, LeftInCallback, InCallback
<1>7. CASE Pop \/ pausePlayback \/ resumePlayback \/ stopPlayback
  BY <1>7 DEF Pop, pausePlayback, resumePlayback, stopPlayback, LeftInCallback, InCallback
<1>8. CASE UNCHANGED vars
  BY <1>8 DEF vars, LeftInCallback, InCallback
<1>9. QED
  BY <1>1, <1>2, <1>3, <1>4, <1>5, <1>6, <1>7, <1>8 DEF Next, Callback

\* The control stays in order through every step.
LEMMA ControlKept ==
  ASSUME OneAlignment, ControlInv, LeftInCallback, [Next]_vars
  PROVE  ControlInv'
<1> USE DEF ControlTypes
<1>1. ASSUME NEW t \in Tracks, Start(t) PROVE ControlInv'
  <2>1. ControlTypes'
    BY <1>1 DEF Start, ControlInv
  <2>2. QED
    BY <1>1, <2>1, QuietStep DEF Start
<1>2. CASE Begin
  BY <1>2, BeginKeepsControl
<1>3. CASE BeginRefused
  <2>1. ControlTypes'
    BY <1>3 DEF BeginRefused, ControlInv
  <2>2. sync'.format = sync.format /\ sync'.conf = sync.conf /\ ~sync'.open
    BY <1>3 DEF BeginRefused, ControlInv
  <2>3. QED
    BY <1>3, <2>1, <2>2, QuietStep DEF BeginRefused
<1>4. CASE SendSome
  <2>1. InCallback
    BY <1>4 DEF SendSome, LeftInCallback
  <2>2. QED
    BY <1>4, <2>1, SendSomeKeepsControl
<1>5. CASE SendNothing
  <2>1. /\ UNCHANGED <<env, play, sync, cache, s24, hintKey, hinted>>
        /\ block'.track = block.track /\ block'.number = block.number
        /\ DOMAIN block' = DOMAIN block
    BY <1>5 DEF SendNothing, ControlInv
  <2>2. ControlTypes' /\ (InCallback' <=> InCallback)
    BY <2>1 DEF ControlInv, InCallback
  <2>3. \A u : ConfiguredFor(u)' <=> ConfiguredFor(u)
    BY <2>1 DEF ConfiguredFor, Configure
  <2>4. QED
    BY <2>1, <2>2, <2>3 DEF ControlInv, SessionConfigured, BlockInTrack, HintFollowsKey
<1>6. CASE SendGivesUp
  BY <1>6, SendGivesUpKeepsControl
<1>7. CASE Pop
  <2>1. ControlTypes'
    BY <1>7 DEF Pop, ControlInv
  <2>2. QED
    BY <1>7, <2>1, QuietStep DEF Pop
<1>8. CASE pausePlayback
  <2>1. ControlTypes'
    BY <1>8 DEF pausePlayback, ControlInv
  <2>2. sync'.format = sync.format /\ sync'.conf = sync.conf /\ sync'.open = sync.open
    BY <1>8 DEF pausePlayback, ControlInv
  <2>3. QED
    BY <1>8, <2>1, <2>2, QuietStep DEF pausePlayback
<1>9. CASE resumePlayback
  <2>1. ControlTypes'
    BY <1>9 DEF resumePlayback, ControlInv, FreshS24, Alignments
  <2>2. sync'.format = sync.format /\ sync'.conf = sync.conf /\ sync'.open = sync.open
    BY <1>9 DEF resumePlayback, ControlInv
  <2>3. QED
    BY <1>9, <2>1, <2>2, QuietStep DEF resumePlayback
<1>10. CASE stopPlayback
  <2>1. ControlTypes'
    BY <1>10 DEF stopPlayback, ControlInv
  <2>2. sync'.format = sync.format /\ sync'.conf = sync.conf /\ sync'.open = sync.open
    BY <1>10 DEF stopPlayback, ControlInv
  <2>3. QED
    BY <1>10, <2>1, <2>2, QuietStep DEF stopPlayback
<1>11. CASE UNCHANGED vars
  <2>1. ControlTypes'
    BY <1>11 DEF vars, ControlInv
  <2>2. QED
    BY <1>11, <2>1, QuietStep DEF vars
<1>12. QED
  BY <1>1, <1>2, <1>3, <1>4, <1>5, <1>6, <1>7, <1>8, <1>9, <1>10, <1>11 DEF Next, Callback

LEMMA ControlFromStart == Init => ControlInv /\ LeftInCallback
<1> SUFFICES ASSUME Init PROVE ControlInv /\ LeftInCallback
  OBVIOUS
<1>1. ~InCallback /\ LeftInCallback
  BY DEF Init, InCallback, LeftInCallback
<1>2. ControlTypes
  <2>1. /\ DOMAIN sync = {"open", "playing", "paused", "muted", "format", "conf"}
        /\ sync.open = FALSE /\ sync.playing = FALSE /\ sync.paused = FALSE /\ sync.muted = FALSE
    BY DEF Init
  <2>2. /\ DOMAIN cache = {"conf", "stale"} /\ cache.stale \in BOOLEAN
        /\ DOMAIN s24 = {"mode", "deferred"} /\ s24.mode \in Alignments
        /\ hinted \in BOOLEAN /\ env \in Environments
    BY DEF Init, FreshS24, Alignments
  <2>3. /\ DOMAIN block = {"track", "number", "at", "left", "retries"}
        /\ block.track \in Tracks \cup {NoTrack} /\ block.number \in Nat
        /\ play \in [track : Tracks \cup {NoTrack}, next : Nat \ {0}]
    BY DEF Init
  <2>4. QED
    BY <2>1, <2>2, <2>3 DEF ControlTypes
<1>3. QED
  BY <1>1, <1>2 DEF Init, ControlInv, SessionConfigured, BlockInTrack, HintFollowsKey

\* The session and the block in hand have the format of a track, sendAudio's copy of
\* the configuration is the session's unless marked stale, and the alignment follows
\* the key of the last hint: through opens, quick resumes, refusals and pauses.
THEOREM ControlCorrect ==
  ASSUME OneAlignment
  PROVE  Spec => [](ControlInv /\ LeftInCallback)
<1>1. Init => ControlInv /\ LeftInCallback
  BY ControlFromStart
<1>2. ControlInv /\ LeftInCallback /\ [Next]_vars => (ControlInv /\ LeftInCallback)'
  BY ControlKept, LeftMeansCallback DEF ControlInv, ControlTypes
<1>3. QED
  BY <1>1, <1>2, PTL DEF Spec

\* A 24-bit block is packed by what the decoder reported of its track, as long as
\* nobody emptied the ring since: no silence, quiet passage, new track of the same
\* format or reopened session replaces it (the callback's hint, setS24PackModeHint).
THEOREM HintIsKept ==
  ASSUME OneAlignment
  PROVE  Spec => []HintKept
<1>1. ControlInv => HintKept
  <2> SUFFICES ASSUME ControlInv, InCallback, hinted, cache.conf.path = "pack24", ~cache.stale,
                      block.track.bits = 24, block.track.aligned = "MsbAligned"
               PROVE  s24.mode = "MsbAligned"
    BY DEF HintKept
  <2>1. PICK t \in Tracks : ConfiguredFor(t)
    BY DEF ControlInv, SessionConfigured
  <2>2. Configure(t).path = "pack24" /\ FormatOf(block.track) = FormatOf(t)
    BY <2>1 DEF ControlInv, SessionConfigured, ConfiguredFor
  <2>3. ~IsDsd(t)
    BY <2>2, ConfiguredPath
  <2>4. ~IsDsd(block.track)
    BY <2>2, <2>3 DEF FormatOf
  <2>5. block.track \in Tracks
    BY DEF ControlInv, ControlTypes, InCallback
  <2>6. QED
    BY <2>4, <2>5 DEF ControlInv, HintFollowsKey
<1>2. QED
  BY <1>1, ControlCorrect, PTL

-----------------------------------------------------------------------------
(* Bits. *)

\* A nibble's bits in the other order.
LEMMA NibbleBits ==
  ASSUME NEW a \in 0 .. 15
  PROVE  /\ nibble_reverse[a + 1] % 2 = a \div 8
         /\ (nibble_reverse[a + 1] \div 2) % 2 = (a \div 4) % 2
         /\ (nibble_reverse[a + 1] \div 4) % 2 = (a \div 2) % 2
         /\ nibble_reverse[a + 1] \div 8 = a % 2
         /\ nibble_reverse[a + 1] \in 0 .. 15
<1>1. CASE a = 0
  BY <1>1 DEF nibble_reverse
<1>2. CASE a = 1
  BY <1>2 DEF nibble_reverse
<1>3. CASE a = 2
  BY <1>3 DEF nibble_reverse
<1>4. CASE a = 3
  BY <1>4 DEF nibble_reverse
<1>5. CASE a = 4
  BY <1>5 DEF nibble_reverse
<1>6. CASE a = 5
  BY <1>6 DEF nibble_reverse
<1>7. CASE a = 6
  BY <1>7 DEF nibble_reverse
<1>8. CASE a = 7
  BY <1>8 DEF nibble_reverse
<1>9. CASE a = 8
  BY <1>9 DEF nibble_reverse
<1>10. CASE a = 9
  BY <1>10 DEF nibble_reverse
<1>11. CASE a = 10
  BY <1>11 DEF nibble_reverse
<1>12. CASE a = 11
  BY <1>12 DEF nibble_reverse
<1>13. CASE a = 12
  BY <1>13 DEF nibble_reverse
<1>14. CASE a = 13
  BY <1>14 DEF nibble_reverse
<1>15. CASE a = 14
  BY <1>15 DEF nibble_reverse
<1>16. CASE a = 15
  BY <1>16 DEF nibble_reverse
<1>17. QED
  BY <1>1, <1>2, <1>3, <1>4, <1>5, <1>6, <1>7, <1>8, <1>9, <1>10, <1>11, <1>12, <1>13, <1>14, <1>15, <1>16

\* The two nibbles of a byte have its bits.
LEMMA ByteBits ==
  ASSUME NEW x \in 0 .. 255, NEW h \in 0 .. 15, NEW a \in 0 .. 15, x = 16 * h + a
  PROVE  /\ Bit(x, 0) = a % 2 /\ Bit(x, 1) = (a \div 2) % 2
         /\ Bit(x, 2) = (a \div 4) % 2 /\ Bit(x, 3) = a \div 8
         /\ Bit(x, 4) = h % 2 /\ Bit(x, 5) = (h \div 2) % 2
         /\ Bit(x, 6) = (h \div 4) % 2 /\ Bit(x, 7) = h \div 8
<1>1. /\ Bit(x, 0) = (x \div 1) % 2 /\ Bit(x, 1) = (x \div 2) % 2
      /\ Bit(x, 2) = (x \div 4) % 2 /\ Bit(x, 3) = (x \div 8) % 2
      /\ Bit(x, 4) = (x \div 16) % 2 /\ Bit(x, 5) = (x \div 32) % 2
      /\ Bit(x, 6) = (x \div 64) % 2 /\ Bit(x, 7) = (x \div 128) % 2
  BY DEF Bit
<1>2. (x \div 1) % 2 = a % 2 /\ (x \div 2) % 2 = (a \div 2) % 2
  OBVIOUS
<1>3. (x \div 4) % 2 = (a \div 4) % 2 /\ (x \div 8) % 2 = a \div 8
  OBVIOUS
<1>4. x \div 16 = h /\ x \div 32 = h \div 2 /\ x \div 64 = h \div 4 /\ x \div 128 = h \div 8
  OBVIOUS
<1>5. (h \div 8) % 2 = h \div 8
  OBVIOUS
<1>6. QED
  BY <1>1, <1>2, <1>3, <1>4, <1>5

\* The table of the scalar loops, and by SimdReverses and NeonReverses the vector code, puts bit k of
\* every byte at 7 - k (kBitReverseLUT).
THEOREM BitsReversed ==
  ASSUME NEW x \in 0 .. 255, NEW k \in Nat, k < 8
  PROVE  Bit(kBitReverseLUT[x], k) = Bit(x, 7 - k) /\ Bit(kBitReverseLUT[x], 7 - k) = Bit(x, k)
<1>1. PICK h \in 0 .. 15, a \in 0 .. 15 : x = 16 * h + a
  <2>1. x \div 16 \in 0 .. 15 /\ x % 16 \in 0 .. 15 /\ x = 16 * (x \div 16) + (x % 16)
    OBVIOUS
  <2>2. QED
    BY <2>1
<1>2. PICK y \in 0 .. 255 : y = kBitReverseLUT[x]
  BY TableValues
<1>3. PICK g \in 0 .. 15, b \in 0 .. 15 : g = nibble_reverse[a + 1] /\ b = nibble_reverse[h + 1]
  BY NibbleBits
<1>4. y = 16 * g + b
  <2>1. x % 16 = a /\ x \div 16 = h
    BY <1>1
  <2>2. QED
    BY <1>2, <1>3, <2>1, TableValues DEF NibblesReversed
<1>5. /\ Bit(y, 0) = Bit(x, 7) /\ Bit(y, 1) = Bit(x, 6) /\ Bit(y, 2) = Bit(x, 5) /\ Bit(y, 3) = Bit(x, 4)
      /\ Bit(y, 4) = Bit(x, 3) /\ Bit(y, 5) = Bit(x, 2) /\ Bit(y, 6) = Bit(x, 1) /\ Bit(y, 7) = Bit(x, 0)
  <2>1. /\ Bit(x, 0) = a % 2 /\ Bit(x, 1) = (a \div 2) % 2
        /\ Bit(x, 2) = (a \div 4) % 2 /\ Bit(x, 3) = a \div 8
        /\ Bit(x, 4) = h % 2 /\ Bit(x, 5) = (h \div 2) % 2
        /\ Bit(x, 6) = (h \div 4) % 2 /\ Bit(x, 7) = h \div 8
    BY <1>1, ByteBits
  <2>2. /\ Bit(y, 0) = b % 2 /\ Bit(y, 1) = (b \div 2) % 2
        /\ Bit(y, 2) = (b \div 4) % 2 /\ Bit(y, 3) = b \div 8
        /\ Bit(y, 4) = g % 2 /\ Bit(y, 5) = (g \div 2) % 2
        /\ Bit(y, 6) = (g \div 4) % 2 /\ Bit(y, 7) = g \div 8
    BY <1>4, ByteBits
  <2>3. g % 2 = a \div 8 /\ (g \div 2) % 2 = (a \div 4) % 2 /\ (g \div 4) % 2 = (a \div 2) % 2 /\ g \div 8 = a % 2
    BY <1>3, NibbleBits
  <2>4. b % 2 = h \div 8 /\ (b \div 2) % 2 = (h \div 4) % 2 /\ (b \div 4) % 2 = (h \div 2) % 2 /\ b \div 8 = h % 2
    BY <1>3, NibbleBits
  <2>5. QED
    BY ONLY <2>1, <2>2, <2>3, <2>4
<1>6. Bit(y, k) = Bit(x, 7 - k) /\ Bit(y, 7 - k) = Bit(x, k)
  <2>1. k = 0 \/ k = 1 \/ k = 2 \/ k = 3 \/ k = 4 \/ k = 5 \/ k = 6 \/ k = 7
    OBVIOUS
  <2>2. QED
    BY <1>5, <2>1
<1>7. QED
  BY <1>2, <1>6

-----------------------------------------------------------------------------
(* The block that the decoder hands over. *)

LEMMA ContainerIs ==
  ASSUME NEW t
  PROVE  Container(t) \in {2, 4}
  BY DEF Container, InputBps

LEMMA BlockLengthIs ==
  ASSUME NEW t
  PROVE  /\ BlockLength(t) \in Nat
         /\ ~IsDsd(t) => BlockLength(t) = Frames * Channels * Container(t)
         /\ IsDsd(t) => BlockLength(t) = Channels * DsdBytes
<1>1. Frames \in Nat /\ DsdBytes \in Nat
  BY SendPathAssumption
<1>2. CASE IsDsd(t)
  BY <1>1, <1>2 DEF BlockLength, Channels
<1>3. CASE ~IsDsd(t)
  <2>1. BlockLength(t) = Frames * Channels * Container(t)
    BY <1>3 DEF BlockLength
  <2>2. Container(t) = 2 \/ Container(t) = 4
    BY ContainerIs
  <2>3. QED
    BY <1>1, <1>3, <2>1, <2>2 DEF Channels
<1>4. QED
  BY <1>2, <1>3

LEMMA SourceBytes ==
  ASSUME NEW t \in Tracks, NEW n \in DOMAIN t.blocks, NEW i \in Nat
  PROVE  SourceByte(t, n, i) \in 0 .. 255
<1>1. t.blocks \in Seq(BlockKinds)
  BY SendPathAssumption
<1>2. n \in Nat /\ t.blocks[n] \in BlockKinds
  BY <1>1
<1>3. PICK noise \in 0 .. 255 : noise = ((37 * i + 11 * n) % 255) + 1
  <2>1. PICK x \in Nat : x = 37 * i + 11 * n
    BY ONLY i \in Nat, <1>2
  <2>2. x % 255 \in 0 .. 254
    BY ONLY x \in Nat
  <2>3. QED
    BY ONLY <2>1, <2>2
<1>4. SourceByte(t, n, i) \in {0, noise}
  <2>1. CASE IsDsd(t)
    BY <1>3, <2>1 DEF SourceByte
  <2>2. CASE ~IsDsd(t) /\ t.blocks[n] = "silent"
    BY <1>3, <2>2 DEF SourceByte
  <2>3. CASE ~IsDsd(t) /\ t.blocks[n] = "quiet"
    BY <1>3, <2>3 DEF SourceByte
  <2>4. CASE ~IsDsd(t) /\ t.blocks[n] = "loud"
    BY <1>3, <2>4 DEF SourceByte
  <2>5. QED
    BY <1>2, <2>1, <2>2, <2>3, <2>4 DEF BlockKinds
<1>5. QED
  BY <1>3, <1>4

\* What is read from the start of a block, as long as it is, is the block.
IsBlock(src, t, n) ==
  /\ Holds(src, BlockLength(t)) /\ Len(src) = BlockLength(t) /\ IsBytes(src, BlockLength(t))
  /\ \A i \in 1 .. BlockLength(t) : src[i] = SourceByte(t, n, i - 1)

LEMMA WholeBlock ==
  ASSUME NEW t \in Tracks, NEW n \in DOMAIN t.blocks, NEW length, length = BlockLength(t)
  PROVE  IsBlock(ReadFrom(t, n, 0, length), t, n)
<1>1. PICK size \in Nat : size = BlockLength(t)
  BY BlockLengthIs
<1>2. PICK v : v = [i \in 1 .. size |-> SourceByte(t, n, i - 1)]
  OBVIOUS
<1>3. Decoded[t][n] = v
  BY <1>1, <1>2 DEF Decoded
<1>4. SmallerOf(0 + size, size) = size /\ SmallerOf(0, size) = 0
  BY DEF SmallerOf
<1>5. Holds(v, size) /\ Len(v) = size /\ \A i \in 1 .. size : v[i] = SourceByte(t, n, i - 1)
  BY <1>2 DEF Holds
<1>6. PICK rest : rest = [i \in 1 .. size - (size - 0) |-> 255]
  OBVIOUS
<1>7. Holds(rest, 0)
  BY <1>6 DEF Holds
<1>8. PICK part : part = SubSeq(v, 0 + 1, size)
  OBVIOUS
<1>9. Holds(part, size) /\ \A i \in 1 .. size : part[i] = v[i]
  BY <1>5, <1>8 DEF Holds
<1>10. PICK src : src = Join(part, rest)
  OBVIOUS
<1>11. ReadFrom(t, n, 0, length) = src
  BY <1>1, <1>3, <1>4, <1>6, <1>8, <1>10 DEF ReadFrom, Join
<1>12. Holds(src, size) /\ \A i \in 1 .. size : src[i] = part[i]
  <2>1. Holds(src, size + 0) /\ \A i \in 1 .. size : src[i] = part[i]
    BY ONLY size \in Nat, 0 \in Nat, <1>7, <1>9, <1>10, Joined
  <2>2. QED
    BY <2>1
<1>13. \A i \in 1 .. size : src[i] = SourceByte(t, n, i - 1)
  BY <1>5, <1>9, <1>12
<1>14. IsBytes(src, size)
  <2>1. ASSUME NEW i \in 1 .. size PROVE src[i] \in 0 .. 255
    <3>1. i - 1 \in Nat
      OBVIOUS
    <3>2. QED
      BY <1>13, <3>1, SourceBytes
  <2>2. QED
    BY <2>1 DEF IsBytes
<1>15. Len(src) = size
  BY <1>12 DEF Holds
<1>16. QED
  BY <1>1, <1>11, <1>12, <1>13, <1>14, <1>15 DEF IsBlock

-----------------------------------------------------------------------------
(* The pushes, when there is room for all of it. *)

LEMMA AtLeast ==
  ASSUME NEW d \in Nat, d > 0, NEW m \in Nat, NEW s \in Nat, d * m <= s
  PROVE  m <= s \div d
<1>1. PICK q \in Nat, r \in Nat : q = s \div d /\ r < d /\ s = d * q + r
  BY DivModOf
<1>2. SUFFICES ASSUME q < m PROVE FALSE
  BY <1>1
<1>3. PICK e \in Nat : m = q + 1 + e
  BY <1>2
<1>4. d * m = d * q + d + d * e /\ d * e >= 0
  BY <1>3
<1>5. QED
  BY <1>1, <1>4

LEMMA FreeIs ==
  ASSUME avail \in 0 .. RingSize - 1
  PROVE  Free \in Nat /\ StagingSize \in Nat
  BY SendPathAssumption DEF Free

\* m samples are there, and there is room for what becomes of them.
Fits(src, m, in, out) ==
  /\ m \in Nat \ {0} /\ avail \in 0 .. RingSize - 1 /\ env.build \in Builds
  /\ Len(src) = in * m /\ out * m <= StagingSize /\ out * m <= Free

LEMMA SamplesAre ==
  ASSUME NEW in \in Nat \ {0}, NEW out \in Nat \ {0}, NEW src, NEW m \in Nat, Fits(src, m, in, out)
  PROVE  Samples(src, in, out) = m
<1>1. PICK room \in Nat, staging \in Nat : room = Free /\ staging = StagingSize
  BY FreeIs DEF Fits
<1>2. (in * m) \div in = m
  <2>1. (in * m + 0) \div in = m
    BY DivMod
  <2>2. QED
    BY <2>1
<1>3. m <= room \div out /\ m <= staging \div out
  BY <1>1, AtLeast DEF Fits
<1>4. PICK a \in Nat, b \in Nat : a = room \div out /\ b = staging \div out
  BY DivModOf
<1>5. SmallerOf(m, SmallerOf(b, a)) = m
  BY <1>3, <1>4 DEF SmallerOf
<1>6. QED
  BY <1>1, <1>2, <1>4, <1>5 DEF Samples, Fits

LEMMA PackGoes ==
  ASSUME NEW src, NEW m \in Nat, Fits(src, m, 4, 3)
  PROVE  \E first \in {0, 1} : \E s :
           /\ push24BitPacked(src) = Pushed(4, m, PackedBytes(src, m, first), s)
           /\ s = DetectAlignment(src, m)
           /\ Effective(s) = "MsbAligned" => first = 1
<1>1. Samples(src, 4, 3) = m
  BY SamplesAre
<1>2. m # 0 /\ env.build \in Builds
  BY DEF Fits
<1>3. PICK s : s = DetectAlignment(src, m)
  OBVIOUS
<1>4. push24BitPacked(src) = Pushed(4, m, IF Effective(s) = "MsbAligned"
                                          THEN convert24BitPackedShifted(env.build, src, m)
                                          ELSE convert24BitPacked(env.build, src, m), s)
  BY <1>1, <1>2, <1>3 DEF push24BitPacked
<1>5. /\ convert24BitPackedShifted(env.build, src, m) = PackedBytes(src, m, 1)
      /\ convert24BitPacked(env.build, src, m) = PackedBytes(src, m, 0)
  BY <1>2, PackIs DEF convert24BitPackedShifted, convert24BitPacked
<1>6. CASE Effective(s) = "MsbAligned"
  BY <1>3, <1>4, <1>5, <1>6
<1>7. CASE Effective(s) # "MsbAligned"
  BY <1>3, <1>4, <1>5, <1>7
<1>8. QED
  BY <1>6, <1>7

LEMMA Widen32Goes ==
  ASSUME NEW src, NEW m \in Nat, Fits(src, m, 2, 4)
  PROVE  push16To32(src) = Pushed(2, m, Widened32(src, m), s24)
<1>1. Samples(src, 2, 4) = m
  BY SamplesAre
<1>2. convert16To32(env.build, src, m) = Widened32(src, m)
  BY Widen32Is DEF Fits
<1>3. QED
  BY <1>1, <1>2 DEF push16To32

LEMMA Widen24Goes ==
  ASSUME NEW src, NEW m \in Nat, Fits(src, m, 2, 3)
  PROVE  push16To24(src) = Pushed(2, m, Widened24(src, m), s24)
<1>1. Samples(src, 2, 3) = m
  BY SamplesAre
<1>2. convert16To24(env.build, src, m) = Widened24(src, m)
  BY Widen24Is DEF Fits
<1>3. QED
  BY <1>1, <1>2 DEF push16To24

LEMMA WholeOf ==
  ASSUME NEW n \in Nat, NEW v, Holds(v, n)
  PROVE  SubSeq(v, 1, n) = v
  BY DEF Holds

LEMMA CopyGoes ==
  ASSUME NEW src, NEW n \in Nat, Holds(src, n), Fits(src, n, 1, 1)
  PROVE  push(src) = Pushed(1, n, src, s24)
<1>1. Len(src) = n /\ n <= Free /\ Free \in Nat
  BY FreeIs DEF Fits
<1>2. SmallerOf(Len(src), Free) = n
  BY <1>1 DEF SmallerOf
<1>3. SubSeq(src, 1, n) = src
  BY WholeOf
<1>4. QED
  BY <1>2, <1>3 DEF push

LEMMA DsdGoes ==
  ASSUME NEW src, NEW total \in Nat, DsdPlanar(src, total), NEW perChannel \in Nat, ChannelOf(perChannel, total),
         Holds(src, 8 * total), Fits(src, 8 * total, 1, 1),
         NEW reverse \in BOOLEAN, NEW swap \in BOOLEAN
  PROVE  pushDSDPlanar(src, reverse, swap)
           = Pushed(1, 8 * total, DsdGroups(src, perChannel, total, reverse, swap), s24)
<1>1. PICK n \in Nat : n = 8 * total
  OBVIOUS
<1>2. /\ Len(src) = n /\ n <= Free /\ Free \in Nat /\ n <= StagingSize /\ StagingSize \in Nat
      /\ env.build \in Builds
  BY <1>1, FreeIs DEF Fits
<1>3. SmallerOf(Len(src), SmallerOf(StagingSize, Free)) = n
  BY <1>2 DEF SmallerOf
<1>4. ((n \div 2) \div 4) * 4 * 2 = n
  BY <1>1
<1>5. SubSeq(src, 1, n) = src
  BY <1>1, WholeOf
<1>6. PICK out : out = ConvertDSD(env.build, src, 2, reverse, swap)
  OBVIOUS
<1>7. pushDSDPlanar(src, reverse, swap) = Pushed(1, n, out, s24)
  <2>1. CASE reverse /\ swap
    BY <1>3, <1>4, <1>5, <1>6, <2>1 DEF pushDSDPlanar, Channels, convertDSD_BitReverseSwap
  <2>2. CASE reverse /\ ~swap
    BY <1>3, <1>4, <1>5, <1>6, <2>2 DEF pushDSDPlanar, Channels, convertDSD_BitReverse
  <2>3. CASE ~reverse /\ swap
    BY <1>3, <1>4, <1>5, <1>6, <2>3 DEF pushDSDPlanar, Channels, convertDSD_ByteSwap
  <2>4. CASE ~reverse /\ ~swap
    BY <1>3, <1>4, <1>5, <1>6, <2>4 DEF pushDSDPlanar, Channels, convertDSD_Passthrough
  <2>5. QED
    BY <2>1, <2>2, <2>3, <2>4
<1>8. out = DsdGroups(src, perChannel, total, reverse, swap)
  BY <1>2, <1>6, DsdIs
<1>9. QED
  BY <1>1, <1>7, <1>8

-----------------------------------------------------------------------------
(* What comes out of a block, byte by byte. *)

\* m samples of so many bytes are a block of t.
SamplesOf(t, m, width) == m \in Nat /\ Container(t) = width /\ BlockLength(t) = width * m

\* A buffer of samples of a width, and the one that should be on the wire.
BytesOut(out, m, width) == Holds(out, m * width) /\ Len(out) = m * width /\ IsBytes(out, m * width)
PcmOut(out, t, n, m, width) == \A j \in 1 .. m * width : out[j] = WireByte(t, n, j - 1, width)

\* Byte b of sample s on the wire, of samples of so many bytes in the block.
OnWire(t, width, container, j, s, b) ==
  /\ width \in Nat \ {0} /\ j \in Nat /\ s \in Nat /\ b \in Nat
  /\ SampleByte(j, width, s, b) /\ Container(t) = container

LEMMA WireByteIs ==
  ASSUME NEW t, NEW n, NEW width, NEW container, NEW j, NEW s, NEW b, OnWire(t, width, container, j, s, b)
  PROVE  WireByte(t, n, j - 1, width)
           = IF b + container - width < 0 THEN 0 ELSE SourceByte(t, n, s * container + (b + container - width))
<1>1. (j - 1) \div width = s /\ (j - 1) % width = b
  BY SampleByteDivMod DEF OnWire
<1>2. Container(t) = container
  BY DEF OnWire
<1>3. QED
  BY <1>1, <1>2 DEF WireByte

\* It is a zero before the sample, or byte i of the block.
ZeroOnWire(t, n, width, container, j, s, b) ==
  OnWire(t, width, container, j, s, b) /\ container \in Nat /\ b + container < width

ByteOnWire(t, width, container, j, s, b, i) ==
  /\ OnWire(t, width, container, j, s, b) /\ container \in Nat /\ b + container >= width
  /\ i = s * container + (b + container - width)

LEMMA WireZero ==
  ASSUME NEW t, NEW n, NEW width, NEW container, NEW j, NEW s, NEW b, ZeroOnWire(t, n, width, container, j, s, b)
  PROVE  WireByte(t, n, j - 1, width) = 0
<1>1. b + container - width < 0
  BY DEF ZeroOnWire, OnWire
<1>2. QED
  BY <1>1, WireByteIs DEF ZeroOnWire

LEMMA WireSource ==
  ASSUME NEW t, NEW n, NEW width, NEW container, NEW j, NEW s, NEW b, NEW i,
         ByteOnWire(t, width, container, j, s, b, i)
  PROVE  WireByte(t, n, j - 1, width) = SourceByte(t, n, i)
<1>1. ~(b + container - width < 0)
  BY DEF ByteOnWire, OnWire
<1>2. QED
  BY <1>1, WireByteIs DEF ByteOnWire

\* A byte of a sample of the block.
InBlock(src, t, n, m, width, s, b, i) ==
  /\ IsBlock(src, t, n) /\ SamplesOf(t, m, width) /\ width \in Nat
  /\ s \in Nat /\ s < m /\ b \in Nat /\ b < width /\ i \in Nat /\ i = width * s + b

LEMMA BlockByte ==
  ASSUME NEW src, NEW t, NEW n, NEW m, NEW width, NEW s, NEW b, NEW i, InBlock(src, t, n, m, width, s, b, i)
  PROVE  src[i + 1] = SourceByte(t, n, i) /\ src[i + 1] \in 0 .. 255
<1>1. /\ m \in Nat /\ width \in Nat /\ s \in Nat /\ s < m /\ b \in Nat /\ b < width
      /\ i \in Nat /\ i = width * s + b /\ BlockLength(t) = width * m
  BY DEF InBlock, SamplesOf
<1>2. PICK e \in Nat : m = s + 1 + e
  BY <1>1
<1>3. width * m = width * s + width + width * e /\ width * e >= 0 /\ width * s >= 0
  BY <1>1, <1>2
<1>4. i + 1 \in 1 .. BlockLength(t) /\ (i + 1) - 1 = i
  BY <1>1, <1>3
<1>5. QED
  BY <1>4 DEF InBlock, IsBlock, IsBytes

LEMMA PackedOut ==
  ASSUME NEW src, NEW t, NEW n, IsBlock(src, t, n), NEW m \in Nat, SamplesOf(t, m, 4), NEW first \in {0, 1}
  PROVE  /\ BytesOut(PackedBytes(src, m, first), m, 3)
         /\ first = 1 => PcmOut(PackedBytes(src, m, first), t, n, m, 3)
<1>1. PICK out : out = PackedBytes(src, m, first)
  OBVIOUS
<1>2. Holds(out, m * 3) /\ Len(out) = m * 3
  BY <1>1 DEF Holds, PackedBytes
<1>3. ASSUME NEW j \in 1 .. m * 3
      PROVE  out[j] \in 0 .. 255 /\ (first = 1 => out[j] = WireByte(t, n, j - 1, 3))
  <2>0. j \in Nat /\ Within(j, m, 3)
    BY DEF Within
  <2>1. PICK s \in Nat, b \in Nat : SampleByte(j, 3, s, b) /\ s < m
    BY <2>0, SampleBytes
  <2>2. out[j] = src[4 * s + b + first + 1]
    BY <1>1, <2>1, PackedByte
  <2>3. b < 3
    BY <2>1 DEF SampleByte
  <2>4. PICK i \in Nat, p \in Nat : p = b + first /\ p < 4 /\ i = 4 * s + p
    <3>1. b + first \in Nat /\ b + first < 4
      BY ONLY <2>3, b \in Nat, first \in {0, 1}
    <3>2. QED
      BY ONLY <3>1, s \in Nat
  <2>5. src[i + 1] = SourceByte(t, n, i) /\ src[i + 1] \in 0 .. 255
    <3>1. InBlock(src, t, n, m, 4, s, p, i)
      BY <2>1, <2>4 DEF InBlock
    <3>2. QED
      BY <3>1, BlockByte
  <2>6. ASSUME first = 1 PROVE WireByte(t, n, j - 1, 3) = SourceByte(t, n, i)
    <3>1. OnWire(t, 3, 4, j, s, b)
      BY <2>0, <2>1 DEF SamplesOf, OnWire
    <3>2. ByteOnWire(t, 3, 4, j, s, b, i)
      BY <2>4, <2>6, <3>1 DEF ByteOnWire
    <3>3. QED
      BY <3>2, WireSource
  <2>7. QED
    BY <2>2, <2>4, <2>5, <2>6
<1>4. QED
  BY <1>1, <1>2, <1>3 DEF BytesOut, PcmOut, IsBytes

LEMMA Widened32Out ==
  ASSUME NEW src, NEW t, NEW n, IsBlock(src, t, n), NEW m \in Nat, SamplesOf(t, m, 2)
  PROVE  BytesOut(Widened32(src, m), m, 4) /\ PcmOut(Widened32(src, m), t, n, m, 4)
<1>1. PICK out : out = Widened32(src, m)
  OBVIOUS
<1>2. Holds(out, m * 4) /\ Len(out) = m * 4
  BY <1>1 DEF Holds, Widened32
<1>3. ASSUME NEW j \in 1 .. m * 4
      PROVE  out[j] \in 0 .. 255 /\ out[j] = WireByte(t, n, j - 1, 4)
  <2>0. j \in Nat /\ Within(j, m, 4)
    BY DEF Within
  <2>1. PICK s \in Nat, b \in Nat : SampleByte(j, 4, s, b) /\ s < m
    BY <2>0, SampleBytes
  <2>2. out[j] = IF b < 2 THEN 0 ELSE src[2 * s + b - 1]
    BY <1>1, <2>1, Widened32Byte
  <2>3. b < 4 /\ Container(t) = 2
    BY <2>1 DEF SampleByte, SamplesOf
  <2>4. OnWire(t, 4, 2, j, s, b)
    BY <2>0, <2>1, <2>3 DEF OnWire
  <2>5. CASE b < 2
    <3>1. ZeroOnWire(t, n, 4, 2, j, s, b)
      BY <2>4, <2>5 DEF ZeroOnWire
    <3>2. QED
      BY <2>2, <2>5, <3>1, WireZero
  <2>6. CASE b >= 2
    <3>1. PICK i \in Nat, p \in Nat : p = b - 2 /\ p < 2 /\ i = 2 * s + p
      BY <2>3, <2>6
    <3>2. src[i + 1] = SourceByte(t, n, i) /\ src[i + 1] \in 0 .. 255
      <4>1. InBlock(src, t, n, m, 2, s, p, i)
        BY <2>1, <3>1 DEF InBlock
      <4>2. QED
        BY <4>1, BlockByte
    <3>3. WireByte(t, n, j - 1, 4) = SourceByte(t, n, i)
      <4>1. ByteOnWire(t, 4, 2, j, s, b, i)
        BY <2>4, <2>6, <3>1 DEF ByteOnWire
      <4>2. QED
        BY <4>1, WireSource
    <3>4. 2 * s + b - 1 = i + 1
      BY <3>1
    <3>5. out[j] = src[i + 1]
      BY <2>2, <2>6, <3>4
    <3>6. QED
      BY <3>2, <3>3, <3>5
  <2>7. QED
    BY <2>5, <2>6
<1>4. QED
  BY <1>1, <1>2, <1>3 DEF BytesOut, PcmOut, IsBytes

LEMMA Widened24Out ==
  ASSUME NEW src, NEW t, NEW n, IsBlock(src, t, n), NEW m \in Nat, SamplesOf(t, m, 2)
  PROVE  BytesOut(Widened24(src, m), m, 3) /\ PcmOut(Widened24(src, m), t, n, m, 3)
<1>1. PICK out : out = Widened24(src, m)
  OBVIOUS
<1>2. Holds(out, m * 3) /\ Len(out) = m * 3
  BY <1>1 DEF Holds, Widened24
<1>3. ASSUME NEW j \in 1 .. m * 3
      PROVE  out[j] \in 0 .. 255 /\ out[j] = WireByte(t, n, j - 1, 3)
  <2>0. j \in Nat /\ Within(j, m, 3)
    BY DEF Within
  <2>1. PICK s \in Nat, b \in Nat : SampleByte(j, 3, s, b) /\ s < m
    BY <2>0, SampleBytes
  <2>2. out[j] = IF b = 0 THEN 0 ELSE src[2 * s + b]
    BY <1>1, <2>1, Widened24Byte
  <2>3. b < 3 /\ Container(t) = 2
    BY <2>1 DEF SampleByte, SamplesOf
  <2>4. OnWire(t, 3, 2, j, s, b)
    BY <2>0, <2>1, <2>3 DEF OnWire
  <2>5. CASE b = 0
    <3>1. ZeroOnWire(t, n, 3, 2, j, s, b)
      BY <2>4, <2>5 DEF ZeroOnWire
    <3>2. QED
      BY <2>2, <2>5, <3>1, WireZero
  <2>6. CASE b >= 1
    <3>1. PICK i \in Nat, p \in Nat : p = b - 1 /\ p < 2 /\ i = 2 * s + p
      BY <2>3, <2>6
    <3>2. src[i + 1] = SourceByte(t, n, i) /\ src[i + 1] \in 0 .. 255
      <4>1. InBlock(src, t, n, m, 2, s, p, i)
        BY <2>1, <3>1 DEF InBlock
      <4>2. QED
        BY <4>1, BlockByte
    <3>3. WireByte(t, n, j - 1, 3) = SourceByte(t, n, i)
      <4>1. ByteOnWire(t, 3, 2, j, s, b, i)
        BY <2>4, <2>6, <3>1 DEF ByteOnWire
      <4>2. QED
        BY <4>1, WireSource
    <3>4. 2 * s + b = i + 1
      BY <3>1
    <3>5. out[j] = src[i + 1]
      BY <2>2, <2>6, <3>4
    <3>6. QED
      BY <3>2, <3>3, <3>5
  <2>7. QED
    BY <2>5, <2>6
<1>4. QED
  BY <1>1, <1>2, <1>3 DEF BytesOut, PcmOut, IsBytes

LEMMA CopiedOut ==
  ASSUME NEW src, NEW t, NEW n, IsBlock(src, t, n), NEW m \in Nat, NEW width \in {2, 4}, SamplesOf(t, m, width)
  PROVE  BytesOut(src, m, width) /\ PcmOut(src, t, n, m, width)
<1>1. BlockLength(t) = m * width
  BY DEF SamplesOf
<1>2. ASSUME NEW j \in 1 .. m * width
      PROVE  src[j] = WireByte(t, n, j - 1, width)
  <2>0. j \in Nat /\ Within(j, m, width)
    BY DEF Within
  <2>1. PICK s \in Nat, b \in Nat : SampleByte(j, width, s, b) /\ s < m
    BY <2>0, SampleBytes
  <2>2. Container(t) = width /\ b < width /\ j = width * s + b + 1
    BY <2>1 DEF SampleByte, SamplesOf
  <2>3. WireByte(t, n, j - 1, width) = SourceByte(t, n, j - 1)
    <3>1. ByteOnWire(t, width, width, j, s, b, j - 1)
      BY <2>0, <2>1, <2>2 DEF ByteOnWire, OnWire
    <3>2. QED
      BY <3>1, WireSource
  <2>5. src[j] = SourceByte(t, n, j - 1)
    BY <1>1 DEF IsBlock
  <2>6. QED
    BY <2>3, <2>5
<1>3. QED
  BY <1>1, <1>2 DEF BytesOut, PcmOut, IsBlock

\* The DSD block that comes out, and where its bits are: WireBit of SendPath, of any
\* buffer.
WireBitOf(out, layout, c, k) ==
  LET place == (k \div 8) % 4
      byte  == out[4 * (Channels * (k \div 32) + c)
                     + (IF layout \in {"LSB_LITTLE", "MSB_LITTLE"} THEN 3 - place ELSE place) + 1]
  IN Bit(byte, IF layout \in {"MSB_BIG", "MSB_LITTLE"} THEN 7 - (k % 8) ELSE k % 8)

DsdOut(out, t, n, layout) ==
  \A c \in 0 .. Channels - 1 : \A k \in 0 .. ((Len(out) * 8) \div Channels) - 1 :
    WireBitOf(out, layout, c, k) = SourceBit(t, n, c, k)

\* Byte k of a group of the out-going block is byte place of channel c's group.
GroupPlace(swap, k, c, place) ==
  /\ swap \in BOOLEAN /\ k \in Nat /\ k < 8 /\ c \in Nat /\ c < 2 /\ place \in Nat /\ place < 4
  /\ k = 4 * c + (IF swap THEN 3 - place ELSE place)

LEMMA PlaceOfGroup ==
  ASSUME NEW swap \in BOOLEAN, NEW k \in Nat, k < 8
  PROVE  \E c \in Nat, place \in Nat : GroupPlace(swap, k, c, place)
<1>1. PICK c \in Nat, r \in Nat : c < 2 /\ r < 4 /\ k = 4 * c + r
  <2>1. k \div 4 \in Nat /\ k % 4 \in Nat /\ k \div 4 < 2 /\ k % 4 < 4 /\ k = 4 * (k \div 4) + (k % 4)
    OBVIOUS
  <2>2. QED
    BY <2>1
<1>2. CASE swap
  <2>1. 3 - r \in Nat /\ 3 - r < 4 /\ k = 4 * c + (3 - (3 - r))
    BY <1>1
  <2>2. GroupPlace(swap, k, c, 3 - r)
    BY <1>1, <1>2, <2>1 DEF GroupPlace
  <2>3. QED
    BY <1>1, <2>1, <2>2
<1>3. CASE ~swap
  <2>1. GroupPlace(swap, k, c, r)
    BY <1>1, <1>3 DEF GroupPlace
  <2>2. QED
    BY <1>1, <2>1
<1>4. QED
  BY <1>2, <1>3

\* Byte k of group g is byte i + 1 of the planar block.
FromPlanar(perChannel, swap, g, k, c, place, i) ==
  /\ perChannel \in Nat /\ g \in Nat /\ GroupPlace(swap, k, c, place)
  /\ i = c * perChannel + (4 * g + place)

LEMMA DsdByteFrom ==
  ASSUME NEW src, NEW perChannel, NEW reverse, NEW swap, NEW g, NEW k, NEW c, NEW place, NEW i,
         FromPlanar(perChannel, swap, g, k, c, place, i)
  PROVE  DsdByte(src, perChannel, reverse, swap, g, k) = DsdValue(reverse, src[i + 1])
<1>1. /\ swap \in BOOLEAN /\ k \in Nat /\ k < 8 /\ c \in Nat /\ c < 2 /\ place \in Nat /\ place < 4
      /\ k = 4 * c + (IF swap THEN 3 - place ELSE place)
      /\ perChannel \in Nat /\ g \in Nat /\ i = c * perChannel + (4 * g + place)
  BY DEF FromPlanar, GroupPlace
<1>2. CASE c = 0
  <2>1. k < 4 /\ SwapPlace(swap, k) = place
    BY <1>1, <1>2 DEF SwapPlace
  <2>2. 4 * g + SwapPlace(swap, k) + 1 = i + 1
    BY <1>1, <1>2, <2>1
  <2>3. QED
    BY <2>1, <2>2 DEF DsdByte
<1>3. CASE c = 1
  <2>1. ~(k < 4) /\ SwapPlace(swap, k) = place + 4
    BY <1>1, <1>3 DEF SwapPlace
  <2>2. perChannel + 4 * g + SwapPlace(swap, k) - 3 = i + 1
    BY <1>1, <1>3, <2>1
  <2>3. QED
    BY <2>1, <2>2 DEF DsdByte
<1>4. QED
  BY <1>1, <1>2, <1>3

\* A DSD track's block as the pushes take it: perChannel bytes of two channels.
DsdBlock(src, t, n, perChannel, total) ==
  /\ t \in Tracks /\ n \in DOMAIN t.blocks /\ IsBlock(src, t, n)
  /\ total \in Nat /\ perChannel \in Nat /\ perChannel = DsdBytes /\ perChannel = 4 * total
  /\ BlockLength(t) = 8 * total

\* Byte i of the block goes to byte k of group g.
ToGroup(src, t, n, perChannel, total, swap, g, k, c, place, i) ==
  /\ DsdBlock(src, t, n, perChannel, total)
  /\ g \in Nat /\ g < total /\ GroupPlace(swap, k, c, place)
  /\ i = c * DsdBytes + (4 * g + place)

LEMMA DsdByteOf ==
  ASSUME NEW src, NEW t, NEW n, NEW perChannel, NEW total, NEW reverse, NEW swap, NEW g, NEW k, NEW c, NEW place, NEW i,
         ToGroup(src, t, n, perChannel, total, swap, g, k, c, place, i)
  PROVE  /\ SourceByte(t, n, i) \in 0 .. 255
         /\ DsdByte(src, perChannel, reverse, swap, g, k) = DsdValue(reverse, SourceByte(t, n, i))
<1>1. /\ total \in Nat /\ perChannel \in Nat /\ perChannel = DsdBytes /\ perChannel = 4 * total
      /\ BlockLength(t) = 8 * total /\ IsBlock(src, t, n)
      /\ g \in Nat /\ g < total
  BY DEF ToGroup, DsdBlock
<1>2. c \in Nat /\ c < 2 /\ place \in Nat /\ place < 4 /\ GroupPlace(swap, k, c, place)
  BY DEF ToGroup, GroupPlace
<1>3. i \in Nat /\ i = c * perChannel + (4 * g + place)
  BY <1>1, <1>2 DEF ToGroup
<1>4. i + 1 \in 1 .. 8 * total
  <2>1. 4 * g + place < 4 * total
    BY <1>1, <1>2
  <2>2. CASE c = 0
    BY <1>1, <1>2, <1>3, <2>1, <2>2
  <2>3. CASE c = 1
    BY <1>1, <1>2, <1>3, <2>1, <2>3
  <2>4. QED
    BY <1>2, <2>2, <2>3
<1>5. src[i + 1] = SourceByte(t, n, i) /\ src[i + 1] \in 0 .. 255
  <2>1. (i + 1) - 1 = i
    BY ONLY <1>3
  <2>2. PICK p \in 1 .. BlockLength(t) : p = i + 1
    BY <1>1, <1>4
  <2>3. src[p] = SourceByte(t, n, p - 1) /\ src[p] \in 0 .. 255
    BY <1>1 DEF IsBlock, IsBytes
  <2>4. QED
    BY ONLY <2>1, <2>2, <2>3
<1>6. DsdByte(src, perChannel, reverse, swap, g, k) = DsdValue(reverse, src[i + 1])
  <2>1. FromPlanar(perChannel, swap, g, k, c, place, i)
    BY <1>1, <1>2, <1>3 DEF FromPlanar
  <2>2. QED
    BY ONLY <2>1, DsdByteFrom
<1>7. QED
  BY <1>5, <1>6

LEMMA DsdValueIs ==
  ASSUME NEW reverse \in BOOLEAN, NEW x \in 0 .. 255
  PROVE  DsdValue(reverse, x) \in 0 .. 255
  BY TableValues DEF DsdValue

\* Bit r in the order of time, of a byte on the wire and of one in the file.
BitOnWire(layout, y, r) == Bit(y, IF layout \in {"MSB_BIG", "MSB_LITTLE"} THEN 7 - r ELSE r)
BitInFile(source, x, r) == Bit(x, IF source = "DSF" THEN r ELSE 7 - r)

\* The bit order of the layout, on top of the reversal that was chosen for the source.
InOrder(layout, source, x, r, reverse) ==
  /\ layout \in DsdLayouts /\ source \in {"DSF", "DFF"} /\ x \in 0 .. 255 /\ r \in Nat /\ r < 8
  /\ reverse \in BOOLEAN /\ reverse = DsdReverse(layout, source)

LEMMA BitInOrder ==
  ASSUME NEW layout, NEW source, NEW x, NEW r, NEW reverse, InOrder(layout, source, x, r, reverse)
  PROVE  BitOnWire(layout, DsdValue(reverse, x), r) = BitInFile(source, x, r)
<1>0. /\ layout \in DsdLayouts /\ source \in {"DSF", "DFF"} /\ x \in 0 .. 255 /\ r \in Nat /\ r < 8
      /\ reverse \in BOOLEAN /\ reverse = DsdReverse(layout, source)
  BY DEF InOrder
<1>1. Bit(kBitReverseLUT[x], r) = Bit(x, 7 - r) /\ Bit(kBitReverseLUT[x], 7 - r) = Bit(x, r)
  BY <1>0, BitsReversed
<1>2. CASE layout \in {"MSB_BIG", "MSB_LITTLE"}
  <2>1. reverse <=> source = "DSF"
    <3>1. DsdReverse(layout, source) <=> source = "DSF"
      BY <1>2 DEF DsdReverse
    <3>2. QED
      BY ONLY <1>0, <3>1
  <2>2. QED
    BY <1>0, <1>1, <1>2, <2>1 DEF DsdValue, BitOnWire, BitInFile
<1>3. CASE layout \in {"LSB_BIG", "LSB_LITTLE", "DSD1"}
  <2>1. reverse <=> source # "DSF"
    <3>1. DsdReverse(layout, source) <=> source # "DSF"
      BY <1>3 DEF DsdReverse
    <3>2. QED
      BY ONLY <1>0, <3>1
  <2>2. layout \notin {"MSB_BIG", "MSB_LITTLE"}
    BY <1>3
  <2>3. QED
    BY <1>0, <1>1, <2>1, <2>2 DEF DsdValue, BitOnWire, BitInFile
<1>4. QED
  BY <1>0, <1>2, <1>3 DEF DsdLayouts

LEMMA DsdGroupsOut ==
  ASSUME NEW src, NEW t, NEW n, NEW perChannel, NEW total, DsdBlock(src, t, n, perChannel, total),
         NEW layout \in DsdLayouts, NEW source \in {"DSF", "DFF"}
  PROVE  LET out == DsdGroups(src, perChannel, total, DsdReverse(layout, source), DsdSwap(layout))
         IN BytesOut(out, total, 8) /\ (source = t.dsd => DsdOut(out, t, n, layout))
<1>1. PICK reverse \in BOOLEAN, swap \in BOOLEAN : reverse = DsdReverse(layout, source) /\ swap = DsdSwap(layout)
  <2>1. DsdReverse(layout, source) \in BOOLEAN /\ DsdSwap(layout) \in BOOLEAN
    BY DEF DsdReverse, DsdSwap
  <2>2. QED
    BY ONLY <2>1
<1>2. PICK out : out = DsdGroups(src, perChannel, total, reverse, swap)
  OBVIOUS
<1>3. total \in Nat /\ perChannel \in Nat /\ AreGroups(out, src, perChannel, total, reverse, swap)
  BY <1>2 DEF DsdBlock, AreGroups
<1>4. Holds(out, total * 8) /\ Len(out) = total * 8
  BY <1>2, <1>3 DEF Holds, DsdGroups
<1>5. ASSUME NEW j \in 1 .. total * 8
      PROVE  out[j] \in 0 .. 255
  <2>1. PICK s \in Nat, b \in Nat : SampleByte(j, 8, s, b) /\ s < total
    <3>1. j \in Nat /\ Within(j, total, 8)
      BY <1>3 DEF Within
    <3>2. QED
      BY <1>3, <3>1, SampleBytes
  <2>2. out[j] = DsdByte(src, perChannel, reverse, swap, s, b)
    <3>1. j \in Nat
      BY <1>3
    <3>2. QED
      BY <1>3, <2>1, <3>1, DsdGroupsByte
  <2>3. PICK c \in Nat, place \in Nat : GroupPlace(swap, b, c, place)
    BY <2>1, PlaceOfGroup DEF SampleByte
  <2>4. PICK x \in 0 .. 255 : out[j] = DsdValue(reverse, x)
    <3>1. PICK i : i = c * DsdBytes + (4 * s + place)
      OBVIOUS
    <3>2. ToGroup(src, t, n, perChannel, total, swap, s, b, c, place, i)
      BY <2>1, <2>3, <3>1 DEF ToGroup
    <3>3. SourceByte(t, n, i) \in 0 .. 255 /\ out[j] = DsdValue(reverse, SourceByte(t, n, i))
      BY <2>2, <3>2, DsdByteOf
    <3>4. QED
      BY ONLY <3>3
  <2>5. QED
    BY <2>4, DsdValueIs
<1>6. ASSUME source = t.dsd, NEW c \in 0 .. Channels - 1, NEW k \in 0 .. ((Len(out) * 8) \div Channels) - 1
      PROVE  WireBitOf(out, layout, c, k) = SourceBit(t, n, c, k)
  <2>1. c \in Nat /\ c < 2 /\ k \in Nat /\ k < 32 * total
    <3>1. ((total * 8) * 8) \div 2 = 32 * total
      BY <1>3
    <3>2. QED
      BY <1>3, <1>4, <3>1 DEF Channels
  <2>2. PICK g \in Nat, place \in Nat, r \in Nat :
          /\ place < 4 /\ r < 8 /\ g < total
          /\ k \div 32 = g /\ (k \div 8) % 4 = place /\ k % 8 = r /\ k \div 8 = 4 * g + place
    <3>1. /\ k \div 32 \in Nat /\ (k \div 8) % 4 \in Nat /\ k % 8 \in Nat
          /\ (k \div 8) % 4 < 4 /\ k % 8 < 8 /\ k \div 32 < total
          /\ k \div 8 = 4 * (k \div 32) + ((k \div 8) % 4)
      BY <1>3, <2>1
    <3>2. QED
      BY <3>1
  <2>3. PICK q \in Nat : q = 4 * c + (IF swap THEN 3 - place ELSE place)
    BY <2>1, <2>2
  <2>4. GroupPlace(swap, q, c, place)
    BY <1>1, <2>1, <2>2, <2>3 DEF GroupPlace
  <2>5. PICK x \in 0 .. 255 : /\ x = SourceByte(t, n, c * DsdBytes + (4 * g + place))
                              /\ DsdByte(src, perChannel, reverse, swap, g, q) = DsdValue(reverse, x)
    <3>1. PICK i : i = c * DsdBytes + (4 * g + place)
      OBVIOUS
    <3>2. ToGroup(src, t, n, perChannel, total, swap, g, q, c, place, i)
      BY <2>2, <2>4, <3>1 DEF ToGroup
    <3>3. /\ SourceByte(t, n, i) \in 0 .. 255
          /\ DsdByte(src, perChannel, reverse, swap, g, q) = DsdValue(reverse, SourceByte(t, n, i))
      BY <3>2, DsdByteOf
    <3>4. QED
      BY ONLY <3>1, <3>3
  <2>6. PICK j \in Nat : j = 4 * (2 * g + c) + (IF swap THEN 3 - place ELSE place) + 1
    BY <2>1, <2>2
  <2>7. out[j] = DsdValue(reverse, x)
    <3>1. SampleByte(j, 8, g, q)
      BY <2>1, <2>2, <2>3, <2>6 DEF SampleByte
    <3>2. out[j] = DsdByte(src, perChannel, reverse, swap, g, q)
      BY <1>3, <2>2, <2>3, <3>1, DsdGroupsByte
    <3>3. QED
      BY <2>5, <3>2
  <2>8. WireBitOf(out, layout, c, k) = BitOnWire(layout, out[j], r)
    BY <1>1, <2>2, <2>6 DEF WireBitOf, DsdSwap, Channels, BitOnWire
  <2>9. SourceBit(t, n, c, k) = BitInFile(source, x, r)
    BY <1>6, <2>2, <2>5 DEF SourceBit, BitInFile
  <2>10. BitOnWire(layout, DsdValue(reverse, x), r) = BitInFile(source, x, r)
    <3>1. InOrder(layout, source, x, r, reverse)
      BY ONLY layout \in DsdLayouts, source \in {"DSF", "DFF"}, x \in 0 .. 255, r \in Nat,
              reverse \in BOOLEAN, <1>1, <2>2 DEF InOrder
    <3>2. QED
      BY ONLY <3>1, BitInOrder
  <2>11. QED
    BY ONLY <2>7, <2>8, <2>9, <2>10
<1>7. QED
  BY <1>1, <1>2, <1>4, <1>5, <1>6 DEF BytesOut, DsdOut, IsBytes

-----------------------------------------------------------------------------
(* A call of sendAudio with a block that nobody has touched. *)

\* Half a ring is room for what becomes of any block.
LEMMA RoomForBlock ==
  ASSUME BlocksFit, avail \in 0 .. RingSize - 1, 2 * avail <= RingSize
  PROVE  /\ 8 * Frames <= StagingSize /\ 8 * Frames <= Free
         /\ 2 * DsdBytes <= StagingSize /\ 2 * DsdBytes <= Free
<1>1. Frames \in Nat /\ DsdBytes \in Nat /\ RingSize \in Nat
  BY SendPathAssumption
<1>2. /\ 8 * Frames <= StagingSize /\ 2 * (8 * Frames + 1) <= RingSize
      /\ 2 * DsdBytes <= StagingSize /\ 2 * (2 * DsdBytes + 1) <= RingSize
  <2>1. Channels * Frames * 4 = 8 * Frames /\ Channels * DsdBytes = 2 * DsdBytes
    BY <1>1 DEF Channels
  <2>2. QED
    BY <2>1 DEF BlocksFit
<1>3. QED
  BY <1>1, <1>2 DEF Free

\* The four ways of PCM: what the sink's samples and the decoder's have for width.
LEMMA PathWidths ==
  ASSUME NEW bits, NEW t
  PROVE  LET path == PcmPath(t.bits, bits)
             width == DirettaBps(bits)
         IN /\ path \in {"pack24", "16to32", "16to24", "copy"} /\ width \in {2, 3, 4}
            /\ path = "pack24" => width = 3 /\ Container(t) = 4
            /\ path = "16to32" => width = 4 /\ Container(t) = 2
            /\ path = "16to24" => width = 3 /\ Container(t) = 2
            /\ path = "copy" /\ Container(t) <= width => width = Container(t)
<1>1. PICK path, width, container : path = PcmPath(t.bits, bits) /\ width = DirettaBps(bits) /\ container = Container(t)
  OBVIOUS
<1>2. width \in {2, 3, 4} /\ container \in {2, 4}
  BY <1>1, ContainerIs DEF DirettaBps
<1>3. path = CASE width = 3 /\ container = 4 -> "pack24"
               [] width = 4 /\ container = 2 -> "16to32"
               [] width = 3 /\ container = 2 -> "16to24"
               [] OTHER -> "copy"
  BY <1>1 DEF PcmPath, Container
<1>4. QED
  BY <1>1, <1>2, <1>3

\* What a call took and stored: the block, whole, as m samples of a width, and what
\* it knows of the alignment.
Goes(a, t, n, m, width, right) ==
  /\ a.sent = BlockLength(t)
  /\ BytesOut(a.out, m, width)
  /\ right => PcmOut(a.out, t, n, m, width)
  /\ a.s24 = s24 \/ \E src : a.s24 = DetectAlignment(src, m)

\* A configuration that open() made of a track of t's format.
ConfigurationFor(c, t) ==
  \E u \in Tracks : FormatOf(u) = FormatOf(t) /\ c = Configure(u) /\ c.path # "none"

LEMMA PcmConfiguration ==
  ASSUME NEW t, ~IsDsd(t), NEW c, ConfigurationFor(c, t)
  PROVE  c.path = PcmPath(t.bits, c.sink)
<1>1. PICK u \in Tracks : FormatOf(u) = FormatOf(t) /\ c = Configure(u) /\ c.path # "none"
  BY DEF ConfigurationFor
<1>2. u.bits = t.bits /\ ~IsDsd(u)
  BY <1>1 DEF FormatOf
<1>3. PICK bits : bits = configureSinkPCM(env.mode, env.pcm, u.bits)
  OBVIOUS
<1>4. c.path = (IF bits = NoWidth THEN "none" ELSE PcmPath(u.bits, bits)) /\ c.sink = bits
  BY <1>1, <1>2, <1>3 DEF Configure
<1>5. QED
  BY <1>1, <1>2, <1>4

\* A PCM block that can be converted goes through sendAudio whole, and comes out as the sink's samples if the
\* packing knows where the 24 bits are.
LEMMA PcmCall ==
  ASSUME BlocksFit, env \in Environments, avail \in 0 .. RingSize - 1, 2 * avail <= RingSize,
         ~sync.muted, NEW t \in Tracks, NEW n \in DOMAIN t.blocks, ~IsDsd(t), NEW c, ConfigurationFor(c, t),
         c.path = "pack24" \/ Container(t) <= DirettaBps(c.sink), NEW a, a = SendAudio(c, t, n, 0, Frames), NEW m, m = 2 * Frames
  PROVE  Goes(a, t, n, m, DirettaBps(c.sink), c.path = "pack24" => Effective(a.s24) = "MsbAligned")
<1>1. /\ m \in Nat \ {0} /\ 4 * m <= StagingSize /\ 4 * m <= Free /\ Frames \in Nat
      /\ Free \in Nat /\ StagingSize \in Nat
  BY SendPathAssumption, RoomForBlock, FreeIs
<1>2. env.build \in Builds
  BY SendPathAssumption
<1>3. /\ c.path = PcmPath(t.bits, c.sink)
      /\ c.path = "pack24" \/ Container(t) <= DirettaBps(c.sink)
  BY PcmConfiguration
<1>4. /\ c.path \in {"pack24", "16to32", "16to24", "copy"}
      /\ c.path = "pack24" => DirettaBps(c.sink) = 3 /\ Container(t) = 4
      /\ c.path = "16to32" => DirettaBps(c.sink) = 4 /\ Container(t) = 2
      /\ c.path = "16to24" => DirettaBps(c.sink) = 3 /\ Container(t) = 2
      /\ c.path = "copy" => DirettaBps(c.sink) = Container(t)
  BY <1>3, PathWidths
<1>5. PICK width \in {2, 4} : Container(t) = width
  BY ContainerIs
<1>6. SamplesOf(t, m, width) /\ BlockLength(t) = Frames * width * Channels
  BY <1>1, <1>5, BlockLengthIs DEF SamplesOf, Channels
<1>7. PICK src : src = ReadFrom(t, n, 0, Frames * width * Channels)
  OBVIOUS
<1>8. IsBlock(src, t, n) /\ Len(src) = width * m /\ Holds(src, width * m)
  <2>1. IsBlock(src, t, n)
    BY <1>6, <1>7, WholeBlock
  <2>2. QED
    BY <1>6, <2>1 DEF IsBlock, SamplesOf
<1>9. CASE c.path = "pack24"
  <2>1. width = 4 /\ Fits(src, m, 4, 3)
    BY <1>1, <1>2, <1>4, <1>5, <1>8, <1>9 DEF Fits
  <2>2. a = push24BitPacked(src)
    BY <1>7, <1>9, <2>1 DEF SendAudio
  <2>3. PICK first \in {0, 1} :
          \E s : /\ a = Pushed(4, m, PackedBytes(src, m, first), s)
                 /\ s = DetectAlignment(src, m)
                 /\ Effective(s) = "MsbAligned" => first = 1
    BY <1>1, <2>1, <2>2, PackGoes
  <2>4. PICK s : /\ a = Pushed(4, m, PackedBytes(src, m, first), s)
                 /\ s = DetectAlignment(src, m)
                 /\ Effective(s) = "MsbAligned" => first = 1
    BY <2>3
  <2>5. a.sent = 4 * m /\ a.out = PackedBytes(src, m, first) /\ a.s24 = s
    BY <2>4 DEF Pushed
  <2>6. BytesOut(PackedBytes(src, m, first), m, 3) /\ (first = 1 => PcmOut(PackedBytes(src, m, first), t, n, m, 3))
    BY <1>1, <1>6, <1>8, <2>1, PackedOut
  <2>7. QED
    BY <1>4, <1>6, <1>9, <2>1, <2>4, <2>5, <2>6 DEF Goes, SamplesOf
<1>10. CASE c.path = "16to32"
  <2>1. width = 2 /\ Fits(src, m, 2, 4)
    BY <1>1, <1>2, <1>4, <1>5, <1>8, <1>10 DEF Fits
  <2>2. a = push16To32(src)
    BY <1>7, <1>10, <2>1 DEF SendAudio
  <2>3. a.sent = 2 * m /\ a.out = Widened32(src, m) /\ a.s24 = s24
    BY <1>1, <2>1, <2>2, Widen32Goes DEF Pushed
  <2>4. BytesOut(Widened32(src, m), m, 4) /\ PcmOut(Widened32(src, m), t, n, m, 4)
    BY <1>1, <1>6, <1>8, <2>1, Widened32Out
  <2>5. QED
    BY <1>4, <1>6, <1>10, <2>1, <2>3, <2>4 DEF Goes, SamplesOf
<1>11. CASE c.path = "16to24"
  <2>1. width = 2 /\ Fits(src, m, 2, 3)
    BY <1>1, <1>2, <1>4, <1>5, <1>8, <1>11 DEF Fits
  <2>2. a = push16To24(src)
    BY <1>7, <1>11, <2>1 DEF SendAudio
  <2>3. a.sent = 2 * m /\ a.out = Widened24(src, m) /\ a.s24 = s24
    BY <1>1, <2>1, <2>2, Widen24Goes DEF Pushed
  <2>4. BytesOut(Widened24(src, m), m, 3) /\ PcmOut(Widened24(src, m), t, n, m, 3)
    BY <1>1, <1>6, <1>8, <2>1, Widened24Out
  <2>5. QED
    BY <1>4, <1>6, <1>11, <2>1, <2>3, <2>4 DEF Goes, SamplesOf
<1>12. CASE c.path = "copy"
  <2>1. width * m \in Nat \ {0} /\ width * m <= 4 * m
    <3>1. width = 2 \/ width = 4
      OBVIOUS
    <3>2. QED
      BY <1>1, <3>1
  <2>2. PICK length \in Nat \ {0} : length = width * m
    BY <2>1
  <2>3. Fits(src, length, 1, 1)
    BY <1>1, <1>2, <1>8, <2>1, <2>2 DEF Fits
  <2>4. a = push(src)
    BY <1>4, <1>5, <1>7, <1>12 DEF SendAudio
  <2>5. push(src) = Pushed(1, length, src, s24)
    BY <1>8, <2>2, <2>3, CopyGoes
  <2>6. a.sent = length /\ a.out = src /\ a.s24 = s24
    BY <2>2, <2>4, <2>5 DEF Pushed
  <2>7. BytesOut(src, m, width) /\ PcmOut(src, t, n, m, width)
    BY <1>1, <1>6, <1>8, CopiedOut
  <2>8. QED
    BY <1>4, <1>5, <1>6, <1>12, <2>2, <2>6, <2>7 DEF Goes, SamplesOf
<1>13. QED
  BY <1>4, <1>9, <1>10, <1>11, <1>12

\* Some indexes out of five have a least one.
LEMMA FiveHaveLeast ==
  ASSUME NEW S, S # {}, S \subseteq 1 .. 5
  PROVE  \E i \in S : \A j \in S : i <= j
<1>1. CASE 1 \in S
  BY <1>1
<1>2. CASE 1 \notin S /\ 2 \in S
  BY <1>2
<1>3. CASE 1 \notin S /\ 2 \notin S /\ 3 \in S
  BY <1>3
<1>4. CASE 1 \notin S /\ 2 \notin S /\ 3 \notin S /\ 4 \in S
  BY <1>4
<1>5. CASE 1 \notin S /\ 2 \notin S /\ 3 \notin S /\ 4 \notin S
  <2>1. \A j \in S : j = 5
    BY <1>5
  <2>2. PICK i : i \in S
    OBVIOUS
  <2>3. QED
    BY <2>1, <2>2
<1>6. QED
  BY <1>1, <1>2, <1>3, <1>4, <1>5

LEMMA LayoutIs ==
  ASSUME NEW supported, supported \subseteq DsdLayouts, configureSinkDSD(supported) # NoLayout
  PROVE  configureSinkDSD(supported) \in DsdLayouts
<1>1. PICK preferences : preferences = <<"LSB_BIG", "MSB_BIG", "LSB_LITTLE", "MSB_LITTLE", "DSD1">>
  OBVIOUS
<1>2. /\ DOMAIN preferences = 1 .. 5
      /\ \A i \in 1 .. 5 : preferences[i] \in DsdLayouts
  BY <1>1 DEF DsdLayouts
<1>3. configureSinkDSD(supported) = FirstSupported(preferences, supported, NoLayout)
  BY <1>1 DEF configureSinkDSD
<1>4. PICK accepted : accepted = {i \in DOMAIN preferences : preferences[i] \in supported}
  OBVIOUS
<1>5. CASE accepted = {}
  BY <1>3, <1>4, <1>5 DEF FirstSupported
<1>6. CASE accepted # {}
  <2>1. \E i \in accepted : \A j \in accepted : i <= j
    <3>1. accepted \subseteq 1 .. 5
      BY <1>2, <1>4
    <3>2. QED
      BY <1>6, <3>1, FiveHaveLeast
  <2>2. (CHOOSE i \in accepted : \A j \in accepted : i <= j) \in accepted
    BY <2>1
  <2>3. QED
    BY <1>2, <1>3, <1>4, <1>6, <2>2 DEF FirstSupported
<1>7. QED
  BY <1>5, <1>6

\* The same of a DSD block.
GoesDsd(a, t, n, total, layout, right) ==
  /\ a.sent = BlockLength(t) /\ BlockLength(t) = 8 * total
  /\ BytesOut(a.out, total, 8)
  /\ right => DsdOut(a.out, t, n, layout)
  /\ a.s24 = s24

LEMMA DsdCall ==
  ASSUME BlocksFit, env \in Environments, avail \in 0 .. RingSize - 1, 2 * avail <= RingSize,
         ~sync.muted, NEW t \in Tracks, NEW n \in DOMAIN t.blocks, IsDsd(t),
         NEW c, ConfigurationFor(c, t), NEW frames, NEW a, a = SendAudio(c, t, n, 0, frames)
  PROVE  \E total \in Nat \ {0} : GoesDsd(a, t, n, total, c.sink, c.source = t.dsd)
<1>1. PICK perChannel \in Nat \ {0} : perChannel = DsdBytes /\ perChannel % 4 = 0
  BY SendPathAssumption DEF BlocksFit
<1>2. PICK total \in Nat \ {0} : perChannel = 4 * total
  <2>1. perChannel \div 4 \in Nat \ {0} /\ perChannel = 4 * (perChannel \div 4)
    BY <1>1
  <2>2. QED
    BY <2>1
<1>3. PICK u \in Tracks : FormatOf(u) = FormatOf(t) /\ c = Configure(u) /\ c.path # "none"
  BY DEF ConfigurationFor
<1>4. IsDsd(u)
  BY <1>3 DEF FormatOf
<1>5. /\ c.path = "dsd" /\ c.sink \in DsdLayouts /\ c.source \in {"DSF", "DFF"}
      /\ c.reverse = DsdReverse(c.sink, c.source) /\ c.swap = DsdSwap(c.sink)
  <2>1. PICK layout : layout = configureSinkDSD(env.dsd)
    OBVIOUS
  <2>2. c = [path |-> IF layout = NoLayout THEN "none" ELSE "dsd", sink |-> layout, source |-> u.dsd,
             reverse |-> DsdReverse(layout, u.dsd), swap |-> DsdSwap(layout)]
    BY <1>3, <1>4, <2>1 DEF Configure
  <2>3. layout \in DsdLayouts
    <3>1. layout # NoLayout /\ env.dsd \subseteq DsdLayouts
      BY <1>3, <2>2, SendPathAssumption
    <3>2. QED
      BY <2>1, <3>1, LayoutIs
  <2>4. u.dsd \in {"DSF", "DFF"}
    BY <1>4, SendPathAssumption DEF IsDsd, SourceKinds
  <2>5. QED
    BY <1>3, <2>2, <2>3, <2>4
<1>6. PICK src : src = ReadFrom(t, n, 0, Channels * DsdBytes)
  OBVIOUS
<1>7. IsBlock(src, t, n) /\ BlockLength(t) = 8 * total
  <2>1. BlockLength(t) = Channels * DsdBytes
    BY BlockLengthIs
  <2>2. Channels * DsdBytes = 8 * total
    BY <1>1, <1>2 DEF Channels
  <2>3. QED
    BY <1>6, <2>1, <2>2, WholeBlock
<1>8. PICK reverse \in BOOLEAN, swap \in BOOLEAN : c.reverse = reverse /\ c.swap = swap
  <2>1. c.reverse \in BOOLEAN /\ c.swap \in BOOLEAN
    BY <1>5 DEF DsdReverse, DsdSwap
  <2>2. QED
    BY ONLY <2>1
<1>9. a = pushDSDPlanar(src, reverse, swap)
  BY <1>5, <1>6, <1>8 DEF SendAudio
<1>10. pushDSDPlanar(src, reverse, swap) = Pushed(1, 8 * total, DsdGroups(src, perChannel, total, reverse, swap), s24)
  <2>1. DsdPlanar(src, total) /\ Holds(src, 8 * total) /\ Len(src) = 8 * total
    BY <1>7 DEF DsdPlanar, IsBlock
  <2>2. ChannelOf(perChannel, total)
    BY <1>2 DEF ChannelOf
  <2>3. Fits(src, 8 * total, 1, 1)
    <3>1. 8 * total \in Nat \ {0} /\ 8 * total <= StagingSize /\ 8 * total <= Free
      BY <1>1, <1>2, RoomForBlock
    <3>2. env.build \in Builds
      BY SendPathAssumption
    <3>3. PICK m \in Nat \ {0} : m = 8 * total
      BY <3>1
    <3>4. 1 * m = m
      OBVIOUS
    <3>5. Fits(src, m, 1, 1)
      BY <2>1, <3>1, <3>2, <3>3, <3>4 DEF Fits
    <3>6. QED
      BY <3>3, <3>5
  <2>4. QED
    BY <2>1, <2>2, <2>3, DsdGoes
<1>11. PICK out : out = DsdGroups(src, perChannel, total, reverse, swap)
  OBVIOUS
<1>12. BytesOut(out, total, 8) /\ (c.source = t.dsd => DsdOut(out, t, n, c.sink))
  <2>1. DsdBlock(src, t, n, perChannel, total)
    BY <1>1, <1>2, <1>7 DEF DsdBlock
  <2>2. PICK layout \in DsdLayouts, source \in {"DSF", "DFF"} : layout = c.sink /\ source = c.source
    BY <1>5
  <2>3. out = DsdGroups(src, perChannel, total, DsdReverse(layout, source), DsdSwap(layout))
    BY <1>5, <1>8, <1>11, <2>2
  <2>4. BytesOut(out, total, 8) /\ (source = t.dsd => DsdOut(out, t, n, layout))
    BY <2>1, <2>3, DsdGroupsOut
  <2>5. QED
    BY <2>2, <2>4
<1>13. a.sent = 8 * total /\ a.out = out /\ a.s24 = s24
  <2>1. a = Pushed(1, 8 * total, out, s24)
    BY <1>9, <1>10, <1>11
  <2>2. 1 * (8 * total) = 8 * total
    OBVIOUS
  <2>3. QED
    BY <2>1, <2>2 DEF Pushed
<1>14. GoesDsd(a, t, n, total, c.sink, c.source = t.dsd)
  BY <1>7, <1>12, <1>13 DEF GoesDsd
<1>15. QED
  BY <1>14

-----------------------------------------------------------------------------
(* The inductive invariant: a block goes into the ring in one call, or not at all. *)

LEMMA DetectionCounts ==
  ASSUME s24 \in [mode : Alignments, deferred : Nat], NEW src, NEW m \in Nat
  PROVE  DetectAlignment(src, m) \in [mode : Alignments, deferred : Nat]
<1>1. PICK detected \in {"Deferred", "MsbAligned", "LsbAligned"} : detected = detectS24PackMode(src, m)
  BY DEF detectS24PackMode
<1>2. PICK silence \in Nat : silence = s24.deferred + m
  OBVIOUS
<1>3. DetectAlignment(src, m)
        = IF s24.mode \in {"LsbAligned", "MsbAligned"} THEN s24
          ELSE IF detected # "Deferred" THEN [mode |-> detected, deferred |-> 0]
          ELSE [mode |-> IF silence > DeferredTimeout THEN "LsbAligned" ELSE s24.mode, deferred |-> silence]
  BY <1>1, <1>2 DEF DetectAlignment
<1>4. QED
  BY <1>3 DEF Alignments

\* Where a call of the callback finds the block that it sends something of.
BlockInHand(t, n) ==
  /\ t = block.track /\ n = block.number
  /\ t \in Tracks /\ n \in DOMAIN t.blocks /\ ConfigurationFor(sync.conf, t)
  /\ env \in Environments /\ avail \in 0 .. RingSize - 1 /\ 2 * avail <= RingSize
  /\ Attempt = SendAudio(sync.conf, t, n, 0, block.left)
  /\ block.left = IF IsDsd(t) THEN 1 ELSE Frames

LEMMA InHand ==
  ASSUME IInv, block.left > 0, Converts(block.track)
  PROVE  BlockInHand(block.track, block.number)
<1>1. InCallback /\ block.at = 0 /\ 2 * avail <= RingSize
      /\ block.left = IF IsDsd(block.track) THEN 1 ELSE Frames
  BY DEF IInv, BlockUntouched
<1>2. block.track \in Tracks /\ block.number \in DOMAIN block.track.blocks
  BY <1>1 DEF IInv, ControlInv, ControlTypes, BlockInTrack, InCallback
<1>3. SessionConfigured /\ cache.stale \in BOOLEAN /\ env \in Environments /\ avail \in 0 .. RingSize - 1
  BY DEF IInv, TypeOK, ControlInv, ControlTypes
<1>4. Attempt = SendAudio(sync.conf, block.track, block.number, 0, block.left)
  BY <1>1, <1>3, InForce DEF Attempt
<1>5. ConfigurationFor(sync.conf, block.track)
  BY <1>1, <1>3 DEF SessionConfigured, ConfiguredFor, ConfigurationFor
<1>6. QED
  BY <1>1, <1>2, <1>3, <1>4, <1>5 DEF BlockInHand

\* A call that takes something takes it unmuted.
LEMMA TakenUnmuted ==
  ASSUME NEW c, NEW t, NEW n, NEW at, NEW frames, SendAudio(c, t, n, at, frames).sent > 0
  PROVE  ~sync.muted
  BY DEF SendAudio, Nothing

\* The bytes that a block becomes, and what is left of the room for them.
Taken(a, t, right, length) ==
  /\ a.sent = BlockLength(t) /\ FramesLeft(a.sent) = 0
  /\ length \in Nat \ {0} /\ 2 * length + 2 <= RingSize
  /\ a.out \in Seq(0 .. 255) /\ Len(a.out) = length /\ length = WholeLength(t)
  /\ a.s24 \in [mode : Alignments, deferred : Nat]
  /\ right => IF IsDsd(t) THEN DsdOut(a.out, t, block.number, sync.conf.sink)
              ELSE PcmOut(a.out, t, block.number, Frames * Channels, DirettaBps(sync.conf.sink))

\* A buffer of bytes is a sequence of them.
LEMMA BytesAreSequence ==
  ASSUME NEW out, NEW m, NEW width, m * width \in Nat, BytesOut(out, m, width)
  PROVE  out \in Seq(0 .. 255) /\ Len(out) = m * width
<1>1. PICK n \in Nat : n = m * width
  OBVIOUS
<1>2. Holds(out, n) /\ \A j \in 1 .. n : out[j] \in 0 .. 255
  BY <1>1 DEF BytesOut, IsBytes
<1>3. out \in [1 .. n -> 0 .. 255]
  BY ONLY <1>2 DEF Holds
<1>4. out \in Seq(0 .. 255)
  BY ONLY <1>3, n \in Nat
<1>5. QED
  BY <1>4 DEF BytesOut

\* Twice a block and a little more is in the ring.
LEMMA RingForBlock ==
  ASSUME BlocksFit
  PROVE  2 * (8 * Frames + 1) <= RingSize /\ 2 * (2 * DsdBytes + 1) <= RingSize
<1>1. Frames \in Nat /\ DsdBytes \in Nat
  BY SendPathAssumption
<1>2. Channels * Frames * 4 = 8 * Frames /\ Channels * DsdBytes = 2 * DsdBytes
  BY <1>1 DEF Channels
<1>3. QED
  BY <1>2 DEF BlocksFit

LEMMA PcmTaken ==
  ASSUME BlocksFit, IInv, NEW t, NEW n, BlockInHand(t, n), Converts(t), ~sync.muted, ~IsDsd(t)
  PROVE  \E length : Taken(Attempt, t, sync.conf.path = "pack24" => Effective(Attempt.s24) = "MsbAligned", length)
<1>1. PICK frames \in Nat \ {0}, size \in Nat : frames = Frames /\ size = RingSize /\ 2 * (8 * frames + 1) <= size
  BY SendPathAssumption, RingForBlock
<1>2. PICK m \in Nat : m = 2 * Frames
  BY <1>1
<1>3. PICK width \in {2, 3, 4} : width = DirettaBps(sync.conf.sink)
  BY DEF DirettaBps
<1>4. PICK right \in BOOLEAN : right <=> (sync.conf.path = "pack24" => Effective(Attempt.s24) = "MsbAligned")
  OBVIOUS
<1>5. PICK a : a = Attempt
  OBVIOUS
<1>6. Goes(a, t, n, m, width, right)
  <2>1. block.left = Frames
    BY DEF BlockInHand
  <2>2. Goes(a, t, n, m, DirettaBps(sync.conf.sink), sync.conf.path = "pack24" => Effective(a.s24) = "MsbAligned")
    BY <1>2, <1>5, <2>1, PcmCall DEF BlockInHand, Converts
  <2>3. QED
    BY <1>3, <1>4, <1>5, <2>2 DEF Goes
<1>7. PICK length \in Nat \ {0} : length = m * width /\ 2 * length + 2 <= size
  <2>1. width = 2 \/ width = 3 \/ width = 4
    BY ONLY width \in {2, 3, 4}
  <2>2. m = 2 * frames
    BY <1>1, <1>2
  <2>3. QED
    BY ONLY <1>1, <2>1, <2>2, frames \in Nat \ {0}
<1>8. a.out \in Seq(0 .. 255) /\ Len(a.out) = length
  BY <1>6, <1>7, BytesAreSequence DEF Goes
<1>9. length = WholeLength(t)
  <2>1. WholeLength(t) = Frames * Channels * width
    BY <1>3 DEF WholeLength
  <2>2. width = 2 \/ width = 3 \/ width = 4
    BY ONLY width \in {2, 3, 4}
  <2>3. frames * 2 * width = (2 * frames) * width
    BY ONLY <2>2, frames \in Nat \ {0}
  <2>4. QED
    BY <1>1, <1>2, <1>7, <2>1, <2>3 DEF Channels
<1>10. a.s24 \in [mode : Alignments, deferred : Nat]
  <2>1. s24 \in [mode : Alignments, deferred : Nat]
    BY DEF IInv, TypeOK
  <2>2. a.s24 = s24 \/ \E src : a.s24 = DetectAlignment(src, m)
    BY <1>6 DEF Goes
  <2>3. QED
    BY <2>1, <2>2, DetectionCounts
<1>11. a.sent = BlockLength(t) /\ FramesLeft(a.sent) = 0
  <2>1. PICK container \in {2, 4} : container = Container(t)
    BY ContainerIs
  <2>2. a.sent = BlockLength(t) /\ BlockLength(t) = frames * 2 * container
    BY <1>1, <1>6, <2>1, BlockLengthIs DEF Goes, Channels
  <2>3. FramesLeft(a.sent) = frames - (a.sent \div (container * 2))
    BY <1>1, <2>1 DEF FramesLeft, BlockInHand, Channels
  <2>4. (frames * 2 * container) \div (container * 2) = frames
    <3>1. container = 2 \/ container = 4
      BY ONLY container \in {2, 4}
    <3>2. (frames * 2 * 2) \div (2 * 2) = frames /\ (frames * 2 * 4) \div (4 * 2) = frames
      BY ONLY frames \in Nat \ {0}
    <3>3. QED
      BY ONLY <3>1, <3>2
  <2>5. frames - frames = 0
    BY ONLY frames \in Nat \ {0}
  <2>6. QED
    BY <2>2, <2>3, <2>4, <2>5
<1>12. right => PcmOut(a.out, t, block.number, Frames * Channels, DirettaBps(sync.conf.sink))
  <2>1. Frames * Channels = m /\ n = block.number
    BY <1>1, <1>2 DEF Channels, BlockInHand
  <2>2. QED
    BY <1>3, <1>6, <2>1 DEF Goes
<1>13. Taken(a, t, right, length)
  BY <1>1, <1>7, <1>8, <1>9, <1>10, <1>11, <1>12 DEF Taken
<1>14. QED
  BY <1>4, <1>5, <1>13 DEF Taken

LEMMA DsdTaken ==
  ASSUME BlocksFit, IInv, NEW t, NEW n, BlockInHand(t, n), ~sync.muted, IsDsd(t)
  PROVE  \E length : Taken(Attempt, t, sync.conf.source = t.dsd, length)
<1>1. PICK bytes \in Nat \ {0}, size \in Nat : bytes = DsdBytes /\ size = RingSize /\ 2 * (2 * bytes + 1) <= size
  BY SendPathAssumption, RingForBlock
<1>0. PICK right \in BOOLEAN : right <=> sync.conf.source = t.dsd
  OBVIOUS
<1>2. PICK a : a = Attempt
  OBVIOUS
<1>3. PICK total \in Nat \ {0} : GoesDsd(a, t, n, total, sync.conf.sink, right)
  <2>1. PICK total \in Nat \ {0} : GoesDsd(a, t, n, total, sync.conf.sink, sync.conf.source = t.dsd)
    BY <1>2, DsdCall DEF BlockInHand
  <2>2. GoesDsd(a, t, n, total, sync.conf.sink, right)
    BY <1>0, <2>1 DEF GoesDsd
  <2>3. QED
    BY <2>2
<1>4. PICK length \in Nat \ {0} : length = total * 8 /\ length = 2 * bytes
  <2>1. BlockLength(t) = 8 * total /\ BlockLength(t) = 2 * bytes
    BY <1>1, <1>3, BlockLengthIs DEF GoesDsd, Channels
  <2>2. QED
    BY ONLY <2>1, bytes \in Nat \ {0}, total \in Nat \ {0}
<1>5. a.out \in Seq(0 .. 255) /\ Len(a.out) = length
  BY <1>3, <1>4, BytesAreSequence DEF GoesDsd
<1>6. length = WholeLength(t)
  <2>1. WholeLength(t) = BlockLength(t)
    BY DEF WholeLength
  <2>2. QED
    BY <1>1, <1>4, <2>1, BlockLengthIs DEF Channels
<1>7. a.s24 \in [mode : Alignments, deferred : Nat]
  BY <1>3 DEF GoesDsd, IInv, TypeOK
<1>8. a.sent = BlockLength(t) /\ FramesLeft(a.sent) = 0
  BY <1>3 DEF GoesDsd, FramesLeft, BlockInHand
<1>9. 2 * length + 2 <= size
  BY ONLY <1>1, <1>4, bytes \in Nat \ {0}
<1>10. right => DsdOut(a.out, t, block.number, sync.conf.sink)
  BY <1>3 DEF GoesDsd, BlockInHand
<1>11. Taken(a, t, right, length)
  BY <1>1, <1>4, <1>5, <1>6, <1>7, <1>8, <1>9, <1>10 DEF Taken
<1>12. QED
  BY <1>0, <1>2, <1>11 DEF Taken

\* What a call that takes the block leaves behind it.
LEMMA SendSomeTakes ==
  ASSUME BlocksFit, IInv, SendSome, NEW t, NEW n, t = block.track, n = block.number, Converts(t)
  PROVE  /\ BlockInHand(t, n)
         /\ \E length : Taken(Attempt, t, ConversionFits(t)', length)
<1>1. block.left > 0 /\ Attempt.sent > 0 /\ env' = env
      /\ cache' = [conf |-> IF cache.stale THEN sync.conf ELSE cache.conf, stale |-> FALSE]
      /\ s24' = Attempt.s24
  BY DEF SendSome
<1>2. BlockInHand(t, n)
  BY <1>1, InHand
<1>3. ~sync.muted
  BY <1>1, <1>2, TakenUnmuted DEF BlockInHand
<1>4. cache'.conf = sync.conf
  BY <1>1, InForce DEF IInv, ControlInv, ControlTypes
<1>5. PICK u \in Tracks : FormatOf(u) = FormatOf(t) /\ sync.conf = Configure(u) /\ sync.conf.path # "none"
  BY <1>2 DEF BlockInHand, ConfigurationFor
<1>6. (sync.conf.path = "dsd" <=> IsDsd(t)) /\ sync.conf.path \in Paths
  <2>1. IsDsd(u) <=> IsDsd(t)
    BY <1>5 DEF FormatOf
  <2>2. QED
    BY <1>5, <2>1, ConfiguredPath
<1>7. CASE IsDsd(t)
  <2>1. PICK length : Taken(Attempt, t, sync.conf.source = t.dsd, length)
    BY <1>2, <1>3, <1>7, DsdTaken
  <2>2. ConversionFits(t)' => sync.conf.source = t.dsd
    BY <1>4, <1>6, <1>7 DEF ConversionFits
  <2>3. Taken(Attempt, t, ConversionFits(t)', length)
    BY <2>1, <2>2 DEF Taken
  <2>4. QED
    BY <1>2, <2>3
<1>8. CASE ~IsDsd(t)
  <2>1. PICK length : Taken(Attempt, t, sync.conf.path = "pack24" => Effective(Attempt.s24) = "MsbAligned", length)
    BY <1>2, <1>3, <1>8, PcmTaken
  <2>2. Effective(s24)' = Effective(Attempt.s24)
    BY <1>1 DEF Effective
  <2>3. ConversionFits(t)' => (sync.conf.path = "pack24" => Effective(Attempt.s24) = "MsbAligned")
    BY <1>4, <1>6, <1>8, <2>2 DEF ConversionFits
  <2>4. Taken(Attempt, t, ConversionFits(t)', length)
    BY <2>1, <2>3 DEF Taken
  <2>5. QED
    BY <1>2, <2>4
<1>9. QED
  BY <1>7, <1>8

\* It keeps what the ring heard the track's.
LEMMA SendSomeKeepsIInv ==
  ASSUME BlocksFit, IInv, SendSome, ControlInv', Converts(block.track)
  PROVE  IInv'
<1>1. PICK t, n : t = block.track /\ n = block.number
  OBVIOUS
<1>2. PICK length : BlockInHand(t, n) /\ Taken(Attempt, t, ConversionFits(t)', length)
  BY <1>1, SendSomeTakes
<1>3. PICK a : a = Attempt
  OBVIOUS
<1>4. /\ UNCHANGED <<env, play, sync, hintKey, from, hinted>>
      /\ block' = [block EXCEPT !.at = @ + a.sent, !.left = FramesLeft(a.sent), !.retries = 0]
      /\ heard' = heard \o a.out /\ avail' = avail + Len(a.out) /\ s24' = a.s24
      /\ cache'.stale = FALSE
  BY <1>3 DEF SendSome
<1>5. /\ a.sent = BlockLength(t) /\ FramesLeft(a.sent) = 0
      /\ length \in Nat \ {0} /\ 2 * length + 2 <= RingSize
      /\ a.out \in Seq(0 .. 255) /\ Len(a.out) = length /\ length = WholeLength(t)
      /\ a.s24 \in [mode : Alignments, deferred : Nat]
      /\ ConversionFits(t)' => IF IsDsd(t) THEN DsdOut(a.out, t, n, sync.conf.sink)
                                ELSE PcmOut(a.out, t, n, Frames * Channels, DirettaBps(sync.conf.sink))
  BY <1>1, <1>2, <1>3 DEF Taken
<1>6. block.at = 0 /\ heard = <<>> /\ from = 0 /\ InCallback
  <2>1. block.left > 0
    BY DEF SendSome
  <2>2. QED
    BY <2>1 DEF IInv, BlockUntouched
<1>7. /\ block \in [track : Tracks \cup {NoTrack}, number : Nat, at : Nat,
                    left : 0 .. Frames, retries : 0 .. MaxRetries - 1]
      /\ MaxRetries \in Nat \ {0} /\ Frames \in Nat
  BY SendPathAssumption DEF IInv, TypeOK
<1>8. block'.track = t /\ block'.number = n /\ block'.left = 0
  BY <1>1, <1>4, <1>5, <1>7
<1>9. heard' = a.out
  BY <1>4, <1>5, <1>6
<1>10. TypeOK'
  <2>1. block' \in [track : Tracks \cup {NoTrack}, number : Nat, at : Nat,
                    left : 0 .. Frames, retries : 0 .. MaxRetries - 1]
    <3>1. BlockLength(t) \in Nat
      BY BlockLengthIs
    <3>2. PICK size \in Nat, frames \in Nat, retries \in Nat \ {0} :
            size = BlockLength(t) /\ frames = Frames /\ retries = MaxRetries
      BY <1>7, <3>1
    <3>3. block' = [block EXCEPT !.at = size, !.left = 0, !.retries = 0]
      <4>1. block.at + a.sent = size
        BY ONLY <1>5, <1>6, <3>2, size \in Nat
      <4>2. QED
        BY ONLY <1>4, <1>5, <4>1
    <3>4. 0 \in 0 .. frames /\ 0 \in 0 .. retries - 1
      BY ONLY frames \in Nat, retries \in Nat \ {0}
    <3>5. QED
      BY <1>7, <3>2, <3>3, <3>4
  <2>2. avail' \in 0 .. RingSize - 1
    <3>1. PICK ring \in Nat, before \in Nat : ring = RingSize /\ before = avail /\ 2 * before <= ring
      BY <1>2, SendPathAssumption DEF BlockInHand
    <3>2. before + length \in 0 .. ring - 1
      BY ONLY <1>5, <3>1, ring = RingSize, ring \in Nat, before \in Nat
    <3>3. QED
      BY <1>4, <1>5, <3>1, <3>2
  <2>3. ControlTypes'
    BY DEF ControlInv
  <2>4. s24' \in [mode : Alignments, deferred : Nat] /\ heard' \in Seq(0 .. 255) /\ from' \in Nat
    BY <1>4, <1>5, <1>6, <1>9
  <2>5. QED
    BY <2>1, <2>2, <2>3, <2>4 DEF TypeOK
<1>11. BlockUntouched'
  BY <1>4, <1>6, <1>8 DEF BlockUntouched
<1>12. SinkHearsTrack'
  <2>1. Len(heard') = WholeLength(t)'
    BY <1>4, <1>5, <1>9 DEF WholeLength
  <2>2. ASSUME ConversionFits(t)', IsDsd(t) PROVE DsdHeard(t, n, sync.conf.sink)'
    <3>1. DsdOut(a.out, t, n, sync.conf.sink)
      BY <1>5, <2>2
    <3>2. \A c, k : WireBit(sync.conf.sink, c, k)' = WireBitOf(a.out, sync.conf.sink, c, k)
      BY <1>4, <1>9 DEF WireBit, WireBitOf
    <3>3. QED
      BY <1>4, <1>9, <3>1, <3>2 DEF DsdHeard, DsdOut
  <2>3. ASSUME ConversionFits(t)', ~IsDsd(t) PROVE PcmHeard(t, n, DirettaBps(sync.conf.sink))'
    <3>1. PICK width \in {2, 3, 4} : width = DirettaBps(sync.conf.sink) /\ width = DirettaBps(sync.conf.sink)'
      BY <1>4 DEF DirettaBps
    <3>2. length = Frames * Channels * width
      BY <1>5, <2>3, <3>1 DEF WholeLength
    <3>3. \A j \in 1 .. length : a.out[j] = WireByte(t, n, j - 1, width)
      BY <1>5, <2>3, <3>1, <3>2 DEF PcmOut
    <3>4. \A j \in 1 .. length : (from' \div Container(t)) * width + j - 1 = j - 1
      <4>1. Container(t) = 2 \/ Container(t) = 4
        BY ContainerIs
      <4>2. from' \div Container(t) = 0
        BY <1>4, <1>6, <4>1
      <4>3. QED
        BY ONLY <4>2, width \in {2, 3, 4}, <1>5
    <3>5. QED
      BY <1>5, <1>9, <3>1, <3>3, <3>4 DEF PcmHeard
  <2>4. QED
    BY <1>2, <1>8, <2>1, <2>2, <2>3 DEF SinkHearsTrack
<1>13. QED
  BY <1>10, <1>11, <1>12 DEF IInv

\* What lies behind a pointer into the block, or behind the block, is as many bytes as
\* are asked for.
LEMMA ReadBytes ==
  ASSUME NEW t \in Tracks, NEW n \in DOMAIN t.blocks, NEW at \in Nat, NEW length \in Nat
  PROVE  ReadFrom(t, n, at, length) \in Seq(0 .. 255) /\ Len(ReadFrom(t, n, at, length)) = length
<1>1. PICK size \in Nat : size = BlockLength(t)
  BY BlockLengthIs
<1>2. PICK v : v = [i \in 1 .. size |-> SourceByte(t, n, i - 1)]
  OBVIOUS
<1>3. Decoded[t][n] = v
  BY <1>1, <1>2 DEF Decoded
<1>4. v \in Seq(0 .. 255) /\ Len(v) = size
  <2>1. \A i \in 1 .. size : SourceByte(t, n, i - 1) \in 0 .. 255
    <3> SUFFICES ASSUME NEW i \in 1 .. size PROVE SourceByte(t, n, i - 1) \in 0 .. 255
      OBVIOUS
    <3>1. i - 1 \in Nat
      OBVIOUS
    <3>2. QED
      BY <3>1, SourceBytes
  <2>2. v \in [1 .. size -> 0 .. 255]
    BY <1>2, <2>1
  <2>3. QED
    BY ONLY <2>2, size \in Nat
<1>5. PICK inside \in Nat : /\ inside = SmallerOf(at + length, size)
                            /\ inside <= size /\ inside <= at + length
                            /\ at <= size => at <= inside
                            /\ at > size => inside = size
  BY DEF SmallerOf
<1>6. PICK start \in Nat : /\ start = SmallerOf(at, inside) /\ start <= inside
                           /\ at <= size => start = at
                           /\ at > size => start = inside
  BY <1>5 DEF SmallerOf
<1>7. PICK part : part = SubSeq(v, at + 1, inside)
  OBVIOUS
<1>8. part \in Seq(0 .. 255) /\ Len(part) = inside - start
  <2>1. \A i \in at + 1 .. inside : v[i] \in 0 .. 255
    <3>1. \A i \in at + 1 .. inside : i \in 1 .. Len(v)
      BY <1>4, <1>5
    <3>2. QED
      BY <1>4, <3>1, ElementOfSeq
  <2>2. /\ part \in Seq(0 .. 255)
        /\ Len(part) = IF at + 1 <= inside THEN inside - (at + 1) + 1 ELSE 0
    BY <1>7, <2>1, SubSeqProperties
  <2>3. CASE at <= size
    BY <1>5, <1>6, <2>2, <2>3
  <2>4. CASE at > size
    BY <1>5, <1>6, <2>2, <2>4
  <2>5. QED
    BY <2>3, <2>4
<1>9. PICK rest : rest = [i \in 1 .. length - (inside - start) |-> 255]
  OBVIOUS
<1>10. rest \in Seq(0 .. 255) /\ Len(rest) = length - (inside - start)
  <2>1. length - (inside - start) \in Nat
    BY <1>5, <1>6
  <2>2. QED
    BY ONLY <1>9, <2>1
<1>11. ReadFrom(t, n, at, length) = part \o rest
  BY <1>1, <1>3, <1>5, <1>6, <1>7, <1>9 DEF ReadFrom
<1>12. part \o rest \in Seq(0 .. 255) /\ Len(part \o rest) = Len(part) + Len(rest)
  BY <1>8, <1>10, ConcatProperties
<1>13. QED
  BY <1>5, <1>6, <1>8, <1>10, <1>11, <1>12

\* Without a conversion what is left of the block is copied, in frames of two bytes a
\* sample, as far as the ring has room.
LEMMA Copied ==
  ASSUME IInv, SendSome, ~Converts(block.track)
  PROVE  /\ sync.conf.path = "copy" /\ ~IsDsd(block.track)
         /\ DirettaBps(sync.conf.sink) < Container(block.track)
         /\ \E m \in Nat : /\ m <= Free /\ m <= 4 * block.left
                           /\ Attempt.sent = m /\ Attempt.s24 = s24
                           /\ Attempt.out \in Seq(0 .. 255) /\ Len(Attempt.out) = m
<1>1. PICK t, n, c : t = block.track /\ n = block.number /\ c = sync.conf
  OBVIOUS
<1>2. block.left > 0 /\ Attempt.sent > 0
  BY DEF SendSome
<1>3. t \in Tracks /\ n \in DOMAIN t.blocks /\ InCallback
  BY <1>1, <1>2 DEF IInv, BlockUntouched, ControlInv, ControlTypes, BlockInTrack, InCallback
<1>4. SessionConfigured /\ cache.stale \in BOOLEAN
  BY DEF IInv, ControlInv, ControlTypes
<1>5. Attempt = SendAudio(c, t, n, block.at, block.left)
  BY <1>1, <1>4, InForce DEF Attempt
<1>6. ConfigurationFor(c, t)
  BY <1>1, <1>3, <1>4 DEF SessionConfigured, ConfiguredFor, ConfigurationFor
<1>7. ~IsDsd(t) /\ c.path # "pack24" /\ ~(Container(t) <= DirettaBps(c.sink))
  BY <1>1 DEF Converts
<1>8. c.path = PcmPath(t.bits, c.sink) /\ Container(t) = InputBps(t.bits)
  BY <1>6, <1>7, PcmConfiguration DEF Container
<1>9. c.path = "copy" /\ DirettaBps(c.sink) = 2 /\ Container(t) = 4
  <2>1. DirettaBps(c.sink) \in {2, 3, 4} /\ InputBps(t.bits) \in {2, 4}
    BY DEF DirettaBps, InputBps
  <2>2. DirettaBps(c.sink) # 3 \/ InputBps(t.bits) # 4
    BY <1>7, <1>8 DEF PcmPath
  <2>3. DirettaBps(c.sink) = 2 /\ InputBps(t.bits) = 4
    BY <1>7, <1>8, <2>1, <2>2
  <2>4. QED
    BY <1>8, <2>3 DEF PcmPath
<1>10. PICK left \in Nat, at \in Nat : left = block.left /\ at = block.at
  <2>1. Frames \in Nat
    BY SendPathAssumption
  <2>2. QED
    BY <2>1 DEF IInv, TypeOK
<1>11. PICK src : src = ReadFrom(t, n, at, left * 2 * Channels)
  OBVIOUS
<1>12. src \in Seq(0 .. 255) /\ Len(src) = 4 * left
  <2>1. left * 2 * Channels \in Nat /\ left * 2 * Channels = 4 * left
    BY DEF Channels
  <2>2. QED
    BY <1>3, <1>11, <2>1, ReadBytes
<1>13. Attempt = push(src)
  <2>1. ~sync.muted
    BY <1>2, <1>5, TakenUnmuted
  <2>2. QED
    BY <1>5, <1>9, <1>10, <1>11, <2>1 DEF SendAudio
<1>14. PICK m \in Nat : m = SmallerOf(Len(src), Free) /\ m <= Free /\ m <= Len(src)
  <2>1. Free \in Nat
    BY FreeIs DEF IInv, TypeOK
  <2>2. QED
    BY <1>12, <2>1 DEF SmallerOf
<1>15. SubSeq(src, 1, m) \in Seq(0 .. 255) /\ Len(SubSeq(src, 1, m)) = m
  <2>1. \A i \in 1 .. m : src[i] \in 0 .. 255
    <3>1. \A i \in 1 .. m : i \in 1 .. Len(src)
      BY <1>12, <1>14
    <3>2. QED
      BY <1>12, <3>1, ElementOfSeq
  <2>2. /\ SubSeq(src, 1, m) \in Seq(0 .. 255)
        /\ Len(SubSeq(src, 1, m)) = IF 1 <= m THEN m - 1 + 1 ELSE 0
    BY <2>1, SubSeqProperties
  <2>3. QED
    BY <2>2
<1>16. Attempt.sent = m /\ Attempt.out = SubSeq(src, 1, m) /\ Attempt.s24 = s24
  BY <1>13, <1>14 DEF push, Pushed
<1>17. QED
  BY <1>1, <1>7, <1>9, <1>10, <1>12, <1>14, <1>15, <1>16

\* The ring then has bytes of which nothing is claimed.
LEMMA CopiedKeepsIInv ==
  ASSUME IInv, SendSome, ControlInv', ~Converts(block.track)
  PROVE  IInv'
<1>1. PICK t, a : t = block.track /\ a = Attempt
  OBVIOUS
<1>2. PICK m \in Nat : /\ m <= Free /\ m <= 4 * block.left
                       /\ a.sent = m /\ a.s24 = s24 /\ a.out \in Seq(0 .. 255) /\ Len(a.out) = m
  BY <1>1, Copied
<1>3. /\ UNCHANGED <<env, play, sync, hintKey, from, hinted>>
      /\ block' = [block EXCEPT !.at = @ + m, !.left = FramesLeft(m), !.retries = 0]
      /\ heard' = heard \o a.out /\ avail' = avail + m /\ s24' = s24
      /\ cache' = [conf |-> IF cache.stale THEN sync.conf ELSE cache.conf, stale |-> FALSE]
      /\ block.left > 0
  BY <1>1, <1>2 DEF SendSome
<1>4. /\ block \in [track : Tracks \cup {NoTrack}, number : Nat, at : Nat,
                    left : 0 .. Frames, retries : 0 .. MaxRetries - 1]
      /\ avail \in 0 .. RingSize - 1 /\ MaxRetries \in Nat \ {0} /\ Frames \in Nat /\ RingSize \in Nat
  BY SendPathAssumption DEF IInv, TypeOK
<1>5. PICK left \in 0 .. Frames : left = FramesLeft(m)
  <2>1. FramesLeft(m) = block.left - (m \div (Container(t) * 2))
    BY <1>1, Copied DEF FramesLeft, Channels
  <2>2. PICK container \in {2, 4} : container = Container(t)
    BY ContainerIs
  <2>3. PICK b \in 0 .. Frames : b = block.left
    BY <1>4
  <2>4. m \div 4 \in 0 .. b /\ m \div 8 \in 0 .. b
    BY <1>2, <1>4, <2>3
  <2>5. container = 2 \/ container = 4
    BY ONLY container \in {2, 4}
  <2>6. m \div (container * 2) \in 0 .. b
    BY <2>4, <2>5
  <2>7. QED
    BY <1>4, <2>1, <2>2, <2>3, <2>6
<1>6. block' \in [track : Tracks \cup {NoTrack}, number : Nat, at : Nat,
                  left : 0 .. Frames, retries : 0 .. MaxRetries - 1]
      /\ block'.track = t /\ block'.number = block.number
  <2>1. PICK at \in Nat, retries \in Nat \ {0} : at = block.at + m /\ retries = MaxRetries
    BY <1>4
  <2>2. 0 \in 0 .. retries - 1
    OBVIOUS
  <2>3. block' = [block EXCEPT !.at = at, !.left = left, !.retries = 0]
    BY <1>3, <1>5, <2>1
  <2>4. QED
    BY <1>1, <1>4, <2>1, <2>2, <2>3
<1>7. avail' \in 0 .. RingSize - 1
  BY <1>2, <1>3, <1>4 DEF Free
<1>8. TypeOK'
  <2>1. heard' \in Seq(0 .. 255)
    BY <1>2, <1>3 DEF IInv, TypeOK
  <2>2. QED
    BY <1>3, <1>6, <1>7, <2>1 DEF IInv, TypeOK, ControlInv
<1>9. ~Converts(t)'
  BY <1>1, <1>3 DEF Converts
<1>10. BlockUntouched'
  BY <1>1, <1>3, <1>6, <1>9 DEF IInv, BlockUntouched, InCallback
<1>11. ~ConversionFits(t)'
  <2>1. cache'.conf = sync.conf
    BY <1>3, InForce DEF IInv, ControlInv, ControlTypes
  <2>2. PICK container \in {2, 4}, width \in {2, 3, 4} :
          container = Container(t) /\ width = DirettaBps(sync.conf.sink)
    BY ContainerIs DEF DirettaBps
  <2>3. ~(container <= width)
    BY <1>1, <2>2, Copied
  <2>4. QED
    BY <1>1, <1>3, <2>1, <2>2, <2>3, Copied DEF ConversionFits
<1>12. SinkHearsTrack'
  BY <1>6, <1>11 DEF SinkHearsTrack
<1>13. QED
  BY <1>8, <1>10, <1>12 DEF IInv, ControlInv

\* What SinkHearsTrack says does not change while the bytes, the block and the
\* configuration stay.
LEMMA HeardStays ==
  ASSUME SinkHearsTrack, UNCHANGED <<env, cache, s24, heard, from>>, sync'.conf = sync.conf,
         block'.track = block.track, block'.number = block.number, block'.left = block.left
  PROVE  SinkHearsTrack'
<1>1. PICK t, n : t = block.track /\ n = block.number
  OBVIOUS
<1>2. ConversionFits(t)' <=> ConversionFits(t)
  BY DEF ConversionFits, Effective
<1>3. \A layout : DsdHeard(t, n, layout)' <=> DsdHeard(t, n, layout)
  BY DEF DsdHeard, WireBit
<1>4. \A width : PcmHeard(t, n, width)' <=> PcmHeard(t, n, width)
  BY DEF PcmHeard
<1>5. WholeLength(t)' = WholeLength(t) /\ DirettaBps(sync.conf.sink)' = DirettaBps(sync.conf.sink)
  BY DEF WholeLength
<1>6. QED
  BY <1>1, <1>2, <1>3, <1>4, <1>5 DEF SinkHearsTrack, InCallback

\* A step of the engine, the worker or the IPC thread: it leaves the block and what
\* was heard of it, and puts nothing into the ring.
Aside ==
  /\ UNCHANGED <<env, cache, s24, heard, from>>
  /\ block' = block \/ \E retries \in 0 .. MaxRetries - 1 : block' = [block EXCEPT !.retries = retries]
  /\ sync'.conf = sync.conf
  /\ avail' \in 0 .. RingSize - 1 /\ avail' <= avail

LEMMA AsideKeepsIInv ==
  ASSUME IInv, ControlInv', Aside
  PROVE  IInv'
<1>1. block \in [track : Tracks \cup {NoTrack}, number : Nat, at : Nat,
                 left : 0 .. Frames, retries : 0 .. MaxRetries - 1]
  BY DEF IInv, TypeOK
<1>2. /\ block' \in [track : Tracks \cup {NoTrack}, number : Nat, at : Nat,
                     left : 0 .. Frames, retries : 0 .. MaxRetries - 1]
      /\ block'.track = block.track /\ block'.number = block.number
      /\ block'.left = block.left /\ block'.at = block.at
  BY <1>1 DEF Aside
<1>3. TypeOK'
  BY <1>2 DEF Aside, IInv, TypeOK, ControlInv
<1>4. SinkHearsTrack'
  BY <1>2, HeardStays DEF Aside, IInv
<1>5. BlockUntouched'
  <2>1. PICK ring \in Nat, before \in Nat, after \in Nat :
          ring = RingSize /\ before = avail /\ after = avail' /\ after <= before
    BY SendPathAssumption DEF Aside, IInv, TypeOK
  <2>2. after <= before
    BY <2>1
  <2>3. 2 * before <= ring => 2 * after <= ring
    BY ONLY <2>2, ring \in Nat, before \in Nat, after \in Nat
  <2>4. QED
    BY <1>2, <2>1, <2>3 DEF Aside, IInv, BlockUntouched, InCallback, Converts
<1>6. QED
  BY <1>3, <1>4, <1>5 DEF IInv

\* A step after which nothing was heard, and no block is half sent.
LEMMA SilentKeepsIInv ==
  ASSUME TypeOK', ControlInv', heard' = <<>>, BlockUntouched'
  PROVE  IInv'
  BY DEF IInv, SinkHearsTrack

LEMMA BeginKeepsIInv ==
  ASSUME IInv, ControlInv', Begin
  PROVE  IInv'
<1>1. PICK t : t = play.track
  OBVIOUS
<1>2. /\ block' = [track |-> t, number |-> play.next, at |-> 0,
                   left |-> IF IsDsd(t) THEN 1 ELSE Frames, retries |-> 0]
      /\ heard' = <<>> /\ from' = 0
      /\ t # NoTrack /\ t \in Tracks /\ play.next \in Nat
      /\ ~Throttled
  BY <1>1 DEF Begin, BlockReady, IInv, TypeOK, ControlTypes
<1>3. PICK ring \in Nat \ {0}, frames \in Nat \ {0}, retries \in Nat \ {0} :
        ring = RingSize /\ frames = Frames /\ retries = MaxRetries
  BY SendPathAssumption
<1>4. avail' \in 0 .. ring - 1 /\ 2 * avail' <= ring
  <2>1. CASE NeedsOpen(t)
    <3>1. avail' = 0
      BY <1>1, <2>1 DEF Begin
    <3>2. QED
      BY ONLY <3>1, ring \in Nat \ {0}
  <2>2. CASE ~NeedsOpen(t)
    <3>1. sync.playing /\ avail' = avail
      BY <1>1, <2>2 DEF Begin, NeedsOpen
    <3>2. PICK before \in 0 .. ring - 1 : before = avail
      BY <1>3 DEF IInv, TypeOK
    <3>3. ~(2 * before > ring)
      BY <1>2, <1>3, <3>1, <3>2 DEF Throttled
    <3>4. QED
      BY <3>1, <3>2, <3>3
  <2>3. QED
    BY <2>1, <2>2
<1>5. s24' \in [mode : Alignments, deferred : Nat]
  <2>1. s24 \in [mode : Alignments, deferred : Nat] /\ FreshS24 \in [mode : Alignments, deferred : Nat]
    BY DEF IInv, TypeOK, FreshS24, Alignments
  <2>2. \/ GiveHint(t, <<>>, FreshS24, FALSE)
        \/ GiveHint(t, hintKey, s24, hinted)
    BY <1>1 DEF Begin
  <2>3. ASSUME NEW key, NEW s, NEW h, GiveHint(t, key, s, h), s \in [mode : Alignments, deferred : Nat]
        PROVE  s24' \in [mode : Alignments, deferred : Nat]
    <3>1. t.aligned \in Alignments
      BY <1>2, SendPathAssumption
    <3>2. s24' = s \/ s24' = [s EXCEPT !.mode = t.aligned] \/ s24' = FreshS24
      BY <2>3 DEF GiveHint
    <3>3. QED
      BY <2>1, <2>3, <3>1, <3>2
  <2>4. QED
    BY <2>1, <2>2, <2>3
<1>6. block' \in [track : Tracks \cup {NoTrack}, number : Nat, at : Nat,
                  left : 0 .. Frames, retries : 0 .. MaxRetries - 1]
  <2>1. 1 \in 0 .. frames /\ frames \in 0 .. frames /\ 0 \in 0 .. retries - 1
    BY ONLY frames \in Nat \ {0}, retries \in Nat \ {0}
  <2>2. QED
    BY <1>2, <1>3, <2>1
<1>7. TypeOK'
  BY <1>2, <1>3, <1>4, <1>5, <1>6 DEF TypeOK, ControlInv
<1>8. BlockUntouched'
  BY <1>2, <1>3, <1>4 DEF BlockUntouched, InCallback
<1>9. QED
  BY <1>2, <1>7, <1>8, SilentKeepsIInv

LEMMA resumeKeepsIInv ==
  ASSUME IInv, ControlInv', resumePlayback
  PROVE  IInv'
<1>1. /\ avail' = 0 /\ s24' = FreshS24 /\ heard' = <<>> /\ from' = block.at
      /\ block' = block
  BY DEF resumePlayback
<1>2. FreshS24 \in [mode : Alignments, deferred : Nat]
  BY DEF FreshS24, Alignments
<1>3. PICK ring \in Nat \ {0} : ring = RingSize
  BY SendPathAssumption
<1>4. 0 \in 0 .. ring - 1 /\ 2 * 0 <= ring
  OBVIOUS
<1>5. TypeOK'
  BY <1>1, <1>2, <1>3, <1>4 DEF TypeOK, IInv, ControlInv
<1>6. BlockUntouched'
  BY <1>1, <1>3, <1>4 DEF IInv, BlockUntouched, InCallback, Converts, resumePlayback
<1>7. QED
  BY <1>1, <1>5, <1>6, SilentKeepsIInv

LEMMA SendGivesUpKeepsIInv ==
  ASSUME IInv, ControlInv', SendGivesUp
  PROVE  IInv'
<1>1. /\ UNCHANGED <<env, sync, cache, s24, avail, heard, from>>
      /\ block' = [block EXCEPT !.left = 0, !.track = NoTrack] /\ block.left > 0
  BY DEF SendGivesUp
<1>2. ~InCallback'
  BY <1>1 DEF IInv, TypeOK, InCallback
<1>3. block \in [track : Tracks \cup {NoTrack}, number : Nat, at : Nat,
                 left : 0 .. Frames, retries : 0 .. MaxRetries - 1]
  BY DEF IInv, TypeOK
<1>4. block' \in [track : Tracks \cup {NoTrack}, number : Nat, at : Nat,
                  left : 0 .. Frames, retries : 0 .. MaxRetries - 1]
      /\ block'.left = 0
  <2>1. PICK frames \in Nat : frames = Frames
    BY SendPathAssumption
  <2>2. 0 \in 0 .. frames
    OBVIOUS
  <2>3. QED
    BY <1>1, <1>3, <2>1, <2>2
<1>5. TypeOK'
  BY <1>1, <1>4 DEF TypeOK, IInv, ControlInv
<1>6. BlockUntouched'
  BY <1>4 DEF BlockUntouched
<1>7. QED
  BY <1>2, <1>5, <1>6 DEF IInv, SinkHearsTrack

\* All of it holds through every step.
LEMMA IInvKept ==
  ASSUME BlocksFit, OneAlignment, IInv, [Next]_vars
  PROVE  IInv'
<1>1. ControlInv'
  <2>1. ControlInv /\ LeftInCallback
    BY DEF IInv, BlockUntouched, LeftInCallback
  <2>2. QED
    BY <2>1, ControlKept
<1>2. /\ avail \in 0 .. RingSize - 1 /\ RingSize \in Nat \ {0} /\ PopSize \in Nat
      /\ MaxRetries \in Nat \ {0}
      /\ DOMAIN sync = {"open", "playing", "paused", "muted", "format", "conf"}
      /\ block \in [track : Tracks \cup {NoTrack}, number : Nat, at : Nat,
                    left : 0 .. Frames, retries : 0 .. MaxRetries - 1]
  BY SendPathAssumption DEF IInv, TypeOK, ControlTypes
<1>3. CASE \E t \in Tracks : Start(t)
  <2>1. Aside
    BY <1>2, <1>3 DEF Start, Aside
  <2>2. QED
    BY <1>1, <2>1, AsideKeepsIInv
<1>4. CASE Begin
  BY <1>1, <1>4, BeginKeepsIInv
<1>5. CASE BeginRefused
  <2>1. sync'.conf = sync.conf
    BY <1>2, <1>5 DEF BeginRefused
  <2>2. Aside
    BY <1>2, <1>5, <2>1 DEF BeginRefused, Aside
  <2>3. QED
    BY <1>1, <2>2, AsideKeepsIInv
<1>6. CASE SendSome
  BY <1>1, <1>6, SendSomeKeepsIInv, CopiedKeepsIInv
<1>7. CASE SendNothing
  <2>1. block' = [block EXCEPT !.retries = block.retries + 1] /\ block.retries + 1 < MaxRetries
        /\ UNCHANGED <<env, sync, cache, s24, heard, from, avail>>
    BY <1>7 DEF SendNothing
  <2>2. block.retries + 1 \in 0 .. MaxRetries - 1
    BY <1>2, <2>1
  <2>3. Aside
    BY <1>2, <2>1, <2>2 DEF Aside
  <2>4. QED
    BY <1>1, <2>3, AsideKeepsIInv
<1>8. CASE SendGivesUp
  BY <1>1, <1>8, SendGivesUpKeepsIInv
<1>9. CASE Pop
  <2>1. avail' \in 0 .. RingSize - 1 /\ avail' <= avail
    BY <1>2, <1>9 DEF Pop
  <2>2. Aside
    BY <1>9, <2>1 DEF Pop, Aside
  <2>3. QED
    BY <1>1, <2>2, AsideKeepsIInv
<1>10. CASE pausePlayback
  <2>1. sync'.conf = sync.conf
    BY <1>2, <1>10 DEF pausePlayback
  <2>2. Aside
    BY <1>2, <1>10, <2>1 DEF pausePlayback, Aside
  <2>3. QED
    BY <1>1, <2>2, AsideKeepsIInv
<1>11. CASE resumePlayback
  BY <1>1, <1>11, resumeKeepsIInv
<1>12. CASE stopPlayback
  <2>1. sync'.conf = sync.conf
    BY <1>2, <1>12 DEF stopPlayback
  <2>2. Aside
    BY <1>2, <1>12, <2>1 DEF stopPlayback, Aside
  <2>3. QED
    BY <1>1, <2>2, AsideKeepsIInv
<1>13. CASE UNCHANGED vars
  <2>1. Aside
    BY <1>2, <1>13 DEF vars, Aside
  <2>2. QED
    BY <1>1, <2>1, AsideKeepsIInv
<1>14. QED
  BY <1>3, <1>4, <1>5, <1>6, <1>7, <1>8, <1>9, <1>10, <1>11, <1>12, <1>13 DEF Next, Callback

LEMMA IInvFromStart == Init => IInv
<1> SUFFICES ASSUME Init PROVE IInv
  OBVIOUS
<1>1. ControlInv
  BY ControlFromStart
<1>2. /\ heard = <<>> /\ block = [track |-> NoTrack, number |-> 0, at |-> 0, left |-> 0, retries |-> 0]
      /\ s24 = FreshS24 /\ avail = 0 /\ from = 0
  BY DEF Init
<1>3. PICK ring \in Nat \ {0}, frames \in Nat, retries \in Nat \ {0} :
        ring = RingSize /\ frames = Frames /\ retries = MaxRetries
  BY SendPathAssumption
<1>4. 0 \in 0 .. ring - 1 /\ 0 \in 0 .. frames /\ 0 \in 0 .. retries - 1
  OBVIOUS
<1>5. block \in [track : Tracks \cup {NoTrack}, number : Nat, at : Nat,
                 left : 0 .. Frames, retries : 0 .. MaxRetries - 1]
  BY <1>2, <1>3, <1>4
<1>6. s24 \in [mode : Alignments, deferred : Nat]
  BY <1>2 DEF FreshS24, Alignments
<1>7. heard \in Seq(0 .. 255)
  BY <1>2
<1>8. TypeOK
  BY <1>1, <1>2, <1>3, <1>4, <1>5, <1>6, <1>7 DEF TypeOK, ControlInv
<1>9. BlockUntouched
  BY <1>2 DEF BlockUntouched
<1>10. QED
  BY <1>1, <1>2, <1>8, <1>9 DEF IInv, SinkHearsTrack

\* With blocks that half a ring and the staging area have room for and files with one
\* alignment, whatever the sinks accept, in every state: the control is in order, a block
\* that can be converted is untouched until it is whole in the ring, and the ring heard
\* the track as far as there is a conversion (the output callback with sendAudio).
THEOREM SendPathInvariant ==
  ASSUME BlocksFit, OneAlignment
  PROVE  Spec => []IInv
<1>1. Init => IInv
  BY IInvFromStart
<1>2. IInv /\ [Next]_vars => IInv'
  BY IInvKept
<1>3. QED
  BY <1>1, <1>2, PTL DEF Spec

\* Each variable keeps its type; the ring never fills up to its last byte.
THEOREM TypeCorrect ==
  ASSUME BlocksFit, OneAlignment
  PROVE  Spec => []TypeOK
<1>1. IInv => TypeOK
  BY DEF IInv
<1>2. QED
  BY <1>1, SendPathInvariant, PTL

\* Whatever the build, the sink and the file, where there is a conversion: what sendAudio
\* puts into the ring is the block, sample by sample or bit by bit, in the sink's layout, from its first byte to
\* its last.
THEOREM SinkHears ==
  ASSUME BlocksFit, OneAlignment
  PROVE  Spec => []SinkHearsTrack
<1>1. IInv => SinkHearsTrack
  BY DEF IInv
<1>2. QED
  BY <1>1, SendPathInvariant, PTL

\* sendAudio takes a block that the ring has a conversion for whole or not at all, so
\* that the pushes and the callback never get to disagree on what a part of a block is.
THEOREM BlocksAreWhole ==
  ASSUME BlocksFit, OneAlignment
  PROVE  Spec => []BlocksGoWhole
<1>1. IInv => BlocksGoWhole
  BY DEF IInv, BlockUntouched, BlocksGoWhole
<1>2. QED
  BY <1>1, SendPathInvariant, PTL
=============================================================================
