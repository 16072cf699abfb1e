------------------------- MODULE SampleConversions -------------------------
(***************************************************************************)
(* The conversion routines of DirettaRingBuffer, in their three builds: the*)
(* vector loop of each one, instruction by instruction, and the scalar loop*)
(* that converts what the vectors leave.  A buffer is a sequence of bytes. *)
(***************************************************************************)
EXTENDS Integers, Sequences

Builds == {"avx2", "neon", "scalar"}

-----------------------------------------------------------------------------
(* Instructions *)
Load(src, at, n) == SubSeq(src, at + 1, at + n)

Zeros(n) == [j \in 1 .. n |-> 0]

\* _mm256_shuffle_epi8: byte k of a 16-byte lane takes byte mask[k] of its lane.
Shuffle(v, mask) ==
  [j \in 1 .. Len(v) |-> v[16 * ((j - 1) \div 16) + mask[((j - 1) % 16) + 1] + 1]]

\* _mm256_unpacklo/hi and vzip1/2: in each lane, the low or the high halves of
\* a and b, one element of e bytes of each in turn.
Unpack(a, b, e, half) ==
  [j \in 1 .. Len(a) |->
     LET k == (j - 1) % 16
         element == k \div e
     IN (IF element % 2 = 0 THEN a ELSE b)
          [16 * ((j - 1) \div 16) + 8 * half + e * (element \div 2) + (k % e) + 1]]

\* Variant, for the mutation runs: without the permutation.
StoreInOrder(lo, hi) == lo \o hi

\* _mm256_permute2x128_si256 with 0x20, then with 0x31, stored one after the other.
StoreByLane(lo, hi) ==
  SubSeq(lo, 1, 16) \o SubSeq(hi, 1, 16) \o SubSeq(lo, 17, 32) \o SubSeq(hi, 17, 32)

\* vst3q_u8: three vectors, one byte of each in turn.
Store3(a, b, c) == [j \in 1 .. 48 |-> (<<a, b, c>>[((j - 1) % 3) + 1])[(j - 1) \div 3 + 1]]

\* vld4q_u8 and vld2q_u8: byte k of every sample of n bytes.
Lane(v, n, k) == [j \in 1 .. Len(v) \div n |-> v[n * (j - 1) + k + 1]]

\* Shifts of the 16-bit words of a vector, low byte first.
Word(v, j) == IF (j % 2) = 1 THEN v[j] + 256 * v[j + 1] ELSE v[j - 1] + 256 * v[j]
ByteOfWord(w, j) == IF (j % 2) = 1 THEN w % 256 ELSE (w \div 256) % 256
ShiftRight16(v) == [j \in 1 .. Len(v) |-> ByteOfWord(Word(v, j) \div 16, j)]
ShiftLeft16(v)  == [j \in 1 .. Len(v) |-> ByteOfWord(Word(v, j) * 16, j)]

-----------------------------------------------------------------------------
(* Bit reversal *)
nibble_reverse == <<0, 8, 4, 12, 2, 10, 6, 14, 1, 9, 5, 13, 3, 11, 7, 15>>

LowNibbles(v)  == [j \in 1 .. Len(v) |-> v[j] % 16]
\* Byte lookup in a 16-entry table: the index is a nibble, in every lane.
Lookup(v)      == [j \in 1 .. Len(v) |-> nibble_reverse[v[j] + 1]]
Or(v, w)       == [j \in 1 .. Len(v) |-> v[j] + w[j]]   \* no bit set in both

simd_bit_reverse(v) ==
  Or(ShiftLeft16(Lookup(LowNibbles(v))), Lookup(LowNibbles(ShiftRight16(v))))

neon_bit_reverse(v) ==
  LET high == [j \in 1 .. Len(v) |-> v[j] \div 16]
      low  == Lookup(LowNibbles(v))
  IN Or([j \in 1 .. Len(v) |-> (low[j] * 16) % 256], Lookup(LowNibbles(high)))

BitReverseRows ==
  <<<<0, 128, 64, 192, 32, 160, 96, 224, 16, 144, 80, 208, 48, 176, 112, 240>>,
    <<8, 136, 72, 200, 40, 168, 104, 232, 24, 152, 88, 216, 56, 184, 120, 248>>,
    <<4, 132, 68, 196, 36, 164, 100, 228, 20, 148, 84, 212, 52, 180, 116, 244>>,
    <<12, 140, 76, 204, 44, 172, 108, 236, 28, 156, 92, 220, 60, 188, 124, 252>>,
    <<2, 130, 66, 194, 34, 162, 98, 226, 18, 146, 82, 210, 50, 178, 114, 242>>,
    <<10, 138, 74, 202, 42, 170, 106, 234, 26, 154, 90, 218, 58, 186, 122, 250>>,
    <<6, 134, 70, 198, 38, 166, 102, 230, 22, 150, 86, 214, 54, 182, 118, 246>>,
    <<14, 142, 78, 206, 46, 174, 110, 238, 30, 158, 94, 222, 62, 190, 126, 254>>,
    <<1, 129, 65, 193, 33, 161, 97, 225, 17, 145, 81, 209, 49, 177, 113, 241>>,
    <<9, 137, 73, 201, 41, 169, 105, 233, 25, 153, 89, 217, 57, 185, 121, 249>>,
    <<5, 133, 69, 197, 37, 165, 101, 229, 21, 149, 85, 213, 53, 181, 117, 245>>,
    <<13, 141, 77, 205, 45, 173, 109, 237, 29, 157, 93, 221, 61, 189, 125, 253>>,
    <<3, 131, 67, 195, 35, 163, 99, 227, 19, 147, 83, 211, 51, 179, 115, 243>>,
    <<11, 139, 75, 203, 43, 171, 107, 235, 27, 155, 91, 219, 59, 187, 123, 251>>,
    <<7, 135, 71, 199, 39, 167, 103, 231, 23, 151, 87, 215, 55, 183, 119, 247>>,
    <<15, 143, 79, 207, 47, 175, 111, 239, 31, 159, 95, 223, 63, 191, 127, 255>>>>
kBitReverseLUT == [b \in 0 .. 255 |-> BitReverseRows[(b \div 16) + 1][(b % 16) + 1]]

-----------------------------------------------------------------------------
(* Conversion loops *)
\* n samples of w output bytes.  Vector(i) is what the vectors store for the group
\* of samples that begins at sample i, Scalar(i, k) byte k of sample i; the scalar
\* loop does what the whole groups leave, or everything when group = 0.
Convert(n, w, group, Vector(_), Scalar(_, _)) ==
  LET groups == IF group = 0 THEN 0 ELSE n \div group
      done   == groups * group
      tail   == [j \in 1 .. (n - done) * w |-> Scalar(done + (j - 1) \div w, (j - 1) % w)]
      stored == Append([q \in 1 .. groups |-> Vector((q - 1) * group)], tail)
  IN [j \in 1 .. n * w |->
        IF j <= done * w THEN stored[((j - 1) \div (group * w)) + 1][((j - 1) % (group * w)) + 1]
        ELSE stored[groups + 1][j - done * w]]

\* Bytes first .. first + 2 of every 4-byte sample.
PackAvx2(src, i, first) ==
  LET mask == [k \in 1 .. 16 |-> IF k > 12 THEN 0 ELSE 4 * ((k - 1) \div 3) + ((k - 1) % 3) + first]
      shuffled == Shuffle(Load(src, 4 * i, 32), mask)
  IN SubSeq(shuffled, 1, 12) \o SubSeq(shuffled, 17, 28)

PackNeon(src, i, first) ==
  LET in == Load(src, 4 * i, 64)
  IN Store3(Lane(in, 4, first), Lane(in, 4, first + 1), Lane(in, 4, first + 2))

Pack(build, src, n, first) ==
  LET Vector(i) == IF build = "avx2" THEN PackAvx2(src, i, first) ELSE PackNeon(src, i, first)
      Scalar(i, k) == src[4 * i + k + first + 1]
  IN Convert(n, 3, [avx2 |-> 8, neon |-> 16, scalar |-> 0][build], Vector, Scalar)

convert24BitPacked(build, src, n)        == Pack(build, src, n, 0)
convert24BitPackedShifted(build, src, n) == Pack(build, src, n, 1)

\* 16-bit samples over zeros.
Widen32Avx2(src, i) ==
  LET in == Load(src, 2 * i, 32)
  IN StoreByLane(Unpack(Zeros(32), in, 2, 0), Unpack(Zeros(32), in, 2, 1))

Widen32Neon(src, i) ==
  LET in == Load(src, 2 * i, 16)
  IN Unpack(Zeros(16), in, 2, 0) \o Unpack(Zeros(16), in, 2, 1)

convert16To32(build, src, n) ==
  LET Vector(i) == IF build = "avx2" THEN Widen32Avx2(src, i) ELSE Widen32Neon(src, i)
      Scalar(i, k) == IF k < 2 THEN 0 ELSE src[2 * i + k - 1]
  IN Convert(n, 4, [avx2 |-> 16, neon |-> 8, scalar |-> 0][build], Vector, Scalar)

\* The AVX2 build has no vector loop here.
Widen24Neon(src, i) ==
  LET in == Load(src, 2 * i, 32) IN Store3(Zeros(16), Lane(in, 2, 0), Lane(in, 2, 1))

convert16To24(build, src, n) ==
  LET Vector(i) == Widen24Neon(src, i)
      Scalar(i, k) == IF k = 0 THEN 0 ELSE src[2 * i + k]
  IN Convert(n, 3, IF build = "neon" THEN 16 ELSE 0, Vector, Scalar)

-----------------------------------------------------------------------------
(* DSD, planar to groups *)
\* Planar channels become groups of 4 bytes per channel.  The vectors reverse
\* the bits before they interleave and swap the bytes after; the scalar loops
\* look both up byte by byte.  Only stereo is vectorised, and the vectorised
\* builds leave a tail of less than 4 bytes.
ConvertDSD(build, src, channels, reverse, swap) ==
  LET perChannel == Len(src) \div channels
      vector == IF channels = 2 THEN [avx2 |-> 32, neon |-> 16, scalar |-> 0][build] ELSE 0
      groups == IF channels = 2 /\ build # "scalar" THEN perChannel \div 4
                ELSE (perChannel + 3) \div 4
      Bits(v) == IF ~reverse THEN v
                 ELSE IF build = "avx2" THEN simd_bit_reverse(v) ELSE neon_bit_reverse(v)
      Swap(v) == IF swap THEN Shuffle(v, [k \in 1 .. 16 |-> 4 * ((k - 1) \div 4) + 3 - ((k - 1) % 4)])
                 ELSE v
      Vector(g) == LET left  == Bits(Load(src, 4 * g, vector))
                       right == Bits(Load(src, perChannel + 4 * g, vector))
                       lo    == Swap(Unpack(left, right, 4, 0))
                       hi    == Swap(Unpack(left, right, 4, 1))
                   IN IF build = "avx2" THEN StoreByLane(lo, hi) ELSE lo \o hi
      Scalar(g, k) == LET at == perChannel * (k \div 4) + 4 * g
                                  + (IF swap THEN 3 - (k % 4) ELSE k % 4)
                      IN IF reverse THEN kBitReverseLUT[src[at + 1]] ELSE src[at + 1]
  IN Convert(groups, 4 * channels, vector \div 4, Vector, Scalar)

convertDSD_Passthrough(build, src, channels)    == ConvertDSD(build, src, channels, FALSE, FALSE)
convertDSD_BitReverse(build, src, channels)     == ConvertDSD(build, src, channels, TRUE,  FALSE)
convertDSD_ByteSwap(build, src, channels)       == ConvertDSD(build, src, channels, FALSE, TRUE)
convertDSD_BitReverseSwap(build, src, channels) == ConvertDSD(build, src, channels, TRUE,  TRUE)
=============================================================================
