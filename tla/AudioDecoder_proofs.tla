---------------------------- MODULE AudioDecoder_proofs ----------------------------
(***************************************************************************)
(* The blocks that readSamples hands out, for any files, packets, blocks   *)
(* and sizes of the ring of left-over bytes.                               *)
(***************************************************************************)
EXTENDS AudioDecoder, SequenceTheorems, TLAPS

(* The types, in the parts that the steps disturb. *)

FileTypes ==
  /\ file \in Files \cup {Closed} /\ at \in 0 .. file.stored /\ m_eof \in BOOLEAN
  /\ errors \in 0 .. MaxErrors
Index == 0 .. RemainderSize - 1
RingTypes ==
  /\ m_dsdRemainderReadPos \in Index /\ m_dsdRemainderWritePos \in Index
  /\ m_dsdRemainderLeft \in [Index -> Int] /\ m_dsdRemainderRight \in [Index -> Int]
BlockTypes ==
  /\ reading \in BOOLEAN /\ need \in Nat /\ expected \in Nat /\ lost \in Nat
  /\ leftData \in Seq(Int) /\ rightData \in Seq(Int)
  /\ Len(leftData) = Len(rightData) /\ Len(leftData) <= need
  /\ ~reading => leftData = <<>> /\ lost = 0
FrameType == [from : Nat, size : Nat]
CodecTypes ==
  /\ m_bypassMode \in BOOLEAN /\ m_resamplerInitialized \in BOOLEAN /\ receiving \in BOOLEAN
  /\ frames \in Seq(FrameType) /\ m_pcmFifo \in Seq(Int \X Int)
  /\ receiving => reading /\ frames # <<>>
  /\ file.kind # "pcm" => m_pcmFifo = <<>> /\ frames = <<>>
Types == FileTypes /\ RingTypes /\ BlockTypes /\ CodecTypes

(* Where the samples are. *)

\* The two channels hold the samples from first on.
Continues(left, right, first) ==
  \A i \in 1 .. Len(left) : left[i] = 2 * (first + i - 1) /\ right[i] = 2 * (first + i - 1) + 1
InOrder(samples, first) ==
  \A i \in 1 .. Len(samples) : samples[i] = <<2 * (first + i - 1), 2 * (first + i - 1) + 1>>

\* The sample that the block in hand goes on with.
Upcoming == expected + Len(leftData)
Slot(k) == (m_dsdRemainderReadPos + k) % RemainderSize

\* A decoder without a file is as a new one.
ClosedInv == file = Closed =>
  /\ at = 0 /\ expected = 0 /\ ~reading /\ ~m_eof /\ dsdRemainderAvailable = 0
  /\ ~m_resamplerInitialized /\ ~m_bypassMode
\* The ring of bytes left over has what comes after the block in hand, as much as was
\* read of the file; and it has nothing when a packet is asked for.
DsdInv == m_rawDSD =>
  /\ lost = 0
  /\ Upcoming + dsdRemainderAvailable = Samples
  /\ \A k \in 0 .. dsdRemainderAvailable - 1 :
       m_dsdRemainderLeft[Slot(k)] = 2 * (Upcoming + k) /\ m_dsdRemainderRight[Slot(k)] = 2 * (Upcoming + k) + 1
  /\ (reading /\ StillNeed > 0) \/ m_eof => dsdRemainderAvailable = 0
  /\ file.kind = "dff" => at % 2 = 0 \/ at = file.stored
\* So has the FIFO, except what an error lost, and the frame that is to be received.
PcmInv == file.kind = "pcm" =>
  /\ dsdRemainderAvailable = 0
  /\ InOrder(m_pcmFifo, Upcoming)
  /\ receiving => /\ frames = <<[from |-> Upcoming, size |-> at - Upcoming]>> /\ at > Upcoming
                  /\ StillNeed > 0 /\ ~m_eof /\ lost = 0 /\ sample_fmt = file.fmt
  /\ ~receiving => frames = <<>> /\ Upcoming + lost + Len(m_pcmFifo) = at
  /\ lost > 0 => m_pcmFifo = <<>> /\ StillNeed = 0
  /\ (reading /\ StillNeed > 0) \/ m_eof \/ ~m_resamplerInitialized => m_pcmFifo = <<>>
  /\ reading /\ StillNeed > 0 => m_resamplerInitialized
  /\ m_resamplerInitialized /\ ~m_bypassMode => m_swrContext = file.fmt
  /\ sample_fmt \in {file.stated, file.fmt}
Placed == ClosedInv /\ DsdInv /\ PcmInv /\ Continues(leftData, rightData, expected)

-----------------------------------------------------------------------------
(* Arithmetic. *)

LEMMA RemainderRange ==
  ASSUME NEW n \in Nat, n > 0, NEW a \in Int
  PROVE  a % n \in 0 .. n - 1
BY SMT

LEMMA RemainderInside ==
  ASSUME NEW n \in Nat, n > 0, NEW a \in Int, 0 <= a, a < n
  PROVE  a % n = a
BY SMT

LEMMA RemainderAbove ==
  ASSUME NEW n \in Nat, n > 0, NEW a \in Int, n <= a, a < n + n
  PROVE  a % n = a - n
BY SMT

LEMMA RemainderBelow ==
  ASSUME NEW n \in Nat, n > 0, NEW a \in Int, a < 0, 0 - n <= a
  PROVE  a % n = a + n
BY SMT

LEMMA AtMostIs ==
  ASSUME NEW n \in Int, NEW high \in Int
  PROVE  /\ AtMost(n, high) \in {n, high} /\ AtMost(n, high) <= n /\ AtMost(n, high) <= high
         /\ AtMost(n, high) \in Int
BY DEF AtMost

\* A quotient is the number of times that the divisor goes into the number.
LEMMA Quotient ==
  ASSUME NEW a \in Nat, NEW b \in Nat, b > 0
  PROVE  a \div b \in Nat /\ b * (a \div b) <= a /\ a < b * (a \div b) + b
BY SMT

\* The packet a seek goes to begins at or before the place.
LEMMA PacketStart ==
  ASSUME NEW p \in Nat, NEW b \in Nat, b > 0
  PROVE  (p \div b) * b \in 0 .. p
<1> DEFINE q == p \div b
<1>1. q \in Nat /\ b * q <= p
  BY Quotient
<1> HIDE DEF q
<1>2. q * b = b * q /\ q * b \in Nat
  BY <1>1, SMT
<1> QED BY <1>1, <1>2, SMT DEF q

\* The frames of a packet: there is one, and none is without samples.
LEMMA Frames ==
  ASSUME NEW size \in Nat, size > 0, file.split \in Nat, file.split > 0, at \in Nat
  PROVE  FramesOf(size) \in Seq(FrameType) /\ FramesOf(size) # <<>>
<1> DEFINE n == file.split
           q == (size + n - 1) \div n
           frame(i) == [from |-> at + (i - 1) * n, size |-> AtMost(n, size - (i - 1) * n)]
<1>1. n \in Nat /\ n > 0 /\ size + n - 1 \in Nat
  OBVIOUS
<1> HIDE DEF n
<1>2. q \in Nat /\ n * q <= size + n - 1 /\ size + n - 1 < n * q + n
  BY <1>1, Quotient
<1> HIDE DEF q
<1>3. q > 0
  <2>1. q = 0 => n * q = 0
    BY <1>1
  <2> QED BY <1>1, <1>2, <2>1
<1>4. ASSUME NEW i \in 1 .. q PROVE frame(i) \in FrameType
  <2> DEFINE before == (i - 1) * n
  <2>1. before \in Nat
    BY <1>1
  <2>2. before + n <= n * q
    <3>1. before + n = n * i
      BY <1>1, <1>2, SMT
    <3>2. n * i <= n * q
      BY <1>1, <1>2, SMT
    <3> QED BY <3>1, <3>2
  <2>3. n * q \in Nat
    BY <1>1, <1>2
  <2> DEFINE total == n * q
  <2> HIDE DEF before, total
  <2>4. before \in Nat /\ total \in Nat /\ before + n <= total /\ total <= size + n - 1
    BY <1>2, <2>1, <2>2, <2>3 DEF before, total
  <2>5. at + before \in Nat /\ size - before \in Nat
    BY <1>1, <2>4
  <2>6. AtMost(n, size - before) \in Nat
    BY <1>1, <2>5 DEF AtMost
  <2>7. [from |-> at + before, size |-> AtMost(n, size - before)] \in FrameType
    BY <2>5, <2>6 DEF FrameType
  <2> QED BY <2>7 DEF before
<1>5. FramesOf(size) = [i \in 1 .. q |-> frame(i)]
  BY Zenon DEF FramesOf, q, n
<1> HIDE DEF frame
<1>6. [i \in 1 .. q |-> frame(i)] \in Seq(FrameType)
  BY <1>2, <1>4, IsASeq
<1>7. [i \in 1 .. q |-> frame(i)] # <<>>
  <2>1. 1 \in DOMAIN [i \in 1 .. q |-> frame(i)]
    BY <1>2, <1>3
  <2> QED BY <2>1
<1> QED BY <1>5, <1>6, <1>7

-----------------------------------------------------------------------------
(* Sequences. *)

\* What is left of a sequence after its first n elements, and those elements.
LEMMA RestOfSeq ==
  ASSUME NEW S, NEW s \in Seq(S), NEW n \in 0 .. Len(s)
  PROVE  /\ SubSeq(s, n + 1, Len(s)) \in Seq(S) /\ Len(SubSeq(s, n + 1, Len(s))) = Len(s) - n
         /\ \A i \in 1 .. Len(s) - n : SubSeq(s, n + 1, Len(s))[i] = s[n + i]
<1>1. \A i \in n + 1 .. Len(s) : s[i] \in S
  OBVIOUS
<1>2. n + 1 \in Int /\ Len(s) \in Int
  OBVIOUS
<1>3. /\ SubSeq(s, n + 1, Len(s)) \in Seq(S)
      /\ Len(SubSeq(s, n + 1, Len(s))) = IF n + 1 <= Len(s) THEN Len(s) - (n + 1) + 1 ELSE 0
      /\ \A i \in 1 .. Len(s) - (n + 1) + 1 : SubSeq(s, n + 1, Len(s))[i] = s[n + 1 + i - 1]
  BY <1>1, <1>2, SubSeqProperties
<1> QED BY <1>3

LEMMA StartOfSeq ==
  ASSUME NEW S, NEW s \in Seq(S), NEW n \in 0 .. Len(s)
  PROVE  /\ SubSeq(s, 1, n) \in Seq(S) /\ Len(SubSeq(s, 1, n)) = n
         /\ \A i \in 1 .. n : SubSeq(s, 1, n)[i] = s[i]
<1>1. \A i \in 1 .. n : s[i] \in S
  OBVIOUS
<1>2. 1 \in Int /\ n \in Int
  OBVIOUS
<1>3. /\ SubSeq(s, 1, n) \in Seq(S)
      /\ Len(SubSeq(s, 1, n)) = IF 1 <= n THEN n - 1 + 1 ELSE 0
      /\ \A i \in 1 .. n - 1 + 1 : SubSeq(s, 1, n)[i] = s[1 + i - 1]
  BY <1>1, <1>2, SubSeqProperties
<1> QED BY <1>3

\* A sequence given by its elements.
LEMMA GivenSeq ==
  ASSUME NEW S, NEW n \in Nat, NEW f, f = [i \in 1 .. n |-> f[i]], \A i \in 1 .. n : f[i] \in S
  PROVE  f \in Seq(S) /\ Len(f) = n
<1>1. f \in [1 .. n -> S]
  OBVIOUS
<1> QED BY <1>1

-----------------------------------------------------------------------------
(* Types. *)

LEMMA Sizes ==
  /\ RemainderSize \in Nat /\ RemainderSize > 0 /\ MaxErrors \in Nat
  /\ \A n \in Reads : n \in Nat /\ n > 0
  /\ \A f \in Files : /\ f.kind \in {"dsf", "dff", "pcm"} /\ f.stored \in Nat /\ f.length \in Nat /\ f.stored <= f.length
                      /\ f.block \in Nat /\ f.block > 0 /\ f.split \in Nat /\ f.split > 0
                      /\ f.kind = "dsf" => f.block <= RemainderSize
  /\ Closed.kind = "closed" /\ Closed.stored = 0
<1>1. RemainderSize \in Nat /\ RemainderSize > 0 /\ MaxErrors \in Nat /\ \A n \in Reads : n \in Nat /\ n > 0
  BY AudioDecoderAssumption
<1>2. ASSUME NEW f \in Files
      PROVE  /\ f.kind \in {"dsf", "dff", "pcm"} /\ f.stored \in Nat /\ f.length \in Nat /\ f.stored <= f.length
             /\ f.block \in Nat /\ f.block > 0 /\ f.split \in Nat /\ f.split > 0
             /\ f.kind = "dsf" => f.block <= RemainderSize
  BY AudioDecoderAssumption
<1>3. Closed.kind = "closed" /\ Closed.stored = 0
  BY DEF Closed
<1> QED BY <1>1, <1>2, <1>3

LEMMA ChannelsTyped ==
  ASSUME NEW first \in Nat, NEW n \in Nat
  PROVE  /\ Left(first, n) \in Seq(Int) /\ Len(Left(first, n)) = n
         /\ Right(first, n) \in Seq(Int) /\ Len(Right(first, n)) = n
BY DEF Left, Right

\* The ring after a push is a ring of samples, whatever was pushed.
LEMMA PushedTyped ==
  ASSUME RingTypes, NEW memory \in [Index -> Int], NEW data \in Seq(Int), NEW n \in Int, n <= Len(data)
  PROVE  Pushed(memory, data, n) \in [Index -> Int]
<1> DEFINE place(p) == (p - m_dsdRemainderWritePos) % RemainderSize
<1>1. \A p \in Index : (IF place(p) < n THEN data[place(p) + 1] ELSE memory[p]) \in Int
  <2> TAKE p \in Index
  <2>1. p - m_dsdRemainderWritePos \in Int
    BY Sizes DEF RingTypes, Index
  <2>2. place(p) \in 0 .. RemainderSize - 1
    BY <2>1, Sizes, RemainderRange
  <2> HIDE DEF place
  <2>3. place(p) < n => place(p) + 1 \in 1 .. Len(data)
    BY <2>2
  <2> QED BY <2>3
<1>2. Pushed(memory, data, n) = [p \in Index |-> IF place(p) < n THEN data[place(p) + 1] ELSE memory[p]]
  BY Zenon DEF Pushed, Index
<1> HIDE DEF place
<1> QED BY <1>1, <1>2

LEMMA FreeTyped ==
  ASSUME RingTypes
  PROVE  dsdRemainderFree \in Index /\ dsdRemainderAvailable \in Index
<1>1. /\ m_dsdRemainderReadPos - m_dsdRemainderWritePos - 1 \in Int
      /\ m_dsdRemainderWritePos - m_dsdRemainderReadPos \in Int
  BY Sizes DEF RingTypes, Index
<1> QED BY <1>1, Sizes, RemainderRange DEF dsdRemainderFree, dsdRemainderAvailable, Index

LEMMA PushTyped ==
  ASSUME RingTypes, NEW left \in Seq(Int), NEW right \in Seq(Int), Len(left) = Len(right),
         dsdRemainderPush(left, right)
  PROVE  RingTypes'
<1> DEFINE n == AtMost(Len(left), dsdRemainderFree)
<1>1. n \in Int /\ n <= Len(left) /\ n >= 0
  BY FreeTyped, Sizes DEF AtMost, Index
<1>2. /\ m_dsdRemainderLeft' = Pushed(m_dsdRemainderLeft, left, n)
      /\ m_dsdRemainderRight' = Pushed(m_dsdRemainderRight, right, n)
      /\ m_dsdRemainderWritePos' = (m_dsdRemainderWritePos + n) % RemainderSize
      /\ UNCHANGED m_dsdRemainderReadPos
  BY Zenon DEF dsdRemainderPush
<1> HIDE DEF n
<1>3. m_dsdRemainderLeft' \in [Index -> Int] /\ m_dsdRemainderRight' \in [Index -> Int]
  BY <1>1, <1>2, PushedTyped DEF RingTypes
<1>4. m_dsdRemainderWritePos' \in Index
  <2>1. m_dsdRemainderWritePos + n \in Int
    BY <1>1, Sizes DEF RingTypes, Index
  <2> QED BY <1>2, <2>1, Sizes, RemainderRange DEF Index
<1> QED BY <1>2, <1>3, <1>4 DEF RingTypes

LEMMA PopTyped ==
  ASSUME RingTypes, NEW n \in Nat, dsdRemainderPop(n)
  PROVE  /\ RingTypes'
         /\ leftData' \in Seq(Int) /\ rightData' \in Seq(Int) /\ Len(leftData') = n /\ Len(rightData') = n
<1>1. /\ leftData' = Popped(m_dsdRemainderLeft, n) /\ rightData' = Popped(m_dsdRemainderRight, n)
      /\ m_dsdRemainderReadPos' = (m_dsdRemainderReadPos + n) % RemainderSize
      /\ UNCHANGED <<m_dsdRemainderLeft, m_dsdRemainderRight, m_dsdRemainderWritePos>>
  BY DEF dsdRemainderPop
<1>2. \A i \in 1 .. n : (m_dsdRemainderReadPos + i - 1) % RemainderSize \in Index
  <2> TAKE i \in 1 .. n
  <2>1. m_dsdRemainderReadPos + i - 1 \in Int
    BY Sizes DEF RingTypes, Index
  <2> QED BY <2>1, Sizes, RemainderRange DEF Index
<1> DEFINE place(i) == (m_dsdRemainderReadPos + i - 1) % RemainderSize
<1>3. ASSUME NEW memory \in [Index -> Int]
      PROVE  Popped(memory, n) \in Seq(Int) /\ Len(Popped(memory, n)) = n
  <2>1. Popped(memory, n) = [i \in 1 .. n |-> memory[place(i)]]
    BY Zenon DEF Popped
  <2>2. \A i \in 1 .. n : place(i) \in Index
    BY <1>2
  <2> HIDE DEF place
  <2> QED BY <2>1, <2>2
<1>4. m_dsdRemainderReadPos' \in Index
  <2>1. m_dsdRemainderReadPos + n \in Int
    BY Sizes DEF RingTypes, Index
  <2> QED BY <1>1, <2>1, Sizes, RemainderRange DEF Index
<1> QED BY <1>1, <1>3, <1>4 DEF RingTypes

\* A packet's channels go to the block and to the ring.
LEMMA TakeTyped ==
  ASSUME RingTypes, BlockTypes, NEW left \in Seq(Int), NEW right \in Seq(Int), Len(left) = Len(right),
         TakeDsd(left, right)
  PROVE  /\ RingTypes'
         /\ leftData' \in Seq(Int) /\ rightData' \in Seq(Int)
         /\ Len(leftData') = Len(rightData') /\ Len(leftData') <= need
<1> DEFINE take == AtMost(Len(left), StillNeed)
<1>1. /\ leftData' = leftData \o SubSeq(left, 1, take) /\ rightData' = rightData \o SubSeq(right, 1, take)
      /\ dsdRemainderPush(Excess(left, take), Excess(right, take))
  BY DEF TakeDsd
<1>2. take \in 0 .. Len(left) /\ take <= need - Len(leftData)
  BY DEF BlockTypes, StillNeed, AtMost
<1> HIDE DEF take
<1>3. /\ SubSeq(left, 1, take) \in Seq(Int) /\ Len(SubSeq(left, 1, take)) = take
      /\ SubSeq(right, 1, take) \in Seq(Int) /\ Len(SubSeq(right, 1, take)) = take
  BY <1>2, StartOfSeq
<1>4. /\ Excess(left, take) \in Seq(Int) /\ Len(Excess(left, take)) = Len(left) - take
      /\ Excess(right, take) \in Seq(Int) /\ Len(Excess(right, take)) = Len(right) - take
  BY <1>2, RestOfSeq DEF Excess
<1>5. RingTypes'
  BY <1>1, <1>4, PushTyped
<1>6. /\ leftData' \in Seq(Int) /\ Len(leftData') = Len(leftData) + take
      /\ rightData' \in Seq(Int) /\ Len(rightData') = Len(rightData) + take
  BY <1>1, <1>3, ConcatProperties DEF BlockTypes
<1> QED BY <1>2, <1>5, <1>6 DEF BlockTypes

\* The file and the codec's part of it stay as they are.
LEMMA FileKept ==
  ASSUME FileTypes, UNCHANGED file, at' \in 0 .. file.stored, m_eof' \in BOOLEAN, errors' \in 0 .. MaxErrors
  PROVE  FileTypes'
BY DEF FileTypes

LEMMA RingKept ==
  ASSUME RingTypes, UNCHANGED remainder
  PROVE  RingTypes'
BY DEF RingTypes, remainder

LEMMA FailsTyped ==
  ASSUME FileTypes, Fails
  PROVE  errors' \in 0 .. MaxErrors
BY Sizes DEF FileTypes, Fails

LEMMA KindOfFile ==
  ASSUME FileTypes
  PROVE  /\ file.kind \in {"dsf", "dff", "pcm", "closed"} /\ file.stored \in Nat /\ at \in Nat /\ at <= file.stored
         /\ file.kind # "closed" => file \in Files
BY Sizes DEF FileTypes

LEMMA OpenTyped ==
  ASSUME Types, NEW f \in Files, Open(f)
  PROVE  Types'
<1>1. file = Closed /\ file' = f /\ m_eof' = FALSE /\ UNCHANGED <<at, remainder, frames, m_pcmFifo, m_bypassMode>>
      /\ UNCHANGED <<m_resamplerInitialized, read, errors, history>>
  BY DEF Open
<1>2. at = 0
  BY <1>1, KindOfFile, Sizes DEF Types
<1>3. FileTypes'
  <2>1. file'.stored \in Nat /\ at' = 0 /\ file' \in Files
    BY <1>1, <1>2, Sizes
  <2>2. at' \in 0 .. file'.stored
    BY <2>1
  <2> QED BY <1>1, <2>1, <2>2 DEF Types, FileTypes
<1>4. RingTypes'
  BY <1>1, RingKept DEF Types
<1>5. BlockTypes'
  BY <1>1 DEF Types, BlockTypes, read, history
<1>6. CodecTypes'
  <2>1. m_pcmFifo = <<>> /\ frames = <<>> /\ file.kind = "closed"
    BY <1>1, Sizes DEF Types, CodecTypes
  <2> QED BY <1>1, <2>1 DEF Types, CodecTypes, read
<1> QED BY <1>3, <1>4, <1>5, <1>6 DEF Types

LEMMA CloseTyped ==
  ASSUME Types, Close
  PROVE  Types'
<1>1. /\ file' = Closed /\ at' = 0 /\ m_eof' = FALSE /\ frames' = <<>> /\ m_pcmFifo' = <<>>
      /\ m_bypassMode' = FALSE /\ m_resamplerInitialized' = FALSE
      /\ m_dsdRemainderReadPos' = 0 /\ m_dsdRemainderWritePos' = 0
      /\ UNCHANGED <<m_dsdRemainderLeft, m_dsdRemainderRight>>
      /\ expected' = 0 /\ lost' = 0 /\ UNCHANGED <<read, errors>> /\ ~reading
  BY DEF Close, Reset, dsdRemainderClear
<1>2. FileTypes'
  <2>1. file'.stored = 0 /\ at' = 0
    BY <1>1, Sizes
  <2>2. at' \in 0 .. file'.stored
    BY <2>1
  <2> QED BY <1>1, <2>2 DEF Types, FileTypes
<1>3. RingTypes'
  <2>1. 0 \in Index
    BY Sizes DEF Index
  <2> QED BY <1>1, <2>1 DEF Types, RingTypes
<1>4. BlockTypes'
  BY <1>1 DEF Types, BlockTypes, read
<1>5. CodecTypes'
  <2>1. ~receiving
    BY <1>1 DEF Types, CodecTypes
  <2>2. <<>> \in Seq(FrameType) /\ <<>> \in Seq(Int \X Int)
    OBVIOUS
  <2> QED BY <1>1, <2>1, <2>2 DEF Types, CodecTypes, read
<1> QED BY <1>2, <1>3, <1>4, <1>5 DEF Types

\* A seek that succeeds goes to the start of a packet.
LEMMA SeekTyped ==
  ASSUME Types, NEW p \in 0 .. file.stored, Seek(p)
  PROVE  Types'
<1>1. /\ at' = (p \div file.block) * file.block /\ m_eof' = FALSE /\ ~reading
      /\ expected' = at' /\ file # Closed
      /\ UNCHANGED <<file, read, errors, lost, m_bypassMode, m_resamplerInitialized>>
  BY DEF Seek
<1>2. file \in Files
  BY <1>1 DEF Types, FileTypes
<1>3. file.stored \in Nat /\ file.block \in Nat /\ file.block > 0
  BY <1>2, Sizes
<1>4. at' \in 0 .. p
  BY <1>1, <1>3, PacketStart
<1>5. FileTypes'
  <2>1. at' \in Nat /\ p \in Nat /\ at' <= p /\ p <= file.stored /\ file.stored \in Nat
    BY <1>3, <1>4
  <2>2. at' \in 0 .. file.stored
    BY <2>1
  <2>3. errors' \in 0 .. MaxErrors
    BY <1>1 DEF Types, FileTypes, read
  <2> QED BY <1>1, <2>2, <2>3, FileKept DEF Types
<1>6. BlockTypes'
  BY <1>1, <1>4 DEF Types, BlockTypes, read
<1>7. CASE m_rawDSD
  <2>1. dsdRemainderClear /\ UNCHANGED <<frames, m_pcmFifo>>
    BY <1>7 DEF Seek
  <2>2. RingTypes'
    <3>1. 0 \in Index
      BY Sizes DEF Index
    <3> QED BY <2>1, <3>1 DEF Types, RingTypes, dsdRemainderClear
  <2>3. CodecTypes'
    BY <1>1, <2>1 DEF Types, CodecTypes, read
  <2> QED BY <1>5, <1>6, <2>2, <2>3 DEF Types
<1>8. CASE ~m_rawDSD
  <2>1. frames' = <<>> /\ m_pcmFifo' = <<>> /\ UNCHANGED remainder
    BY <1>8 DEF Seek
  <2>2. ~receiving
    BY <1>1 DEF Types, CodecTypes
  <2>3. <<>> \in Seq(FrameType) /\ <<>> \in Seq(Int \X Int)
    OBVIOUS
  <2>4. CodecTypes'
    BY <1>1, <2>1, <2>2, <2>3 DEF Types, CodecTypes, read
  <2> QED BY <1>5, <1>6, <2>1, <2>4, RingKept DEF Types
<1> QED BY <1>7, <1>8

LEMMA ReadDsdTyped ==
  ASSUME Types, NEW n \in Reads, ReadDsd(n)
  PROVE  Types'
<1> DEFINE k == AtMost(dsdRemainderAvailable, n)
<1>1. /\ reading' = TRUE /\ need' = n /\ dsdRemainderPop(k) /\ ~reading
      /\ UNCHANGED <<file, at, m_eof, codec, receiving, errors, history>>
  BY DEF ReadDsd
<1>2. k \in Nat /\ k <= n /\ n \in Nat
  BY FreeTyped, Sizes DEF Types, AtMost, Index
<1> HIDE DEF k
<1>3. RingTypes' /\ leftData' \in Seq(Int) /\ rightData' \in Seq(Int) /\ Len(leftData') = k /\ Len(rightData') = k
  BY <1>1, <1>2, PopTyped DEF Types
<1>4. FileTypes'
  BY <1>1 DEF Types, FileTypes
<1>5. BlockTypes'
  BY <1>1, <1>2, <1>3 DEF Types, BlockTypes, history
<1>6. CodecTypes'
  BY <1>1 DEF Types, CodecTypes, codec
<1> QED BY <1>3, <1>4, <1>5, <1>6 DEF Types

\* What comes out of the FIFO, and what stays.
LEMMA FifoTyped ==
  ASSUME NEW fifo \in Seq(Int \X Int), NEW k \in 0 .. Len(fifo)
  PROVE  /\ [i \in 1 .. k |-> fifo[i][1]] \in Seq(Int) /\ Len([i \in 1 .. k |-> fifo[i][1]]) = k
         /\ [i \in 1 .. k |-> fifo[i][2]] \in Seq(Int) /\ Len([i \in 1 .. k |-> fifo[i][2]]) = k
         /\ SubSeq(fifo, k + 1, Len(fifo)) \in Seq(Int \X Int)
<1>1. SubSeq(fifo, k + 1, Len(fifo)) \in Seq(Int \X Int)
  BY RestOfSeq
<1>2. \A i \in 1 .. k : fifo[i] \in Int \X Int
  OBVIOUS
<1>3. \A i \in 1 .. k : fifo[i][1] \in Int /\ fifo[i][2] \in Int
  BY <1>2
<1> QED BY <1>1, <1>3

LEMMA ReadPcmTyped ==
  ASSUME Types, NEW n \in Reads, ReadPcm(n)
  PROVE  Types'
<1>1. /\ reading' = TRUE /\ ~reading /\ file.kind = "pcm"
      /\ UNCHANGED <<file, at, m_eof, remainder, frames, receiving, history>>
  BY DEF ReadPcm
<1>2. n \in Nat /\ <<>> \in Seq(Int) /\ Len(<<>>) = 0 /\ <<>> \in Seq(Int \X Int)
  BY Sizes
<1>3. RingTypes'
  BY <1>1, RingKept DEF Types
<1>4. CASE initResampler /\ need' = n /\ leftData' = <<>> /\ rightData' = <<>> /\ UNCHANGED errors
  <2>1. m_pcmFifo' = <<>> /\ m_resamplerInitialized' = TRUE /\ m_bypassMode' \in BOOLEAN
    BY <1>4 DEF initResampler, canBypass
  <2>2. FileTypes'
    BY <1>1, <1>4 DEF Types, FileTypes
  <2>3. BlockTypes'
    BY <1>1, <1>2, <1>4 DEF Types, BlockTypes, history
  <2>4. CodecTypes'
    BY <1>1, <1>2, <2>1 DEF Types, CodecTypes
  <2> QED BY <1>3, <2>2, <2>3, <2>4 DEF Types
<1>5. CASE initResamplerFails /\ need' = 0 /\ leftData' = <<>> /\ rightData' = <<>>
  <2>1. m_pcmFifo' = <<>> /\ m_resamplerInitialized' = FALSE /\ m_bypassMode' = FALSE /\ errors' \in 0 .. MaxErrors
    BY <1>5, FailsTyped DEF initResamplerFails, Types
  <2>2. FileTypes'
    BY <1>1, <2>1 DEF Types, FileTypes
  <2>3. BlockTypes'
    BY <1>1, <1>2, <1>5 DEF Types, BlockTypes, history
  <2>4. CodecTypes'
    BY <1>1, <1>2, <2>1 DEF Types, CodecTypes
  <2> QED BY <1>3, <2>2, <2>3, <2>4 DEF Types
<1>6. CASE /\ need' = n /\ UNCHANGED <<m_bypassMode, m_resamplerInitialized, errors>>
           /\ \E k \in {AtMost(Len(m_pcmFifo), n)} :
                /\ leftData' = [i \in 1 .. k |-> m_pcmFifo[i][1]]
                /\ rightData' = [i \in 1 .. k |-> m_pcmFifo[i][2]]
                /\ m_pcmFifo' = SubSeq(m_pcmFifo, k + 1, Len(m_pcmFifo))
  <2> DEFINE k == AtMost(Len(m_pcmFifo), n)
  <2>1. k \in 0 .. Len(m_pcmFifo) /\ k <= n
    BY <1>2 DEF AtMost, Types, CodecTypes
  <2>2. /\ leftData' = [i \in 1 .. k |-> m_pcmFifo[i][1]] /\ rightData' = [i \in 1 .. k |-> m_pcmFifo[i][2]]
        /\ m_pcmFifo' = SubSeq(m_pcmFifo, k + 1, Len(m_pcmFifo))
    BY <1>6
  <2> HIDE DEF k
  <2>3. /\ leftData' \in Seq(Int) /\ rightData' \in Seq(Int) /\ Len(leftData') = k /\ Len(rightData') = k
        /\ m_pcmFifo' \in Seq(Int \X Int)
    BY <2>1, <2>2, FifoTyped DEF Types, CodecTypes
  <2>4. FileTypes'
    BY <1>1, <1>6 DEF Types, FileTypes
  <2>5. BlockTypes'
    BY <1>1, <1>2, <1>6, <2>1, <2>3 DEF Types, BlockTypes, history
  <2>6. CodecTypes'
    BY <1>1, <1>6, <2>3 DEF Types, CodecTypes
  <2> QED BY <1>3, <2>4, <2>5, <2>6 DEF Types
<1> QED BY <1>4, <1>5, <1>6 DEF ReadPcm

LEMMA DsfPacketTyped ==
  ASSUME Types, DsfPacket
  PROVE  Types'
<1> DEFINE size == AtMost(file.block, file.stored - at)
<1>1. /\ TakeDsd(Left(at, size), Right(at, size)) /\ at' = at + size
      /\ UNCHANGED <<file, m_eof, codec, reading, need, receiving, errors, history>> /\ reading
      /\ file.kind = "dsf" /\ at < file.stored
  BY DEF DsfPacket, Wants
<1>2. at \in Nat /\ size \in Nat /\ at + size <= file.stored /\ file.stored \in Nat
  BY <1>1, KindOfFile, Sizes DEF Types, AtMost
<1> HIDE DEF size
<1>3. /\ RingTypes' /\ leftData' \in Seq(Int) /\ rightData' \in Seq(Int)
      /\ Len(leftData') = Len(rightData') /\ Len(leftData') <= need
  <2>1. /\ Left(at, size) \in Seq(Int) /\ Right(at, size) \in Seq(Int) /\ Len(Left(at, size)) = Len(Right(at, size))
    BY <1>2, ChannelsTyped
  <2> QED BY <1>1, <2>1, TakeTyped DEF Types
<1>4. FileTypes'
  BY <1>1, <1>2 DEF Types, FileTypes
<1>5. BlockTypes'
  BY <1>1, <1>3 DEF Types, BlockTypes, history
<1>6. CodecTypes'
  BY <1>1 DEF Types, CodecTypes, codec
<1> QED BY <1>3, <1>4, <1>5, <1>6 DEF Types

\* What is asked for of a DFF file is even, and no more than the block needs.
LEMMA AskedFor ==
  ASSUME Types, reading
  PROVE  /\ interleavedToRead \in Int /\ interleavedToRead % 2 = 0 /\ interleavedToRead <= 2 * StillNeed
         /\ StillNeed \in Nat
<1>1. \A n \in Int : Even(n) \in Int /\ Even(n) % 2 = 0
  BY DEF Even
<1>2. StillNeed \in Nat
  BY DEF Types, BlockTypes, StillNeed
<1>3. StillNeed * 2 \in Int /\ (StillNeed * 2) % 2 = 0
  BY <1>2
<1>4. m_dffDataRemaining \in Int /\ DffChunk \in Int
  BY AudioDecoderAssumption, KindOfFile, Sizes DEF m_dffDataRemaining, Types, FileTypes, Closed
<1>5. /\ Even(m_dffDataRemaining) \in Int /\ Even(m_dffDataRemaining) % 2 = 0
      /\ Even(DffChunk) \in Int /\ Even(DffChunk) % 2 = 0
  BY <1>1, <1>4
<1> DEFINE a == StillNeed * 2  b == Even(m_dffDataRemaining)  c == Even(DffChunk)
<1>6. interleavedToRead = AtMost(AtMost(a, b), c)
  BY DEF interleavedToRead
<1>7. a \in Int /\ b \in Int /\ c \in Int /\ a % 2 = 0 /\ b % 2 = 0 /\ c % 2 = 0
  BY <1>3, <1>5
<1> HIDE DEF a, b, c
<1>8. AtMost(AtMost(a, b), c) \in {a, b, c} /\ AtMost(AtMost(a, b), c) <= a
  BY <1>7 DEF AtMost
<1> QED BY <1>2, <1>6, <1>7, <1>8 DEF a

LEMMA DffPacketTyped ==
  ASSUME Types, DffPacket
  PROVE  Types'
<1> DEFINE bytes == AtMost(interleavedToRead, file.stored - at)
           left == [i \in 1 .. bytes \div 2 |-> at + 2 * (i - 1)]
           right == [i \in 1 .. bytes \div 2 |-> at + 2 * (i - 1) + 1]
<1>1. /\ TakeDsd(left, right) /\ at' = at + bytes
      /\ UNCHANGED <<file, m_eof, codec, reading, need, receiving, errors, history>> /\ reading
      /\ interleavedToRead > 0 /\ at < file.stored
  BY DEF DffPacket, Wants
<1>2. at \in Nat /\ bytes \in Nat /\ at + bytes <= file.stored /\ file.stored \in Nat
  <2>1. interleavedToRead \in Int /\ interleavedToRead > 0
    BY <1>1, AskedFor
  <2>2. at \in Nat /\ file.stored \in Nat /\ at < file.stored
    BY <1>1, KindOfFile DEF Types
  <2> DEFINE n == interleavedToRead
             m == file.stored
  <2> HIDE DEF n, m
  <2>3. n \in Int /\ n > 0 /\ at \in Nat /\ m \in Nat /\ at < m
    BY <2>1, <2>2 DEF n, m
  <2>4. AtMost(n, m - at) \in Nat /\ at + AtMost(n, m - at) <= m
    BY <2>3 DEF AtMost
  <2> QED BY <2>3, <2>4 DEF n, m
<1>3. bytes \div 2 \in Nat
  BY <1>2
<1> HIDE DEF bytes
<1>4. left \in Seq(Int) /\ right \in Seq(Int) /\ Len(left) = Len(right)
  BY <1>2, <1>3
<1> HIDE DEF left, right
<1>5. /\ RingTypes' /\ leftData' \in Seq(Int) /\ rightData' \in Seq(Int)
      /\ Len(leftData') = Len(rightData') /\ Len(leftData') <= need
  BY <1>1, <1>4, TakeTyped DEF Types
<1>6. FileTypes'
  BY <1>1, <1>2 DEF Types, FileTypes
<1>7. BlockTypes'
  BY <1>1, <1>5 DEF Types, BlockTypes, history
<1>8. CodecTypes'
  BY <1>1 DEF Types, CodecTypes, codec
<1> QED BY <1>5, <1>6, <1>7, <1>8 DEF Types

\* The loop ends, or the source has nothing more to give.
LEMMA LoopEndTyped ==
  ASSUME Types, EndOfFile \/ DffEnd
  PROVE  Types'
<1>1. /\ UNCHANGED <<file, at, remainder, codec, reading, receiving, leftData, rightData, history>>
      /\ m_eof' \in BOOLEAN /\ reading
      /\ UNCHANGED errors \/ Fails
      /\ UNCHANGED need \/ need' = Len(leftData)
  <2>1. CASE EndOfFile
    BY <2>1 DEF EndOfFile, Wants, read
  <2>2. CASE DffEnd
    <3>1. m_eof' = (m_dffDataRemaining > 0)
      BY <2>2 DEF DffEnd
    <3>2. m_eof' \in BOOLEAN
      BY <3>1
    <3> QED BY <2>2, <3>2, Zenon DEF DffEnd, Wants
  <2> QED BY <2>1, <2>2
<1>2. errors' \in 0 .. MaxErrors
  BY <1>1, FailsTyped DEF Types, FileTypes
<1>3. FileTypes'
  BY <1>1, <1>2 DEF Types, FileTypes
<1>4. RingTypes'
  BY <1>1, RingKept DEF Types
<1>5. BlockTypes'
  <2>1. need' \in Nat /\ Len(leftData) <= need'
    BY <1>1 DEF Types, BlockTypes
  <2> QED BY <1>1, <2>1 DEF Types, BlockTypes, history
<1>6. CodecTypes'
  BY <1>1 DEF Types, CodecTypes, codec
<1> QED BY <1>3, <1>4, <1>5, <1>6 DEF Types

LEMMA PcmPacketTyped ==
  ASSUME Types, PcmPacket
  PROVE  Types'
<1> DEFINE size == AtMost(file.block, file.stored - at)
<1>1. /\ frames' = frames \o FramesOf(size) /\ at' = at + size /\ receiving' = TRUE /\ reading
      /\ file.kind = "pcm" /\ at < file.stored
      /\ UNCHANGED <<file, m_eof, remainder, m_pcmFifo, m_bypassMode, m_resamplerInitialized>>
      /\ UNCHANGED <<reading, need, leftData, rightData, errors, history>>
  BY DEF PcmPacket, Wants
<1>2. /\ at \in Nat /\ size \in Nat /\ size > 0 /\ at + size \in 0 .. file.stored
      /\ file.split \in Nat /\ file.split > 0
  BY <1>1, KindOfFile, Sizes DEF Types, AtMost
<1> HIDE DEF size
<1>3. frames' \in Seq(FrameType) /\ frames' # <<>>
  <2>1. FramesOf(size) \in Seq(FrameType) /\ FramesOf(size) # <<>>
    BY <1>2, Frames
  <2>2. frames \in Seq(FrameType)
    BY DEF Types, CodecTypes
  <2> QED BY <1>1, <2>1, <2>2
<1>4. FileTypes'
  BY <1>1, <1>2, FileKept DEF Types, FileTypes
<1>5. RingTypes'
  BY <1>1, RingKept DEF Types
<1>6. BlockTypes'
  BY <1>1 DEF Types, BlockTypes, history
<1>7. CodecTypes'
  BY <1>1, <1>3 DEF Types, CodecTypes
<1> QED BY <1>4, <1>5, <1>6, <1>7 DEF Types

LEMMA PcmPacketFailsTyped ==
  ASSUME Types, PcmPacketFails
  PROVE  Types'
<1> DEFINE size == AtMost(file.block, file.stored - at)
<1>1. /\ at' = at + size /\ lost' = size /\ need' = Len(leftData) /\ reading
      /\ file.kind = "pcm" /\ at < file.stored
      /\ Fails \/ UNCHANGED errors
      /\ UNCHANGED <<file, m_eof, remainder, codec, reading, receiving, leftData, rightData, expected>>
  BY DEF PcmPacketFails, Wants
<1>2. /\ at \in Nat /\ size \in Nat /\ at + size \in 0 .. file.stored
  BY <1>1, KindOfFile, Sizes DEF Types, AtMost
<1> HIDE DEF size
<1>3. errors' \in 0 .. MaxErrors
  BY <1>1, FailsTyped DEF Types, FileTypes
<1>4. FileTypes'
  BY <1>1, <1>2, <1>3, FileKept DEF Types, FileTypes
<1>5. RingTypes'
  BY <1>1, RingKept DEF Types
<1>6. BlockTypes'
  BY <1>1, <1>2 DEF Types, BlockTypes
<1>7. CodecTypes'
  BY <1>1 DEF Types, CodecTypes, codec
<1> QED BY <1>4, <1>5, <1>6, <1>7 DEF Types

\* The first frame, and those after it.
LEMMA FirstFrame ==
  ASSUME Types, receiving
  PROVE  /\ Head(frames) \in FrameType /\ Head(frames).from \in Nat /\ Head(frames).size \in Nat
         /\ Tail(frames) \in Seq(FrameType)
<1>1. frames \in Seq(FrameType) /\ frames # <<>>
  BY DEF Types, CodecTypes
<1>2. Head(frames) \in FrameType /\ Tail(frames) \in Seq(FrameType)
  BY <1>1
<1> QED BY <1>2 DEF FrameType

LEMMA FrameDroppedTyped ==
  ASSUME Types, PcmFrameFails \/ LeaveBypassFails
  PROVE  Types'
<1>1. /\ UNCHANGED <<file, at, m_eof, remainder, reading, leftData, rightData, expected>>
      /\ Fails /\ reading /\ receiving
      /\ lost' = Head(frames).size /\ frames' = Tail(frames)
      /\ need' = Len(leftData) /\ receiving' = FALSE
      /\ \/ UNCHANGED <<m_pcmFifo, m_bypassMode, m_resamplerInitialized>>
         \/ m_pcmFifo' = <<>> /\ m_bypassMode' = FALSE /\ m_resamplerInitialized' = FALSE
  <2>1. CASE PcmFrameFails
    <3>1. /\ Wants /\ receiving /\ Fails
          /\ lost' = Head(frames).size /\ frames' = Tail(frames)
          /\ need' = Len(leftData) /\ receiving' = FALSE
      BY <2>1, Zenon DEF PcmFrameFails
    <3>2. /\ UNCHANGED <<file, at, m_eof, remainder, reading, leftData, rightData, expected>>
          /\ UNCHANGED <<m_pcmFifo, m_bypassMode, m_resamplerInitialized>>
      BY <2>1 DEF PcmFrameFails
    <3>3. reading
      BY <3>1 DEF Wants
    <3> QED BY <3>1, <3>2, <3>3
  <2>2. CASE LeaveBypassFails
    <3>1. /\ Wants /\ receiving /\ Fails
          /\ lost' = Head(frames).size /\ frames' = Tail(frames)
          /\ need' = Len(leftData) /\ receiving' = FALSE
          /\ m_pcmFifo' = <<>> /\ m_bypassMode' = FALSE /\ m_resamplerInitialized' = FALSE
      BY <2>2, Zenon DEF LeaveBypassFails, initResamplerFails
    <3>2. UNCHANGED <<file, at, m_eof, remainder, reading, leftData, rightData, expected>>
      BY <2>2 DEF LeaveBypassFails
    <3> QED BY <3>1, <3>2, Zenon DEF Wants
  <2> QED BY <2>1, <2>2
<1>2. Head(frames).size \in Nat /\ Tail(frames) \in Seq(FrameType)
  BY <1>1, FirstFrame
<1>3. FileTypes'
  <2>1. errors' \in 0 .. MaxErrors
    BY <1>1, FailsTyped DEF Types
  <2> QED BY <1>1, <2>1 DEF Types, FileTypes
<1>4. RingTypes'
  BY <1>1, RingKept DEF Types
<1>5. BlockTypes'
  BY <1>1, <1>2 DEF Types, BlockTypes
<1>6. CodecTypes'
  <2>1. m_bypassMode' \in BOOLEAN /\ m_resamplerInitialized' \in BOOLEAN /\ m_pcmFifo' \in Seq(Int \X Int)
    <3>1. CASE UNCHANGED <<m_pcmFifo, m_bypassMode, m_resamplerInitialized>>
      BY <3>1 DEF Types, CodecTypes
    <3>2. CASE m_pcmFifo' = <<>> /\ m_bypassMode' = FALSE /\ m_resamplerInitialized' = FALSE
      <4>1. <<>> \in Seq(Int \X Int)
        OBVIOUS
      <4> QED BY <3>2, <4>1, Zenon
    <3> QED BY <1>1, <3>1, <3>2
  <2>2. file.kind = "pcm"
    BY <1>1 DEF Types, CodecTypes
  <2> QED BY <1>1, <1>2, <2>1, <2>2 DEF Types, CodecTypes
<1> QED BY <1>3, <1>4, <1>5, <1>6 DEF Types

LEMMA LeaveBypassTyped ==
  ASSUME Types, LeaveBypass
  PROVE  Types'
<1>1. /\ UNCHANGED <<file, at, m_eof, remainder, frames, read, errors, history>>
      /\ m_pcmFifo' = <<>> /\ m_bypassMode' \in BOOLEAN /\ m_resamplerInitialized' = TRUE
  BY DEF LeaveBypass, initResampler, canBypass
<1>2. FileTypes'
  BY <1>1 DEF Types, FileTypes
<1>3. RingTypes'
  BY <1>1, RingKept DEF Types
<1>4. BlockTypes'
  BY <1>1 DEF Types, BlockTypes, read, history
<1>5. CodecTypes'
  BY <1>1 DEF Types, CodecTypes, read
<1> QED BY <1>2, <1>3, <1>4, <1>5 DEF Types

\* A frame's samples are pairs, in the format asked for or not.
LEMMA DeliveredTyped ==
  ASSUME NEW frame \in FrameType
  PROVE  Delivered(frame) \in Seq(Int \X Int) /\ Len(Delivered(frame)) = frame.size
<1> DEFINE expectedFormat == IF m_bypassMode THEN OutFormat(file) ELSE m_swrContext
           sample(i) == IF file.fmt = expectedFormat
                          THEN <<2 * (frame.from + i - 1), 2 * (frame.from + i - 1) + 1>> ELSE <<-1, -1>>
<1>1. frame.from \in Nat /\ frame.size \in Nat
  BY DEF FrameType
<1>2. \A i \in 1 .. frame.size : sample(i) \in Int \X Int
  BY <1>1
<1>3. Delivered(frame) = [i \in 1 .. frame.size |-> sample(i)]
  BY Zenon DEF Delivered
<1> HIDE DEF sample
<1> QED BY <1>1, <1>2, <1>3

LEMMA PcmFrameTyped ==
  ASSUME Types, PcmFrame
  PROVE  Types'
<1> DEFINE samples == Delivered(Head(frames))
           take == AtMost(Len(samples), StillNeed)
<1>1. /\ leftData' = leftData \o [i \in 1 .. take |-> samples[i][1]]
      /\ rightData' = rightData \o [i \in 1 .. take |-> samples[i][2]]
      /\ m_pcmFifo' = m_pcmFifo \o FifoExcess(samples, take)
      /\ frames' = Tail(frames) /\ receiving' = (frames' # <<>>) /\ reading /\ receiving
      /\ UNCHANGED <<file, at, m_eof, remainder, m_bypassMode, m_resamplerInitialized>>
      /\ UNCHANGED <<reading, need, errors, history>>
  BY DEF PcmFrame, Wants
<1>2. Tail(frames) \in Seq(FrameType)
  BY <1>1, FirstFrame
<1>3. samples \in Seq(Int \X Int)
  BY <1>1, FirstFrame, DeliveredTyped
<1> HIDE DEF samples
<1>4. take \in 0 .. Len(samples) /\ take <= need - Len(leftData)
  <2>1. Len(samples) \in Nat /\ StillNeed \in Nat /\ StillNeed = need - Len(leftData)
    BY <1>3 DEF Types, BlockTypes, StillNeed
  <2> QED BY <2>1 DEF AtMost
<1> HIDE DEF take
<1> DEFINE l == [i \in 1 .. take |-> samples[i][1]]
           r == [i \in 1 .. take |-> samples[i][2]]
<1>5. l \in Seq(Int) /\ Len(l) = take /\ r \in Seq(Int) /\ Len(r) = take
      /\ FifoExcess(samples, take) \in Seq(Int \X Int)
  BY <1>3, <1>4, FifoTyped DEF FifoExcess
<1>6. leftData' = leftData \o l /\ rightData' = rightData \o r
  BY <1>1
<1> HIDE DEF l, r
<1>7. BlockTypes'
  <2>1. /\ leftData' \in Seq(Int) /\ Len(leftData') = Len(leftData) + take
        /\ rightData' \in Seq(Int) /\ Len(rightData') = Len(rightData) + take
    <3>1. leftData \in Seq(Int) /\ rightData \in Seq(Int)
      BY DEF Types, BlockTypes
    <3>2. l \in Seq(Int) /\ r \in Seq(Int) /\ Len(l) = take /\ Len(r) = take
      BY <1>5, Zenon
    <3>3. leftData \o l \in Seq(Int) /\ Len(leftData \o l) = Len(leftData) + Len(l)
      BY <3>1, <3>2, ConcatProperties, Zenon
    <3>4. rightData \o r \in Seq(Int) /\ Len(rightData \o r) = Len(rightData) + Len(r)
      BY <3>1, <3>2, ConcatProperties, Zenon
    <3> QED BY <1>6, <3>2, <3>3, <3>4, Zenon
  <2> QED BY <1>1, <1>4, <2>1 DEF Types, BlockTypes, history
<1>8. CodecTypes'
  <2>1. m_pcmFifo' \in Seq(Int \X Int)
    <3>1. m_pcmFifo \in Seq(Int \X Int)
      BY DEF Types, CodecTypes
    <3> QED BY <1>1, <1>5, <3>1
  <2>2. file.kind = "pcm"
    BY <1>1 DEF Types, CodecTypes
  <2>3. receiving' \in BOOLEAN
    BY <1>1
  <2> QED BY <1>1, <1>2, <2>1, <2>2, <2>3 DEF Types, CodecTypes
<1>9. FileTypes'
  BY <1>1 DEF Types, FileTypes
<1>10. RingTypes'
  BY <1>1, RingKept DEF Types
<1> QED BY <1>7, <1>8, <1>9, <1>10 DEF Types

LEMMA ReturnTyped ==
  ASSUME Types, Return
  PROVE  Types'
<1>1. /\ reading' = FALSE /\ receiving' = FALSE /\ leftData' = <<>> /\ rightData' = <<>> /\ need' = 0
      /\ expected' = expected + Len(leftData) + lost /\ lost' = 0
      /\ UNCHANGED <<file, at, m_eof, remainder, codec, errors>>
  BY DEF Return
<1>2. FileTypes'
  BY <1>1 DEF Types, FileTypes
<1>3. RingTypes'
  BY <1>1, RingKept DEF Types
<1>4. BlockTypes'
  <2>1. Len(leftData) \in Nat /\ expected \in Nat /\ lost \in Nat
    BY DEF Types, BlockTypes
  <2>2. <<>> \in Seq(Int) /\ Len(<<>>) = 0 /\ expected' \in Nat
    BY <1>1, <2>1
  <2>3. /\ Len(leftData') = Len(rightData') /\ Len(leftData') <= need' /\ need' \in Nat /\ lost' \in Nat
        /\ leftData' \in Seq(Int) /\ rightData' \in Seq(Int)
    BY <1>1, <2>2
  <2> QED BY <1>1, <2>2, <2>3, Zenon DEF BlockTypes
<1>5. CodecTypes'
  BY <1>1 DEF Types, CodecTypes, codec
<1> QED BY <1>2, <1>3, <1>4, <1>5 DEF Types

LEMMA InitTyped == Init => Types
<1> SUFFICES ASSUME Init PROVE Types
  OBVIOUS
<1>1. FileTypes
  <2>1. at = 0 /\ file = Closed /\ file.stored = 0 /\ errors = 0 /\ m_eof = FALSE
    BY Sizes DEF Init
  <2>2. at \in 0 .. file.stored /\ errors \in 0 .. MaxErrors
    BY <2>1, Sizes
  <2> QED BY <2>1, <2>2 DEF FileTypes
<1>2. RingTypes
  <2>1. 0 \in Index
    BY Sizes DEF Index
  <2>2. NoMemory \in [Index -> Int]
    BY DEF NoMemory, Index
  <2> QED BY <2>1, <2>2 DEF Init, RingTypes
<1>3. BlockTypes
  <2>1. <<>> \in Seq(Int) /\ Len(<<>>) = 0
    OBVIOUS
  <2>2. /\ reading = FALSE /\ need = 0 /\ leftData = <<>> /\ rightData = <<>> /\ expected = 0 /\ lost = 0
    BY DEF Init
  <2>3. /\ Len(leftData) = Len(rightData) /\ Len(leftData) <= need /\ need \in Nat
        /\ expected \in Nat /\ lost \in Nat /\ leftData \in Seq(Int) /\ rightData \in Seq(Int)
    BY <2>1, <2>2
  <2> QED BY <2>2, <2>3, Zenon DEF BlockTypes
<1>4. CodecTypes
  <2>1. <<>> \in Seq(FrameType) /\ <<>> \in Seq(Int \X Int)
    OBVIOUS
  <2>2. /\ frames = <<>> /\ m_pcmFifo = <<>> /\ m_bypassMode = FALSE /\ m_resamplerInitialized = FALSE
        /\ receiving = FALSE
    BY DEF Init
  <2> QED BY <2>1, <2>2 DEF CodecTypes
<1> QED BY <1>1, <1>2, <1>3, <1>4 DEF Types

LEMMA StutterTyped ==
  ASSUME Types, UNCHANGED vars
  PROVE  Types'
<1>1. UNCHANGED <<file, at, m_eof, remainder, codec, read, errors, history>>
  BY DEF vars
<1>2. FileTypes'
  BY <1>1 DEF Types, FileTypes
<1>3. RingTypes'
  BY <1>1, RingKept DEF Types
<1>4. BlockTypes'
  BY <1>1 DEF Types, BlockTypes, read, history
<1>5. CodecTypes'
  BY <1>1 DEF Types, CodecTypes, codec, read
<1> QED BY <1>2, <1>3, <1>4, <1>5 DEF Types

LEMMA NextTyped == Types /\ [Next]_vars => Types'
<1> SUFFICES ASSUME Types, [Next]_vars PROVE Types'
  OBVIOUS
<1>1. CASE UNCHANGED vars
  BY <1>1, StutterTyped
<1>2. CASE \E f \in Files : Open(f)
  BY <1>2, OpenTyped
<1>3. CASE Close
  BY <1>3, CloseTyped
<1>4. CASE \E p \in 0 .. file.stored : Seek(p)
  BY <1>4, SeekTyped
<1>5. CASE \E n \in Reads : ReadDsd(n) \/ ReadPcm(n)
  BY <1>5, ReadDsdTyped, ReadPcmTyped
<1>6. CASE EndOfFile \/ DffEnd
  BY <1>6, LoopEndTyped
<1>7. CASE DsfPacket \/ DffPacket
  BY <1>7, DsfPacketTyped, DffPacketTyped
<1>8. CASE PcmPacket \/ PcmPacketFails
  BY <1>8, PcmPacketTyped, PcmPacketFailsTyped
<1>9. CASE PcmFrame
  BY <1>9, PcmFrameTyped
<1>10. CASE PcmFrameFails \/ LeaveBypassFails
  BY <1>10, FrameDroppedTyped
<1>11. CASE LeaveBypass
  BY <1>11, LeaveBypassTyped
<1>12. CASE Return
  BY <1>12, ReturnTyped
<1> QED BY <1>1, <1>2, <1>3, <1>4, <1>5, <1>6, <1>7, <1>8, <1>9, <1>10, <1>11, <1>12 DEF Next, Step

LEMMA Typed == Spec => []Types
BY InitTyped, NextTyped, PTL DEF Spec

\* The variables of a decoder have their types, whatever the file and the codec give:
\* a block never grows beyond what was asked for, nor one channel beyond the other.
THEOREM TypeCorrect == Spec => []TypeOK
<1>1. Types => TypeOK
  <2> SUFFICES ASSUME Types PROVE TypeOK
    OBVIOUS
  <2>1. m_rawDSD => m_pcmFifo = <<>> /\ frames = <<>>
    BY DEF Types, CodecTypes, m_rawDSD
  <2>2. m_dsdRemainderReadPos \in 0 .. RemainderSize - 1 /\ m_dsdRemainderWritePos \in 0 .. RemainderSize - 1
    BY DEF Types, RingTypes, Index
  <2> QED BY <2>1, <2>2, Zenon DEF Types, FileTypes, BlockTypes, CodecTypes, TypeOK
<1> QED BY <1>1, Typed, PTL

-----------------------------------------------------------------------------
(* The ring of bytes left over. *)

LEMMA SlotIs ==
  ASSUME RingTypes, NEW k \in 0 .. RemainderSize - 1
  PROVE  /\ (m_dsdRemainderReadPos + k) % RemainderSize \in Index
         /\ (m_dsdRemainderReadPos + k) % RemainderSize =
              IF m_dsdRemainderReadPos + k < RemainderSize THEN m_dsdRemainderReadPos + k
              ELSE m_dsdRemainderReadPos + k - RemainderSize
<1> DEFINE R == RemainderSize  r == m_dsdRemainderReadPos
<1>1. R \in Nat /\ R > 0 /\ r \in 0 .. R - 1 /\ k \in 0 .. R - 1
  BY Sizes DEF RingTypes, Index
<1> HIDE DEF R, r
<1>2. CASE r + k < R
  BY <1>1, <1>2, RemainderInside DEF Index, R, r
<1>3. CASE ~(r + k < R)
  <2>1. (r + k) % R = r + k - R
    BY <1>1, <1>3, RemainderAbove
  <2> QED BY <1>1, <1>3, <2>1 DEF Index, R, r
<1> QED BY <1>2, <1>3

\* How much is left over: the place to write at is that much beyond the place to read from.
LEMMA Available ==
  ASSUME RingTypes
  PROVE  /\ dsdRemainderAvailable \in 0 .. RemainderSize - 1
         /\ m_dsdRemainderWritePos = (m_dsdRemainderReadPos + dsdRemainderAvailable) % RemainderSize
<1> DEFINE R == RemainderSize  r == m_dsdRemainderReadPos  w == m_dsdRemainderWritePos
<1>1. R \in Nat /\ R > 0 /\ r \in 0 .. R - 1 /\ w \in 0 .. R - 1
  BY Sizes DEF RingTypes, Index
<1>2. dsdRemainderAvailable = (w - r) % R
  BY DEF dsdRemainderAvailable
<1> HIDE DEF R, r, w
<1>3. CASE w >= r
  <2>1. (w - r) % R = w - r
    BY <1>1, <1>3, RemainderInside
  <2>2. w % R = w
    BY <1>1, RemainderInside
  <2>3. r + (w - r) = w /\ w - r \in 0 .. R - 1
    BY <1>1, <1>3
  <2> QED BY <1>2, <2>1, <2>2, <2>3 DEF R, r, w
<1>4. CASE w < r
  <2>1. (w - r) % R = w - r + R
    BY <1>1, <1>4, RemainderBelow
  <2>2. (w + R) % R = w
    <3>1. (w + R) % R = w + R - R
      BY <1>1, RemainderAbove
    <3> QED BY <1>1, <3>1
  <2>3. r + (w - r + R) = w + R /\ w - r + R \in 0 .. R - 1
    BY <1>1, <1>4
  <2> QED BY <1>2, <2>1, <2>2, <2>3 DEF R, r, w
<1> QED BY <1>1, <1>3, <1>4

\* How far a slot is from the place to read from.
LEMMA Distance ==
  ASSUME NEW R \in Nat, R > 0, NEW r \in 0 .. R - 1, NEW k \in 0 .. R - 1
  PROVE  (((r + k) % R) - r) % R = k
<1>1. CASE r + k < R
  <2>1. (r + k) % R = r + k
    BY <1>1, RemainderInside
  <2>2. r + k - r = k /\ k % R = k
    BY RemainderInside
  <2> QED BY <2>1, <2>2
<1>2. CASE ~(r + k < R)
  <2>1. (r + k) % R = r + k - R
    BY <1>2, RemainderAbove
  <2>2. r + k - R - r = k - R /\ (k - R) % R = k - R + R
    BY RemainderBelow
  <2>3. k - R + R = k
    OBVIOUS
  <2> QED BY <2>1, <2>2, <2>3
<1> QED BY <1>1, <1>2

\* A slot counted from another slot.
LEMMA SlotAfter ==
  ASSUME NEW R \in Nat, R > 0, NEW r \in 0 .. R - 1, NEW n \in Nat, NEW k \in Nat, n + k < R
  PROVE  (((r + n) % R) + k) % R = (r + (n + k)) % R
<1>1. CASE r + n < R
  <2>1. (r + n) % R = r + n
    BY <1>1, RemainderInside
  <2> QED BY <2>1
<1>2. CASE ~(r + n < R)
  <2>1. (r + n) % R = r + n - R
    BY <1>2, RemainderAbove
  <2>2. (r + (n + k)) % R = r + (n + k) - R
    BY <1>2, RemainderAbove
  <2>3. (r + n - R + k) % R = r + n - R + k
    BY <1>2, RemainderInside
  <2>4. r + n - R + k = r + (n + k) - R
    OBVIOUS
  <2> QED BY <2>1, <2>2, <2>3, <2>4
<1> QED BY <1>1, <1>2

\* What is pushed into an empty ring that has the room comes out of it in the same order.
LEMMA PushPlaced ==
  ASSUME RingTypes, dsdRemainderAvailable = 0, NEW left \in Seq(Int), NEW right \in Seq(Int), Len(left) = Len(right),
         Len(left) < RemainderSize, dsdRemainderPush(left, right)
  PROVE  /\ dsdRemainderAvailable' = Len(left)
         /\ \A k \in 0 .. Len(left) - 1 :
              /\ m_dsdRemainderLeft'[(m_dsdRemainderReadPos' + k) % RemainderSize] = left[k + 1]
              /\ m_dsdRemainderRight'[(m_dsdRemainderReadPos' + k) % RemainderSize] = right[k + 1]
<1> DEFINE R == RemainderSize  r == m_dsdRemainderReadPos  n == Len(left)
<1>1. R \in Nat /\ R > 0 /\ r \in 0 .. R - 1 /\ n \in 0 .. R - 1
  BY Sizes DEF RingTypes, Index
<1>2. m_dsdRemainderWritePos = r
  <2>1. m_dsdRemainderWritePos = (r + 0) % R
    BY Available
  <2> HIDE DEF R, r
  <2>2. r + 0 = r /\ r % R = r
    BY <1>1, RemainderInside
  <2> QED BY <2>1, <2>2
<1>3. dsdRemainderFree = R - 1
  <2>1. dsdRemainderFree = (r - r - 1) % R
    BY <1>2 DEF dsdRemainderFree
  <2> HIDE DEF R, r
  <2>2. r - r - 1 = 0 - 1
    BY <1>1
  <2>3. (0 - 1) % R = 0 - 1 + R
    <3> DEFINE b == 0 - 1
    <3>1. b \in Int /\ b < 0 /\ 0 - R <= b
      BY <1>1
    <3> HIDE DEF b
    <3>2. b % R = b + R
      BY <1>1, <3>1, RemainderBelow
    <3> QED BY <3>2 DEF b
  <2>4. 0 - 1 + R = R - 1
    BY <1>1
  <2> QED BY <2>1, <2>2, <2>3, <2>4
<1>4. AtMost(n, dsdRemainderFree) = n
  <2>1. n <= R - 1
    BY <1>1
  <2> HIDE DEF R, n
  <2> QED BY <1>1, <1>3, <2>1 DEF AtMost
<1>5. /\ m_dsdRemainderLeft' = Pushed(m_dsdRemainderLeft, left, n)
      /\ m_dsdRemainderRight' = Pushed(m_dsdRemainderRight, right, n)
      /\ m_dsdRemainderWritePos' = (r + n) % R /\ m_dsdRemainderReadPos' = r
  BY <1>2, <1>4, Zenon DEF dsdRemainderPush
<1>6. dsdRemainderAvailable' = n
  <2>1. dsdRemainderAvailable' = (((r + n) % R) - r) % R
    BY <1>5 DEF dsdRemainderAvailable
  <2> HIDE DEF R, r, n
  <2> QED BY <1>1, <2>1, Distance
<1>7. ASSUME NEW k \in 0 .. n - 1, NEW memory, NEW data
      PROVE  Pushed(memory, data, n)[(r + k) % R] = data[k + 1]
  <2>1. k \in 0 .. R - 1 /\ k < n
    BY <1>1
  <2>2. (r + k) % R \in 0 .. R - 1
    BY <2>1, SlotIs DEF Index
  <2>3. (((r + k) % R) - r) % R = k
    <3> HIDE DEF R, r, n
    <3> QED BY <1>1, <2>1, Distance
  <2> DEFINE p == (r + k) % R
  <2>4. Pushed(memory, data, n) = [q \in 0 .. R - 1 |-> IF (q - r) % R < n THEN data[((q - r) % R) + 1] ELSE memory[q]]
    BY <1>2, Zenon DEF Pushed
  <2>5. p \in 0 .. R - 1 /\ (p - r) % R = k
    BY <2>2, <2>3
  <2> HIDE DEF R, r, n, p
  <2>6. Pushed(memory, data, n)[p] = IF (p - r) % R < n THEN data[((p - r) % R) + 1] ELSE memory[p]
    BY <2>4, <2>5, Zenon
  <2>7. Pushed(memory, data, n)[p] = data[k + 1]
    BY <2>1, <2>5, <2>6, Zenon
  <2> QED BY <2>7 DEF p
<1> QED BY <1>5, <1>6, <1>7, Zenon

\* What is popped comes in order, and what follows it stays.
LEMMA PopPlaced ==
  ASSUME RingTypes, NEW n \in 0 .. dsdRemainderAvailable, dsdRemainderPop(n)
  PROVE  /\ dsdRemainderAvailable' = dsdRemainderAvailable - n
         /\ Len(leftData') = n /\ Len(rightData') = n
         /\ \A i \in 1 .. n : /\ leftData'[i] = m_dsdRemainderLeft[Slot(i - 1)]
                              /\ rightData'[i] = m_dsdRemainderRight[Slot(i - 1)]
         /\ \A k \in 0 .. dsdRemainderAvailable - n - 1 :
              /\ m_dsdRemainderLeft'[(m_dsdRemainderReadPos' + k) % RemainderSize] = m_dsdRemainderLeft[Slot(n + k)]
              /\ m_dsdRemainderRight'[(m_dsdRemainderReadPos' + k) % RemainderSize] = m_dsdRemainderRight[Slot(n + k)]
<1> DEFINE R == RemainderSize  r == m_dsdRemainderReadPos  a == dsdRemainderAvailable
<1>1. R \in Nat /\ R > 0 /\ r \in 0 .. R - 1 /\ a \in 0 .. R - 1 /\ n \in 0 .. a
  BY Sizes, Available DEF RingTypes, Index
<1>2. /\ leftData' = Popped(m_dsdRemainderLeft, n) /\ rightData' = Popped(m_dsdRemainderRight, n)
      /\ m_dsdRemainderReadPos' = (r + n) % R
      /\ m_dsdRemainderLeft' = m_dsdRemainderLeft /\ m_dsdRemainderRight' = m_dsdRemainderRight
      /\ m_dsdRemainderWritePos' = m_dsdRemainderWritePos
  BY DEF dsdRemainderPop
<1>3. n \in 0 .. R - 1 /\ n \in Nat
  BY <1>1
<1>4. dsdRemainderAvailable' = a - n
  <2>1. dsdRemainderAvailable' = (((r + a) % R) - ((r + n) % R)) % R
    <3>1. m_dsdRemainderWritePos = (r + a) % R
      BY Available
    <3>2. dsdRemainderAvailable' = (m_dsdRemainderWritePos' - m_dsdRemainderReadPos') % R
      BY DEF dsdRemainderAvailable
    <3> QED BY <1>2, <3>1, <3>2, Zenon
  <2>2. (r + n) % R \in 0 .. R - 1
    BY <1>3, SlotIs DEF Index
  <2> HIDE DEF R, r, a
  <2>3. a - n \in 0 .. R - 1 /\ a - n \in Nat /\ n + (a - n) = a /\ a < R
    BY <1>1, <1>3
  <2>4. (((r + n) % R) + (a - n)) % R = (r + (n + (a - n))) % R
    BY <1>1, <1>3, <2>3, SlotAfter
  <2>5. (((((r + n) % R) + (a - n)) % R) - ((r + n) % R)) % R = a - n
    BY <1>1, <2>2, <2>3, Distance
  <2> QED BY <2>1, <2>3, <2>4, <2>5
<1>5. ASSUME NEW memory
      PROVE  Len(Popped(memory, n)) = n /\ \A i \in 1 .. n : Popped(memory, n)[i] = memory[Slot(i - 1)]
  <2>1. Popped(memory, n) = [i \in 1 .. n |-> memory[(r + i - 1) % R]]
    BY Zenon DEF Popped
  <2>2. \A i \in 1 .. n : r + i - 1 = r + (i - 1)
    BY <1>1
  <2>3. \A i \in 1 .. n : Popped(memory, n)[i] = memory[(r + (i - 1)) % R]
    BY <2>1, <2>2
  <2>4. Len(Popped(memory, n)) = n
    BY <1>3, <2>1
  <2> QED BY <2>3, <2>4 DEF Slot
<1>6. ASSUME NEW k \in 0 .. a - n - 1
      PROVE  (m_dsdRemainderReadPos' + k) % RemainderSize = Slot(n + k)
  <2>1. n + k < R /\ k \in Nat
    BY <1>1, <1>3
  <2>2. (((r + n) % R) + k) % R = (r + (n + k)) % R
    <3> HIDE DEF R, r, a
    <3> QED BY <1>1, <1>3, <2>1, SlotAfter
  <2> QED BY <1>2, <2>2 DEF Slot
<1> QED BY <1>2, <1>4, <1>5, <1>6

-----------------------------------------------------------------------------
(* Blocks and packets. *)

\* Two blocks of which the second goes on where the first ends.
LEMMA Joined ==
  ASSUME NEW l \in Seq(Int), NEW r \in Seq(Int), NEW first \in Int, Len(l) = Len(r), Continues(l, r, first),
         NEW m \in Seq(Int), NEW s \in Seq(Int), Len(m) = Len(s), Continues(m, s, first + Len(l))
  PROVE  Continues(l \o m, r \o s, first)
<1>1. /\ Len(l \o m) = Len(l) + Len(m)
      /\ \A i \in 1 .. Len(l) + Len(m) :
           /\ (l \o m)[i] = IF i <= Len(l) THEN l[i] ELSE m[i - Len(l)]
           /\ (r \o s)[i] = IF i <= Len(l) THEN r[i] ELSE s[i - Len(l)]
  <2>1. /\ Len(l \o m) = Len(l) + Len(m)
        /\ \A i \in 1 .. Len(l) + Len(m) : (l \o m)[i] = IF i <= Len(l) THEN l[i] ELSE m[i - Len(l)]
    BY ConcatProperties
  <2>2. \A i \in 1 .. Len(r) + Len(s) : (r \o s)[i] = IF i <= Len(r) THEN r[i] ELSE s[i - Len(r)]
    BY ConcatProperties
  <2> QED BY <2>1, <2>2
<1> SUFFICES ASSUME NEW i \in 1 .. Len(l) + Len(m)
             PROVE  (l \o m)[i] = 2 * (first + i - 1) /\ (r \o s)[i] = 2 * (first + i - 1) + 1
  BY <1>1 DEF Continues
<1>2. CASE i <= Len(l)
  <2>1. i \in 1 .. Len(l)
    BY <1>2
  <2> QED BY <1>1, <1>2, <2>1 DEF Continues
<1>3. CASE ~(i <= Len(l))
  <2>1. i - Len(l) \in 1 .. Len(m)
    BY <1>3
  <2>2. m[i - Len(l)] = 2 * (first + Len(l) + (i - Len(l)) - 1) /\ s[i - Len(l)] = 2 * (first + Len(l) + (i - Len(l)) - 1) + 1
    BY <2>1 DEF Continues
  <2>3. first + Len(l) + (i - Len(l)) - 1 = first + i - 1
    OBVIOUS
  <2> QED BY <1>1, <1>3, <2>2, <2>3
<1> QED BY <1>2, <1>3

\* The first n samples, and those after them.
LEMMA Cut ==
  ASSUME NEW l \in Seq(Int), NEW r \in Seq(Int), NEW first \in Int, Len(l) = Len(r), Continues(l, r, first),
         NEW n \in 0 .. Len(l)
  PROVE  /\ Continues(SubSeq(l, 1, n), SubSeq(r, 1, n), first)
         /\ Continues(Excess(l, n), Excess(r, n), first + n)
<1>1. Continues(SubSeq(l, 1, n), SubSeq(r, 1, n), first)
  BY StartOfSeq DEF Continues
<1>2. /\ Len(Excess(l, n)) = Len(l) - n
      /\ \A i \in 1 .. Len(l) - n : Excess(l, n)[i] = l[n + i] /\ Excess(r, n)[i] = r[n + i]
  BY RestOfSeq DEF Excess
<1>3. ASSUME NEW i \in 1 .. Len(l) - n
      PROVE  Excess(l, n)[i] = 2 * (first + n + i - 1) /\ Excess(r, n)[i] = 2 * (first + n + i - 1) + 1
  <2>1. n + i \in 1 .. Len(l)
    OBVIOUS
  <2>2. l[n + i] = 2 * (first + (n + i) - 1) /\ r[n + i] = 2 * (first + (n + i) - 1) + 1
    BY <2>1 DEF Continues
  <2>3. first + (n + i) - 1 = first + n + i - 1
    OBVIOUS
  <2> QED BY <1>2, <2>2, <2>3
<1> QED BY <1>1, <1>2, <1>3 DEF Continues

\* A packet that goes on where the block in hand ends: the block goes on, and the ring has the rest.
LEMMA TakePlaced ==
  ASSUME RingTypes, BlockTypes, dsdRemainderAvailable = 0, Continues(leftData, rightData, expected),
         NEW left \in Seq(Int), NEW right \in Seq(Int), Len(left) = Len(right), Continues(left, right, Upcoming),
         NEW take, take = AtMost(Len(left), StillNeed), Len(left) - take < RemainderSize, TakeDsd(left, right)
  PROVE  /\ take \in 0 .. Len(left) /\ Len(leftData') = Len(leftData) + take
         /\ Continues(leftData', rightData', expected)
         /\ dsdRemainderAvailable' = Len(left) - take
         /\ \A k \in 0 .. Len(left) - take - 1 :
              /\ m_dsdRemainderLeft'[(m_dsdRemainderReadPos' + k) % RemainderSize] = 2 * (Upcoming + take + k)
              /\ m_dsdRemainderRight'[(m_dsdRemainderReadPos' + k) % RemainderSize] = 2 * (Upcoming + take + k) + 1
<1>1. /\ leftData' = leftData \o SubSeq(left, 1, take) /\ rightData' = rightData \o SubSeq(right, 1, take)
      /\ dsdRemainderPush(Excess(left, take), Excess(right, take))
  BY DEF TakeDsd
<1>2. take \in 0 .. Len(left)
  BY DEF BlockTypes, StillNeed, AtMost
<1>3. /\ SubSeq(left, 1, take) \in Seq(Int) /\ Len(SubSeq(left, 1, take)) = take
      /\ SubSeq(right, 1, take) \in Seq(Int) /\ Len(SubSeq(right, 1, take)) = take
  BY <1>2, StartOfSeq
<1>4. /\ Excess(left, take) \in Seq(Int) /\ Len(Excess(left, take)) = Len(left) - take
      /\ Excess(right, take) \in Seq(Int) /\ Len(Excess(right, take)) = Len(right) - take
  BY <1>2, RestOfSeq DEF Excess
<1>5. /\ leftData \in Seq(Int) /\ rightData \in Seq(Int) /\ Len(leftData) = Len(rightData)
      /\ expected \in Int /\ Upcoming \in Int /\ Upcoming = expected + Len(leftData)
  BY DEF BlockTypes, Upcoming
<1>6. /\ Continues(SubSeq(left, 1, take), SubSeq(right, 1, take), Upcoming)
      /\ Continues(Excess(left, take), Excess(right, take), Upcoming + take)
  BY <1>2, <1>5, Cut
<1>7. Len(leftData') = Len(leftData) + take
  BY <1>1, <1>3, <1>5, ConcatProperties
<1>8. Continues(leftData', rightData', expected)
  <2> DEFINE m == SubSeq(left, 1, take)  s == SubSeq(right, 1, take)
  <2>1. m \in Seq(Int) /\ s \in Seq(Int) /\ Len(m) = Len(s) /\ Continues(m, s, expected + Len(leftData))
    BY <1>3, <1>5, <1>6
  <2>2. leftData' = leftData \o m /\ rightData' = rightData \o s
    BY <1>1
  <2> HIDE DEF m, s
  <2> QED BY <1>5, <2>1, <2>2, Joined
<1>9. /\ dsdRemainderAvailable' = Len(left) - take
      /\ \A k \in 0 .. Len(left) - take - 1 :
           /\ m_dsdRemainderLeft'[(m_dsdRemainderReadPos' + k) % RemainderSize] = Excess(left, take)[k + 1]
           /\ m_dsdRemainderRight'[(m_dsdRemainderReadPos' + k) % RemainderSize] = Excess(right, take)[k + 1]
  <2> DEFINE m == Excess(left, take)  s == Excess(right, take)
  <2>1. m \in Seq(Int) /\ s \in Seq(Int) /\ Len(m) = Len(s) /\ Len(m) < RemainderSize /\ dsdRemainderPush(m, s)
    BY <1>1, <1>4
  <2>2. Len(m) = Len(left) - take
    BY <1>4
  <2> HIDE DEF m, s
  <2>3. /\ dsdRemainderAvailable' = Len(m)
        /\ \A k \in 0 .. Len(m) - 1 :
              /\ m_dsdRemainderLeft'[(m_dsdRemainderReadPos' + k) % RemainderSize] = m[k + 1]
              /\ m_dsdRemainderRight'[(m_dsdRemainderReadPos' + k) % RemainderSize] = s[k + 1]
    BY <2>1, PushPlaced
  <2> QED BY <2>2, <2>3 DEF m, s
<1>10. ASSUME NEW k \in 0 .. Len(left) - take - 1
       PROVE  /\ Excess(left, take)[k + 1] = 2 * (Upcoming + take + k)
              /\ Excess(right, take)[k + 1] = 2 * (Upcoming + take + k) + 1
  <2>1. k + 1 \in 1 .. Len(Excess(left, take))
    BY <1>2, <1>4
  <2>2. /\ Excess(left, take)[k + 1] = 2 * (Upcoming + take + (k + 1) - 1)
        /\ Excess(right, take)[k + 1] = 2 * (Upcoming + take + (k + 1) - 1) + 1
    BY <1>6, <2>1 DEF Continues
  <2>3. Upcoming + take + (k + 1) - 1 = Upcoming + take + k
    BY <1>2, <1>5
  <2> QED BY <2>2, <2>3
<1> QED BY <1>2, <1>7, <1>8, <1>9, <1>10

-----------------------------------------------------------------------------
(* The steps that a file without a codec has. *)

LEMMA DsdFile ==
  ASSUME Types, m_rawDSD
  PROVE  file \in Files /\ file # Closed /\ file.kind # "pcm" /\ file.kind # "closed"
BY Sizes, KindOfFile DEF Types, m_rawDSD

LEMMA DsdPlaced ==
  ASSUME Types, m_rawDSD, UNCHANGED file, DsdInv', Continues(leftData', rightData', expected')
  PROVE  Placed'
<1>1. file' # Closed /\ file'.kind # "pcm"
  BY DsdFile
<1>2. ClosedInv' /\ PcmInv'
  BY <1>1 DEF ClosedInv, PcmInv
<1> QED BY <1>2 DEF Placed

\* What a block has, as numbers.
LEMMA BlockHas ==
  ASSUME Types
  PROVE  /\ Len(leftData) \in Nat /\ expected \in Nat /\ Upcoming \in Nat /\ StillNeed \in Nat
         /\ Upcoming = expected + Len(leftData) /\ StillNeed = need - Len(leftData) /\ need \in Nat
         /\ leftData \in Seq(Int) /\ rightData \in Seq(Int) /\ Len(leftData) = Len(rightData) /\ reading \in BOOLEAN
         /\ ~reading => Len(leftData) = 0
<1>1. Len(<<>>) = 0
  OBVIOUS
<1> QED BY <1>1 DEF Types, BlockTypes, Upcoming, StillNeed

LEMMA ReadDsdPlaced ==
  ASSUME Types, Placed, NEW n \in Reads, ReadDsd(n)
  PROVE  Placed'
<1> DEFINE a == dsdRemainderAvailable
           k == AtMost(a, n)
<1>1. /\ reading' = TRUE /\ need' = n /\ dsdRemainderPop(k) /\ ~reading /\ ~m_eof /\ m_rawDSD
      /\ UNCHANGED <<file, at, m_eof, codec, receiving, errors, history>>
  BY DEF ReadDsd
<1>2. a \in Nat /\ n \in Nat /\ n > 0
  BY Available, Sizes DEF Types
<1>3. k \in 0 .. a /\ k <= n /\ (k < n => k = a)
  <2> HIDE DEF a
  <2> QED BY <1>2 DEF AtMost
<1> HIDE DEF k
<1>4. Upcoming = expected /\ expected \in Nat
  BY <1>1, BlockHas
<1>5. /\ lost = 0 /\ expected + a = Samples
      /\ \A j \in 0 .. a - 1 :
           m_dsdRemainderLeft[Slot(j)] = 2 * (expected + j) /\ m_dsdRemainderRight[Slot(j)] = 2 * (expected + j) + 1
      /\ file.kind = "dff" => at % 2 = 0 \/ at = file.stored
  BY <1>1, <1>4, Zenon DEF Placed, DsdInv
<1>6. /\ dsdRemainderAvailable' = a - k
      /\ Len(leftData') = k
      /\ \A i \in 1 .. k : /\ leftData'[i] = m_dsdRemainderLeft[Slot(i - 1)]
                           /\ rightData'[i] = m_dsdRemainderRight[Slot(i - 1)]
      /\ \A j \in 0 .. a - k - 1 :
           /\ m_dsdRemainderLeft'[(m_dsdRemainderReadPos' + j) % RemainderSize] = m_dsdRemainderLeft[Slot(k + j)]
           /\ m_dsdRemainderRight'[(m_dsdRemainderReadPos' + j) % RemainderSize] = m_dsdRemainderRight[Slot(k + j)]
  BY <1>1, <1>3, PopPlaced DEF Types
<1> HIDE DEF a
<1>7. Continues(leftData', rightData', expected')
  <2>1. expected' = expected
    BY <1>1 DEF history
  <2>2. ASSUME NEW i \in 1 .. k
        PROVE  leftData'[i] = 2 * (expected + i - 1) /\ rightData'[i] = 2 * (expected + i - 1) + 1
    <3>1. i - 1 \in 0 .. a - 1 /\ expected + (i - 1) = expected + i - 1
      BY <1>2, <1>3, <1>4
    <3> QED BY <1>5, <1>6, <3>1
  <2> QED BY <1>6, <2>1, <2>2 DEF Continues
<1>8. DsdInv'
  <2>1. Upcoming' = expected + k /\ StillNeed' = n - k
    BY <1>1, <1>6 DEF Upcoming, StillNeed, history
  <2>2. Samples' = Samples /\ lost' = 0
    BY <1>1, <1>5 DEF Samples, history
  <2>3. Upcoming' + dsdRemainderAvailable' = Samples'
    BY <1>2, <1>3, <1>4, <1>5, <1>6, <2>1, <2>2
  <2>4. ASSUME NEW j \in 0 .. dsdRemainderAvailable' - 1
        PROVE  /\ m_dsdRemainderLeft'[Slot(j)'] = 2 * (Upcoming' + j)
               /\ m_dsdRemainderRight'[Slot(j)'] = 2 * (Upcoming' + j) + 1
    <3>1. j \in 0 .. a - k - 1 /\ k + j \in 0 .. a - 1 /\ expected + (k + j) = expected + k + j
      BY <1>2, <1>3, <1>4, <1>6
    <3>2. Slot(j)' = (m_dsdRemainderReadPos' + j) % RemainderSize
      BY DEF Slot
    <3>3. /\ m_dsdRemainderLeft[Slot(k + j)] = 2 * (expected + (k + j))
          /\ m_dsdRemainderRight[Slot(k + j)] = 2 * (expected + (k + j)) + 1
      BY <1>5, <3>1
    <3>4. /\ m_dsdRemainderLeft'[Slot(j)'] = m_dsdRemainderLeft[Slot(k + j)]
          /\ m_dsdRemainderRight'[Slot(j)'] = m_dsdRemainderRight[Slot(k + j)]
      BY <1>6, <3>1, <3>2
    <3> QED BY <2>1, <3>1, <3>3, <3>4
  <2>5. (reading' /\ StillNeed' > 0) \/ m_eof' => dsdRemainderAvailable' = 0
    <3>1. ~m_eof'
      BY <1>1
    <3>2. StillNeed' > 0 => dsdRemainderAvailable' = 0
      BY <1>2, <1>3, <1>6, <2>1
    <3> QED BY <3>1, <3>2, Zenon
  <2>6. file'.kind = "dff" => at' % 2 = 0 \/ at' = file'.stored
    BY <1>1, <1>5
  <2> QED BY <2>2, <2>3, <2>4, <2>5, <2>6, Zenon DEF DsdInv
<1> QED BY <1>1, <1>7, <1>8, DsdPlaced

\* A packet of a file without a codec, that goes on where the block in hand ends.
LEMMA PacketPlaced ==
  ASSUME Types, Placed, Wants, m_rawDSD, UNCHANGED <<file, m_eof, reading, need, history>>,
         NEW left \in Seq(Int), NEW right \in Seq(Int), Len(left) = Len(right), Continues(left, right, Samples),
         Len(left) - AtMost(Len(left), StillNeed) < RemainderSize, TakeDsd(left, right),
         Samples' = Samples + Len(left), file.kind = "dff" => at' % 2 = 0 \/ at' = file.stored
  PROVE  Placed'
<1> DEFINE size == Len(left)
           take == AtMost(size, StillNeed)
<1>1. StillNeed > 0 /\ ~m_eof
  BY DEF Wants
<1>2. dsdRemainderAvailable = 0 /\ lost = 0 /\ Upcoming + dsdRemainderAvailable = Samples
  BY DEF Placed, DsdInv, Wants
<1>3. Upcoming = Samples /\ Upcoming \in Nat
  BY <1>2, BlockHas
<1>4. /\ take \in 0 .. size /\ Len(leftData') = Len(leftData) + take
      /\ Continues(leftData', rightData', expected)
      /\ dsdRemainderAvailable' = size - take
      /\ \A k \in 0 .. size - take - 1 :
           /\ m_dsdRemainderLeft'[(m_dsdRemainderReadPos' + k) % RemainderSize] = 2 * (Upcoming + take + k)
           /\ m_dsdRemainderRight'[(m_dsdRemainderReadPos' + k) % RemainderSize] = 2 * (Upcoming + take + k) + 1
  <2>1. RingTypes /\ BlockTypes /\ Continues(leftData, rightData, expected) /\ Continues(left, right, Upcoming)
    BY <1>3 DEF Types, Placed
  <2> QED BY <1>2, <2>1, TakePlaced
<1>5. size \in Nat /\ (take < StillNeed => take = size)
  BY BlockHas DEF AtMost
<1> HIDE DEF size, take
<1>6. expected' = expected /\ lost' = 0
  BY <1>2 DEF history
<1>7. DsdInv'
  <2>1. Upcoming' = Upcoming + take /\ StillNeed' = StillNeed - take
    <3>1. Upcoming' = expected + (Len(leftData) + take) /\ StillNeed' = need - (Len(leftData) + take)
      BY <1>4, <1>6 DEF Upcoming, StillNeed
    <3>2. take \in Int
      BY <1>4, <1>5
    <3>3. /\ expected \in Nat /\ need \in Nat /\ Len(leftData) \in Nat
          /\ Upcoming = expected + Len(leftData) /\ StillNeed = need - Len(leftData)
      BY BlockHas, Zenon
    <3> QED BY ONLY <3>1, <3>2, <3>3
  <2>2. Upcoming' + dsdRemainderAvailable' = Samples'
    <3>1. Samples' = Samples + size
      BY Zenon DEF size
    <3>2. take \in Int /\ size \in Int /\ Upcoming \in Int
      BY <1>3, <1>4, <1>5
    <3>3. Upcoming' = Upcoming + take /\ dsdRemainderAvailable' = size - take
      BY <1>4, <2>1
    <3>4. (Upcoming + take) + (size - take) = Upcoming + size
      BY <3>2
    <3> QED BY <1>3, <3>1, <3>3, <3>4, Zenon
  <2>3. ASSUME NEW j \in 0 .. dsdRemainderAvailable' - 1
        PROVE  /\ m_dsdRemainderLeft'[Slot(j)'] = 2 * (Upcoming' + j)
               /\ m_dsdRemainderRight'[Slot(j)'] = 2 * (Upcoming' + j) + 1
    <3>1. j \in 0 .. size - take - 1
      BY <1>4
    <3>2. Slot(j)' = (m_dsdRemainderReadPos' + j) % RemainderSize
      BY DEF Slot
    <3> QED BY <1>4, <2>1, <3>1, <3>2
  <2>4. (reading' /\ StillNeed' > 0) \/ m_eof' => dsdRemainderAvailable' = 0
    <3>1. ~m_eof'
      BY <1>1
    <3>2. StillNeed' > 0 => dsdRemainderAvailable' = 0
      <4>1. take \in 0 .. size /\ dsdRemainderAvailable' = size - take /\ size \in Nat
            /\ (take < StillNeed => take = size) /\ StillNeed' = StillNeed - take
        BY <1>4, <1>5, <2>1, Zenon
      <4>2. StillNeed \in Nat
        BY BlockHas, Zenon
      <4> QED BY ONLY <4>1, <4>2
    <3> QED BY <3>1, <3>2, Zenon
  <2>5. file'.kind = "dff" => at' % 2 = 0 \/ at' = file'.stored
    OBVIOUS
  <2> QED BY <1>6, <2>2, <2>3, <2>4, <2>5, Zenon DEF DsdInv
<1> QED BY <1>4, <1>6, <1>7, DsdPlaced

LEMMA DsfPacketPlaced ==
  ASSUME Types, Placed, DsfPacket
  PROVE  Placed'
<1> DEFINE size == AtMost(file.block, file.stored - at)
<1>1. /\ TakeDsd(Left(at, size), Right(at, size)) /\ at' = at + size /\ Wants
      /\ UNCHANGED <<file, m_eof, reading, need, history>>
      /\ file.kind = "dsf" /\ at < file.stored
  BY DEF DsfPacket
<1>2. /\ at \in Nat /\ size \in Nat /\ size > 0 /\ size <= RemainderSize /\ RemainderSize \in Nat
  <2>1. file \in Files /\ at \in Nat /\ file.stored \in Nat /\ at < file.stored
    BY <1>1, KindOfFile DEF Types
  <2>2. file.block \in Nat /\ file.block > 0 /\ file.block <= RemainderSize /\ RemainderSize \in Nat
    BY <1>1, <2>1, Sizes
  <2> QED BY <2>1, <2>2 DEF AtMost
<1> HIDE DEF size
<1>3. m_rawDSD /\ Samples = at /\ Samples' = at + size
  BY <1>1 DEF m_rawDSD, Samples
<1> DEFINE left == Left(at, size)  right == Right(at, size)
<1>4. left \in Seq(Int) /\ Len(left) = size /\ right \in Seq(Int) /\ Len(right) = size
  BY <1>2, ChannelsTyped
<1>5. Continues(left, right, at)
  BY <1>2, <1>4 DEF Continues, Left, Right
<1>6. TakeDsd(left, right)
  BY <1>1
<1> HIDE DEF left, right
<1>7. StillNeed \in Nat /\ StillNeed > 0
  BY <1>1, BlockHas DEF Wants
<1>8. size - AtMost(size, StillNeed) < RemainderSize
  BY <1>2, <1>7 DEF AtMost
<1>9. /\ Len(left) = Len(right) /\ Continues(left, right, Samples)
      /\ Len(left) - AtMost(Len(left), StillNeed) < RemainderSize
      /\ Samples' = Samples + Len(left) /\ (file.kind = "dff" => at' % 2 = 0 \/ at' = file.stored)
  BY <1>1, <1>3, <1>4, <1>5, <1>8
<1> QED BY <1>1, <1>3, <1>4, <1>6, <1>9, PacketPlaced

\* Halves of even numbers.
LEMMA Halves ==
  ASSUME NEW n \in Nat, NEW m \in Nat, n % 2 = 0
  PROVE  /\ n = 2 * (n \div 2) /\ n \div 2 \in Nat /\ m \div 2 \in Nat /\ 2 * (m \div 2) <= m
         /\ (n + m) \div 2 = (n \div 2) + (m \div 2) /\ (m % 2 = 0 => (n + m) % 2 = 0)
BY SMT

LEMMA DffPacketPlaced ==
  ASSUME Types, Placed, DffPacket
  PROVE  Placed'
<1> DEFINE bytes == AtMost(interleavedToRead, file.stored - at)
           half == bytes \div 2
           left == [i \in 1 .. half |-> at + 2 * (i - 1)]
           right == [i \in 1 .. half |-> at + 2 * (i - 1) + 1]
<1>1. /\ TakeDsd(left, right) /\ at' = at + bytes /\ Wants
      /\ UNCHANGED <<file, m_eof, reading, need, history>>
      /\ file.kind = "dff" /\ interleavedToRead > 0 /\ at < file.stored
  BY DEF DffPacket
<1>2. /\ at \in Nat /\ bytes \in Nat /\ bytes <= 2 * StillNeed /\ StillNeed \in Nat
      /\ bytes % 2 = 0 \/ at + bytes = file.stored
  <2>1. /\ interleavedToRead \in Int /\ interleavedToRead > 0 /\ interleavedToRead % 2 = 0
        /\ interleavedToRead <= 2 * StillNeed /\ StillNeed \in Nat
    BY <1>1, AskedFor DEF Wants
  <2>2. at \in Nat /\ file.stored \in Nat /\ at < file.stored
    BY <1>1, KindOfFile DEF Types
  <2> DEFINE n == interleavedToRead
             m == file.stored
  <2> HIDE DEF n, m
  <2>3. n \in Int /\ n > 0 /\ at \in Nat /\ m \in Nat /\ at < m /\ n % 2 = 0 /\ n <= 2 * StillNeed /\ StillNeed \in Nat
    BY <2>1, <2>2 DEF n, m
  <2>4. /\ AtMost(n, m - at) \in Nat /\ AtMost(n, m - at) <= 2 * StillNeed
        /\ AtMost(n, m - at) % 2 = 0 \/ at + AtMost(n, m - at) = m
    <3>1. CASE n > m - at
      BY <2>3, <3>1 DEF AtMost
    <3>2. CASE ~(n > m - at)
      BY <2>3, <3>2 DEF AtMost
    <3> QED BY <3>1, <3>2
  <2> QED BY <2>3, <2>4 DEF n, m
<1> HIDE DEF bytes
<1>3. at % 2 = 0
  <2>1. at # file.stored
    BY <1>1, KindOfFile DEF Types
  <2> QED BY <1>1, <2>1 DEF Placed, DsdInv, m_rawDSD
<1>4. /\ at = 2 * (at \div 2) /\ at \div 2 \in Nat /\ half \in Nat /\ 2 * half <= bytes
      /\ (at + bytes) \div 2 = (at \div 2) + half /\ (bytes % 2 = 0 => (at + bytes) % 2 = 0)
  BY <1>2, <1>3, Halves
<1> HIDE DEF half
<1>5. m_rawDSD /\ Samples = at \div 2 /\ Samples' = (at \div 2) + half
  BY <1>1, <1>4 DEF m_rawDSD, Samples
<1>6. left \in Seq(Int) /\ right \in Seq(Int) /\ Len(left) = half /\ Len(right) = half
  BY <1>2, <1>4
<1>7. Continues(left, right, at \div 2)
  <2> DEFINE q == at \div 2
  <2>1. at = 2 * q /\ q \in Nat
    BY <1>4
  <2> HIDE DEF q
  <2>2. ASSUME NEW i \in 1 .. half
        PROVE  left[i] = 2 * (q + i - 1) /\ right[i] = 2 * (q + i - 1) + 1
    <3>1. left[i] = at + 2 * (i - 1) /\ right[i] = at + 2 * (i - 1) + 1
      OBVIOUS
    <3> HIDE DEF left, right
    <3>2. i \in Int
      BY <1>4
    <3> QED BY <2>1, <3>1, <3>2
  <2> HIDE DEF left, right
  <2> QED BY <1>6, <2>2 DEF Continues, q
<1> HIDE DEF left, right
<1>8. /\ Len(left) = Len(right) /\ Continues(left, right, Samples) /\ Samples' = Samples + Len(left)
      /\ Len(left) - AtMost(Len(left), StillNeed) < RemainderSize
  <2>1. half <= StillNeed
    BY <1>2, <1>4
  <2>2. half - AtMost(half, StillNeed) = 0 /\ RemainderSize > 0
    BY <1>2, <1>4, <2>1, Sizes DEF AtMost
  <2> QED BY <1>5, <1>6, <1>7, <2>2, Sizes
<1>9. at' % 2 = 0 \/ at' = file.stored
  BY <1>1, <1>2, <1>4
<1> QED BY <1>1, <1>5, <1>6, <1>8, <1>9, PacketPlaced

-----------------------------------------------------------------------------
(* The steps that a file with a codec has. *)

LEMMA RingSame ==
  ASSUME UNCHANGED remainder
  PROVE  /\ dsdRemainderAvailable' = dsdRemainderAvailable
         /\ UNCHANGED <<m_dsdRemainderLeft, m_dsdRemainderRight, m_dsdRemainderReadPos>>
         /\ \A k : Slot(k)' = Slot(k)
BY DEF remainder, dsdRemainderAvailable, Slot

LEMMA NothingInOrder ==
  ASSUME NEW first
  PROVE  InOrder(<<>>, first) /\ Continues(<<>>, <<>>, first)
<1>1. Len(<<>>) = 0 /\ 1 .. 0 = {}
  OBVIOUS
<1> QED BY <1>1, Zenon DEF InOrder, Continues

LEMMA PcmPlaced ==
  ASSUME Types, file.kind = "pcm", UNCHANGED file, PcmInv', Continues(leftData', rightData', expected')
  PROVE  Placed'
<1>1. file' # Closed /\ file'.kind \notin {"dsf", "dff"}
  BY Sizes
<1>2. ClosedInv' /\ DsdInv'
  BY <1>1 DEF ClosedInv, DsdInv, m_rawDSD
<1> QED BY <1>2 DEF Placed

\* The decoder when it asks for a packet, and when no read runs.
LEMMA PcmWants ==
  ASSUME Types, Placed, file.kind = "pcm", Wants
  PROVE  /\ dsdRemainderAvailable = 0 /\ m_pcmFifo = <<>> /\ lost = 0 /\ StillNeed > 0 /\ ~m_eof /\ reading
         /\ m_resamplerInitialized /\ sample_fmt \in {file.stated, file.fmt}
         /\ ~m_bypassMode => m_swrContext = file.fmt
         /\ Continues(leftData, rightData, expected)
         /\ Len(m_pcmFifo) = 0
<1>1. reading /\ StillNeed > 0 /\ ~m_eof /\ lost \in Nat
  BY DEF Wants, Types, BlockTypes
<1>2. /\ dsdRemainderAvailable = 0 /\ m_pcmFifo = <<>> /\ m_resamplerInitialized
      /\ sample_fmt \in {file.stated, file.fmt} /\ (~m_bypassMode => m_swrContext = file.fmt)
      /\ Continues(leftData, rightData, expected) /\ (lost > 0 => StillNeed = 0)
  BY <1>1, Zenon DEF Placed, PcmInv
<1>3. lost = 0
  BY <1>1, <1>2
<1>4. Len(<<>>) = 0
  OBVIOUS
<1> QED BY <1>1, <1>2, <1>3, <1>4, Zenon

LEMMA PcmIdle ==
  ASSUME Types, Placed, file.kind = "pcm", ~reading
  PROVE  /\ dsdRemainderAvailable = 0 /\ lost = 0 /\ leftData = <<>> /\ rightData = <<>> /\ ~receiving /\ frames = <<>>
         /\ Upcoming = expected /\ InOrder(m_pcmFifo, expected) /\ expected + Len(m_pcmFifo) = at
         /\ m_eof \/ ~m_resamplerInitialized => m_pcmFifo = <<>>
         /\ m_resamplerInitialized /\ ~m_bypassMode => m_swrContext = file.fmt
         /\ sample_fmt \in {file.stated, file.fmt}
         /\ expected \in Nat /\ at \in Nat /\ Len(m_pcmFifo) \in Nat
<1>1. leftData = <<>> /\ lost = 0 /\ ~receiving /\ expected \in Nat /\ m_pcmFifo \in Seq(Int \X Int)
  BY DEF Types, BlockTypes, CodecTypes
<1>2. rightData = <<>>
  <2>1. Len(rightData) = Len(leftData) /\ rightData \in Seq(Int) /\ Len(<<>>) = 0
    BY DEF Types, BlockTypes
  <2> QED BY <1>1, <2>1, EmptySeq
<1>3. Upcoming = expected
  BY <1>1, BlockHas
<1>4. /\ dsdRemainderAvailable = 0 /\ frames = <<>> /\ InOrder(m_pcmFifo, Upcoming)
      /\ Upcoming + lost + Len(m_pcmFifo) = at
      /\ (m_eof \/ ~m_resamplerInitialized => m_pcmFifo = <<>>)
      /\ (m_resamplerInitialized /\ ~m_bypassMode => m_swrContext = file.fmt)
      /\ sample_fmt \in {file.stated, file.fmt}
  BY <1>1, Zenon DEF Placed, PcmInv
<1>5. at \in Nat
  BY KindOfFile DEF Types
<1>6. Len(m_pcmFifo) \in Nat /\ expected + Len(m_pcmFifo) = at
  BY <1>1, <1>3, <1>4
<1> QED BY <1>1, <1>2, <1>3, <1>4, <1>5, <1>6, Zenon

\* The format that the resampler is set up for is the one of the frames to come.
LEMMA FormatKnown ==
  ASSUME RegularFiles, Types, file.kind = "pcm", sample_fmt \in {file.stated, file.fmt}, initResampler
  PROVE  m_resamplerInitialized' /\ (~m_bypassMode' => m_swrContext' = file.fmt)
<1>1. file \in Files
  BY KindOfFile DEF Types
<1>2. file.fmt = file.stated \/ canBypass(file, file.stated)
  BY <1>1, Zenon DEF RegularFiles, Regular
<1>3. /\ m_bypassMode' = canBypass(file, sample_fmt) /\ m_resamplerInitialized' = TRUE
      /\ m_swrContext' = IF canBypass(file, sample_fmt) THEN "none" ELSE sample_fmt
  BY Zenon DEF initResampler
<1>4. CASE sample_fmt = file.fmt
  <2>1. ~m_bypassMode' => m_swrContext' = sample_fmt
    BY <1>3, Zenon
  <2> QED BY <1>3, <1>4, <2>1, Zenon
<1>5. CASE sample_fmt = file.stated
  <2>1. ~m_bypassMode' => m_swrContext' = sample_fmt /\ ~canBypass(file, file.stated)
    BY <1>3, <1>5, Zenon
  <2> QED BY <1>2, <1>3, <1>5, <2>1, Zenon
<1> QED BY <1>4, <1>5

LEMMA ReadPcmPlaced ==
  ASSUME RegularFiles, Types, Placed, NEW n \in Reads, ReadPcm(n)
  PROVE  Placed'
<1>1. /\ reading' = TRUE /\ ~reading /\ file.kind = "pcm" /\ ~m_eof
      /\ UNCHANGED <<file, at, m_eof, remainder, sample_fmt, frames, receiving, history>>
  BY DEF ReadPcm
<1>2. /\ dsdRemainderAvailable = 0 /\ lost = 0 /\ leftData = <<>> /\ rightData = <<>> /\ ~receiving /\ frames = <<>>
      /\ Upcoming = expected /\ InOrder(m_pcmFifo, expected) /\ expected + Len(m_pcmFifo) = at
      /\ m_eof \/ ~m_resamplerInitialized => m_pcmFifo = <<>>
      /\ m_resamplerInitialized /\ ~m_bypassMode => m_swrContext = file.fmt
      /\ sample_fmt \in {file.stated, file.fmt}
      /\ expected \in Nat /\ at \in Nat /\ Len(m_pcmFifo) \in Nat
  BY <1>1, PcmIdle
<1>3. n \in Nat /\ Len(<<>>) = 0
  BY Sizes
<1>4. /\ file'.kind = "pcm" /\ dsdRemainderAvailable' = 0 /\ ~receiving' /\ frames' = <<>>
      /\ lost' = 0 /\ expected' = expected /\ at' = at /\ ~m_eof' /\ sample_fmt' \in {file'.stated, file'.fmt}
  BY <1>1, <1>2, RingSame DEF history
<1>5. CASE ~m_resamplerInitialized /\ leftData' = <<>> /\ rightData' = <<>> /\ m_pcmFifo' = <<>>
           /\ \/ m_resamplerInitialized' /\ (~m_bypassMode' => m_swrContext' = file.fmt)
              \/ ~m_resamplerInitialized' /\ need' = 0
  <2>1. expected = at
    BY <1>2, <1>3, <1>5
  <2>2. Upcoming' = expected /\ Upcoming' + lost' + Len(m_pcmFifo') = at'
    BY <1>2, <1>3, <1>4, <1>5, <2>1 DEF Upcoming
  <2>3. StillNeed' > 0 => m_resamplerInitialized'
    BY <1>3, <1>5 DEF StillNeed
  <2>4. InOrder(m_pcmFifo', Upcoming') /\ Continues(leftData', rightData', expected')
    BY <1>5, NothingInOrder
  <2>5. m_resamplerInitialized' /\ ~m_bypassMode' => m_swrContext' = file'.fmt
    BY <1>1, <1>5
  <2>6. PcmInv'
    BY <1>4, <1>5, <2>2, <2>3, <2>4, <2>5 DEF PcmInv
  <2> QED BY <1>1, <2>4, <2>6, PcmPlaced
<1>6. CASE /\ m_resamplerInitialized /\ need' = n /\ UNCHANGED <<m_swrContext, m_bypassMode, m_resamplerInitialized>>
           /\ \E k \in {AtMost(Len(m_pcmFifo), n)} :
                /\ leftData' = [i \in 1 .. k |-> m_pcmFifo[i][1]]
                /\ rightData' = [i \in 1 .. k |-> m_pcmFifo[i][2]]
                /\ m_pcmFifo' = SubSeq(m_pcmFifo, k + 1, Len(m_pcmFifo))
  <2> DEFINE k == AtMost(Len(m_pcmFifo), n)
             l == Len(m_pcmFifo)
  <2>1. k \in 0 .. l /\ k <= n /\ (k < n => k = l) /\ l \in Nat
    BY <1>2, <1>3 DEF AtMost
  <2>2. /\ leftData' = [i \in 1 .. k |-> m_pcmFifo[i][1]] /\ rightData' = [i \in 1 .. k |-> m_pcmFifo[i][2]]
        /\ m_pcmFifo' = SubSeq(m_pcmFifo, k + 1, l)
    BY <1>6
  <2> HIDE DEF k
  <2>3. /\ Len(leftData') = k /\ m_pcmFifo' \in Seq(Int \X Int) /\ Len(m_pcmFifo') = l - k
        /\ \A i \in 1 .. l - k : m_pcmFifo'[i] = m_pcmFifo[k + i]
    <3>1. m_pcmFifo \in Seq(Int \X Int)
      BY DEF Types, CodecTypes
    <3>2. /\ SubSeq(m_pcmFifo, k + 1, l) \in Seq(Int \X Int) /\ Len(SubSeq(m_pcmFifo, k + 1, l)) = l - k
          /\ \A i \in 1 .. l - k : SubSeq(m_pcmFifo, k + 1, l)[i] = m_pcmFifo[k + i]
      BY <2>1, <3>1, RestOfSeq
    <3>3. Len([i \in 1 .. k |-> m_pcmFifo[i][1]]) = k
      BY <2>1, <3>1, FifoTyped
    <3> QED BY <2>2, <3>2, <3>3, Zenon
  <2>4. \A i \in 1 .. l : m_pcmFifo[i] = <<2 * (expected + i - 1), 2 * (expected + i - 1) + 1>>
    BY <1>2 DEF InOrder
  <2>5. Continues(leftData', rightData', expected')
    <3>1. ASSUME NEW i \in 1 .. k
          PROVE  leftData'[i] = 2 * (expected + i - 1) /\ rightData'[i] = 2 * (expected + i - 1) + 1
      <4>1. i \in 1 .. l
        BY <2>1
      <4>2. leftData'[i] = m_pcmFifo[i][1] /\ rightData'[i] = m_pcmFifo[i][2]
        BY <2>2
      <4> QED BY <2>4, <4>1, <4>2
    <3> QED BY <1>4, <2>3, <3>1 DEF Continues
  <2>6. Upcoming' = expected + k
    BY <1>4, <2>3 DEF Upcoming
  <2>7. InOrder(m_pcmFifo', Upcoming')
    <3>1. ASSUME NEW i \in 1 .. l - k
          PROVE  m_pcmFifo'[i] = <<2 * (expected + k + i - 1), 2 * (expected + k + i - 1) + 1>>
      <4>1. k + i \in 1 .. l /\ expected + (k + i) - 1 = expected + k + i - 1
        BY <1>2, <2>1
      <4> QED BY <2>3, <2>4, <4>1
    <3> QED BY <2>3, <2>6, <3>1 DEF InOrder
  <2>8. Upcoming' + lost' + Len(m_pcmFifo') = at'
    <3>1. k \in Int /\ l \in Int /\ expected \in Int
      BY <1>2, <2>1
    <3>2. (expected + k) + 0 + (l - k) = expected + l
      BY <3>1
    <3>3. expected + l = at'
      BY <1>2, <1>4
    <3> HIDE DEF l
    <3> QED BY <1>4, <2>3, <2>6, <3>2, <3>3, Zenon
  <2>9. StillNeed' > 0 => m_pcmFifo' = <<>>
    <3>1. StillNeed' = n - k
      BY <1>6, <2>3 DEF StillNeed
    <3>2. StillNeed' > 0 => Len(m_pcmFifo') = 0
      BY <1>3, <2>1, <2>3, <3>1
    <3> QED BY <2>3, <3>2, EmptySeq
  <2>10. m_resamplerInitialized' /\ (~m_bypassMode' => m_swrContext' = file'.fmt)
    BY <1>1, <1>2, <1>6
  <2>11. PcmInv'
    BY <1>4, <2>7, <2>8, <2>9, <2>10 DEF PcmInv
  <2> QED BY <1>1, <2>5, <2>11, PcmPlaced
<1>7. CASE ~m_resamplerInitialized /\ initResampler /\ need' = n /\ leftData' = <<>> /\ rightData' = <<>>
  <2>1. m_resamplerInitialized' /\ (~m_bypassMode' => m_swrContext' = file.fmt)
    BY <1>1, <1>2, <1>7, FormatKnown
  <2>2. m_pcmFifo' = <<>>
    BY <1>7 DEF initResampler
  <2> QED BY <1>5, <1>7, <2>1, <2>2, Zenon
<1>8. CASE ~m_resamplerInitialized /\ initResamplerFails /\ need' = 0 /\ leftData' = <<>> /\ rightData' = <<>>
  <2>1. m_pcmFifo' = <<>> /\ ~m_resamplerInitialized'
    BY <1>8 DEF initResamplerFails
  <2> QED BY <1>5, <1>8, <2>1, Zenon
<1> QED BY <1>6, <1>7, <1>8 DEF ReadPcm

\* The one frame of a packet.
LEMMA OneFrame ==
  ASSUME file.split \in Nat, file.split > 0, at \in Nat, NEW size \in Nat, size > 0, size <= file.split
  PROVE  FramesOf(size) = <<[from |-> at, size |-> size]>>
<1> DEFINE n == file.split
<1>1. (size + n - 1) \div n = 1
  <2> HIDE DEF n
  <2>1. n \in Nat /\ n > 0 /\ size <= n
    BY DEF n
  <2>2. size + n - 1 >= n /\ size + n - 1 < n + n /\ size + n - 1 \in Nat
    BY <2>1
  <2> DEFINE s == size + n - 1  q == s \div n
  <2>3. q \in Nat /\ n * q <= s /\ s < n * q + n
    BY <2>1, <2>2, Quotient
  <2> HIDE DEF q, s
  <2>4. s >= n /\ s < n + n /\ s \in Nat
    BY <2>2 DEF s
  <2>5. q # 0
    <3>1. q = 0 => n * q = 0
      BY <2>1
    <3> QED BY <2>1, <2>3, <2>4, <3>1
  <2>6. ~(q >= 2)
    <3>1. SUFFICES ASSUME q >= 2 PROVE FALSE
      OBVIOUS
    <3>2. n * q >= n * 2
      BY <2>1, <2>3, <3>1, SMT
    <3> QED BY <2>1, <2>3, <2>4, <3>2
  <2>7. q = 1
    BY <2>3, <2>5, <2>6
  <2> QED BY <2>7 DEF q, s
<1>2. FramesOf(size) = [i \in 1 .. 1 |-> [from |-> at + (i - 1) * n, size |-> AtMost(n, size - (i - 1) * n)]]
  BY <1>1, Zenon DEF FramesOf
<1> HIDE DEF n
<1>3. n \in Nat /\ size <= n
  BY DEF n
<1>4. \A i \in 1 .. 1 : at + (i - 1) * n = at /\ AtMost(n, size - (i - 1) * n) = size
  <2> TAKE i \in 1 .. 1
  <2>1. (i - 1) * n = 0
    <3>1. i - 1 = 0
      OBVIOUS
    <3>2. 0 * n = 0
      BY <1>3
    <3> QED BY <3>1, <3>2
  <2>2. at + 0 = at /\ size - 0 = size
    OBVIOUS
  <2>3. AtMost(n, size) = size
    BY <1>3 DEF AtMost
  <2> QED BY <2>1, <2>2, <2>3
<1>5. FramesOf(size) = [i \in 1 .. 1 |-> [from |-> at, size |-> size]]
  BY <1>2, <1>4
<1> QED BY <1>5

LEMMA PcmPacketPlaced ==
  ASSUME RegularFiles, Types, Placed, PcmPacket
  PROVE  Placed'
<1> DEFINE size == AtMost(file.block, file.stored - at)
<1>1. /\ frames' = frames \o FramesOf(size) /\ at' = at + size /\ receiving' = TRUE
      /\ file.kind = "pcm" /\ at < file.stored /\ Wants /\ ~receiving /\ sample_fmt' = file.fmt
      /\ UNCHANGED <<file, m_eof, remainder, m_pcmFifo, m_swrContext, m_bypassMode, m_resamplerInitialized>>
      /\ UNCHANGED <<reading, need, leftData, rightData, errors, history>>
  BY DEF PcmPacket
<1>2. /\ at \in Nat /\ size \in Nat /\ size > 0 /\ size <= file.split
      /\ file.split \in Nat /\ file.split > 0
  <2>1. file \in Files /\ at \in Nat /\ file.stored \in Nat /\ at < file.stored
    BY <1>1, KindOfFile DEF Types
  <2>2. file.block \in Nat /\ file.block > 0 /\ file.split \in Nat /\ file.split > 0
    BY <2>1, Sizes
  <2>3. file.split = file.block
    BY <1>1, <2>1 DEF RegularFiles, Regular
  <2> QED BY <2>1, <2>2, <2>3 DEF AtMost
<1>3. /\ dsdRemainderAvailable = 0 /\ m_pcmFifo = <<>> /\ lost = 0 /\ StillNeed > 0 /\ ~m_eof /\ reading
      /\ m_resamplerInitialized /\ (~m_bypassMode => m_swrContext = file.fmt)
      /\ Continues(leftData, rightData, expected) /\ Len(m_pcmFifo) = 0
  BY <1>1, PcmWants
<1>4. frames = <<>> /\ Upcoming = at
  <2>1. frames = <<>> /\ Upcoming + lost + Len(m_pcmFifo) = at
    BY <1>1, Zenon DEF Placed, PcmInv
  <2> QED BY <1>3, <2>1, BlockHas
<1>5. frames' = <<[from |-> at, size |-> size]>>
  <2>1. FramesOf(size) = <<[from |-> at, size |-> size]>>
    BY <1>2, OneFrame
  <2> QED BY <1>1, <1>4, <2>1
<1> HIDE DEF size
<1>6. Upcoming' = at /\ StillNeed' = StillNeed /\ at' - Upcoming' = size /\ at' > Upcoming'
  <2>1. Upcoming' = Upcoming /\ StillNeed' = StillNeed
    BY <1>1 DEF Upcoming, StillNeed, history
  <2> QED BY <1>1, <1>2, <1>4, <2>1
<1>7. /\ receiving' /\ lost' = 0 /\ expected' = expected /\ dsdRemainderAvailable' = 0 /\ ~m_eof'
      /\ m_resamplerInitialized' /\ m_pcmFifo' = <<>> /\ (~m_bypassMode' => m_swrContext' = file'.fmt)
      /\ file'.kind = "pcm" /\ sample_fmt' = file'.fmt
  BY <1>1, <1>3, RingSame DEF history
<1>8. InOrder(m_pcmFifo', Upcoming')
  BY <1>7, NothingInOrder
<1>9. frames' = <<[from |-> Upcoming', size |-> at' - Upcoming']>>
  BY <1>5, <1>6, Zenon
<1>10. PcmInv'
  BY <1>3, <1>6, <1>7, <1>8, <1>9 DEF PcmInv
<1>11. Continues(leftData', rightData', expected')
  BY <1>1, <1>3, <1>7
<1> QED BY <1>1, <1>10, <1>11, PcmPlaced

\* The frame to be received.
LEMMA InHand ==
  ASSUME Types, Placed, Wants, receiving
  PROVE  /\ file.kind = "pcm"
         /\ Head(frames).from = Upcoming /\ Head(frames).size = at - Upcoming /\ Tail(frames) = <<>>
         /\ at > Upcoming /\ at \in Nat /\ Upcoming \in Nat /\ sample_fmt = file.fmt
<1>1. file.kind = "pcm"
  BY DEF Types, CodecTypes
<1>2. frames = <<[from |-> Upcoming, size |-> at - Upcoming]>> /\ at > Upcoming /\ sample_fmt = file.fmt
  BY <1>1, Zenon DEF Placed, PcmInv
<1>3. at \in Nat /\ Upcoming \in Nat
  BY KindOfFile, BlockHas DEF Types
<1>4. Head(frames) = [from |-> Upcoming, size |-> at - Upcoming] /\ Tail(frames) = <<>>
  BY <1>2
<1> QED BY <1>1, <1>2, <1>3, <1>4

\* An error ends the read with what it has, and costs the packet or the frame.
LEMMA DropPlaced ==
  ASSUME Types, Placed, Wants, file.kind = "pcm", ~receiving', frames' = <<>>, need' = Len(leftData),
         UNCHANGED <<file, m_eof, remainder, sample_fmt, reading, leftData, rightData, expected>>,
         m_pcmFifo' = <<>>, lost' \in Nat, Upcoming + lost' = at',
         m_resamplerInitialized' /\ ~m_bypassMode' => m_swrContext' = file.fmt
  PROVE  Placed'
<1>1. /\ dsdRemainderAvailable = 0 /\ Continues(leftData, rightData, expected)
      /\ sample_fmt \in {file.stated, file.fmt} /\ ~m_eof
  BY PcmWants
<1>2. /\ file'.kind = "pcm" /\ dsdRemainderAvailable' = 0 /\ ~m_eof' /\ sample_fmt' \in {file'.stated, file'.fmt}
      /\ (m_resamplerInitialized' /\ ~m_bypassMode' => m_swrContext' = file'.fmt)
  BY <1>1, RingSame
<1>3. Upcoming' = Upcoming /\ StillNeed' = 0 /\ Len(<<>>) = 0
  <2>1. Upcoming' = Upcoming /\ StillNeed' = Len(leftData) - Len(leftData)
    BY DEF Upcoming, StillNeed
  <2> QED BY <2>1, BlockHas
<1>4. InOrder(m_pcmFifo', Upcoming')
  BY NothingInOrder
<1>5. Upcoming' + lost' + Len(m_pcmFifo') = at'
  BY <1>3, BlockHas
<1>6. ~(StillNeed' > 0)
  BY <1>3
<1>7. PcmInv'
  BY <1>2, <1>3, <1>4, <1>5, <1>6 DEF PcmInv
<1> QED BY <1>1, <1>7, PcmPlaced

LEMMA PcmPacketFailsPlaced ==
  ASSUME Types, Placed, PcmPacketFails
  PROVE  Placed'
<1> DEFINE size == AtMost(file.block, file.stored - at)
<1>1. /\ at' = at + size /\ lost' = size /\ need' = Len(leftData) /\ Wants
      /\ file.kind = "pcm" /\ at < file.stored /\ ~receiving
      /\ UNCHANGED <<file, m_eof, remainder, codec, reading, receiving, leftData, rightData, expected>>
  BY DEF PcmPacketFails
<1>2. at \in Nat /\ size \in Nat
  BY <1>1, KindOfFile, Sizes DEF Types, AtMost
<1> HIDE DEF size
<1>3. /\ m_pcmFifo = <<>> /\ lost = 0 /\ Len(m_pcmFifo) = 0 /\ (~m_bypassMode => m_swrContext = file.fmt)
  BY <1>1, PcmWants
<1>4. frames = <<>> /\ Upcoming + lost + Len(m_pcmFifo) = at
  BY <1>1, Zenon DEF Placed, PcmInv
<1>5. Upcoming + lost' = at' /\ lost' \in Nat
  <2>1. Upcoming \in Nat
    BY BlockHas
  <2>2. Upcoming + 0 + 0 = at
    BY <1>3, <1>4, Zenon
  <2> QED BY <1>1, <1>2, <2>1, <2>2
<1>6. /\ ~receiving' /\ frames' = <<>> /\ m_pcmFifo' = <<>> /\ UNCHANGED sample_fmt
      /\ (m_resamplerInitialized' /\ ~m_bypassMode' => m_swrContext' = file.fmt)
  BY <1>1, <1>3, <1>4 DEF codec
<1> QED BY <1>1, <1>5, <1>6, DropPlaced

LEMMA FrameDroppedPlaced ==
  ASSUME Types, Placed, PcmFrameFails \/ LeaveBypassFails
  PROVE  Placed'
<1>1. /\ UNCHANGED <<file, at, m_eof, remainder, sample_fmt, reading, leftData, rightData, expected>>
      /\ Wants /\ receiving
      /\ lost' = Head(frames).size /\ frames' = Tail(frames)
      /\ need' = Len(leftData) /\ receiving' = FALSE
      /\ \/ UNCHANGED <<m_pcmFifo, m_swrContext, m_bypassMode, m_resamplerInitialized>>
         \/ m_pcmFifo' = <<>> /\ m_resamplerInitialized' = FALSE
  <2>1. CASE PcmFrameFails
    BY <2>1 DEF PcmFrameFails
  <2>2. CASE LeaveBypassFails
    BY <2>2 DEF LeaveBypassFails, initResamplerFails
  <2> QED BY <2>1, <2>2
<1>2. /\ file.kind = "pcm"
      /\ Head(frames).size = at - Upcoming /\ Tail(frames) = <<>> /\ at > Upcoming /\ at \in Nat /\ Upcoming \in Nat
  BY <1>1, InHand
<1>3. m_pcmFifo = <<>> /\ (~m_bypassMode => m_swrContext = file.fmt)
  BY <1>1, <1>2, PcmWants
<1>4. /\ ~receiving' /\ frames' = <<>> /\ m_pcmFifo' = <<>>
      /\ (m_resamplerInitialized' /\ ~m_bypassMode' => m_swrContext' = file.fmt)
  BY <1>1, <1>2, <1>3
<1>5. lost' \in Nat /\ Upcoming + lost' = at'
  BY <1>1, <1>2
<1> QED BY <1>1, <1>2, <1>4, <1>5, DropPlaced

LEMMA LeaveBypassPlaced ==
  ASSUME RegularFiles, Types, Placed, LeaveBypass
  PROVE  Placed'
<1>1. /\ UNCHANGED <<file, at, m_eof, remainder, sample_fmt, frames, read, errors, history>>
      /\ Wants /\ receiving /\ initResampler
  BY DEF LeaveBypass
<1>2. file.kind = "pcm"
  BY <1>1, InHand
<1>3. /\ dsdRemainderAvailable = 0 /\ m_pcmFifo = <<>> /\ lost = 0 /\ StillNeed > 0 /\ ~m_eof /\ reading
      /\ Continues(leftData, rightData, expected) /\ sample_fmt \in {file.stated, file.fmt}
  BY <1>1, <1>2, PcmWants
<1>4. /\ m_pcmFifo' = <<>> /\ m_resamplerInitialized' /\ (~m_bypassMode' => m_swrContext' = file.fmt)
  BY <1>1, <1>2, <1>3, FormatKnown DEF initResampler
<1>5. frames = <<[from |-> Upcoming, size |-> at - Upcoming]>> /\ at > Upcoming /\ sample_fmt = file.fmt
  BY <1>1, <1>2, Zenon DEF Placed, PcmInv
<1>6. Upcoming' = Upcoming /\ StillNeed' = StillNeed
  BY <1>1 DEF Upcoming, StillNeed, read, history
<1>7. /\ receiving' /\ lost' = 0 /\ dsdRemainderAvailable' = 0 /\ ~m_eof' /\ file'.kind = "pcm"
      /\ sample_fmt' = file'.fmt /\ (~m_bypassMode' => m_swrContext' = file'.fmt)
      /\ frames' = <<[from |-> Upcoming', size |-> at' - Upcoming']>> /\ at' > Upcoming'
  BY <1>1, <1>2, <1>3, <1>4, <1>5, <1>6, RingSame DEF read, history
<1>8. InOrder(m_pcmFifo', Upcoming')
  BY <1>4, NothingInOrder
<1>9. PcmInv'
  BY <1>3, <1>4, <1>6, <1>7, <1>8 DEF PcmInv
<1>10. Continues(leftData', rightData', expected')
  BY <1>1, <1>3 DEF read, history
<1> QED BY <1>1, <1>2, <1>9, <1>10, PcmPlaced

\* A frame's samples as they arrive are the next ones.
LEMMA DeliveredInOrder ==
  ASSUME NEW frame \in FrameType, file.fmt = IF m_bypassMode THEN OutFormat(file) ELSE m_swrContext
  PROVE  InOrder(Delivered(frame), frame.from)
<1> DEFINE expectedFormat == IF m_bypassMode THEN OutFormat(file) ELSE m_swrContext
<1>1. Len(Delivered(frame)) = frame.size
  BY DeliveredTyped
<1>2. Delivered(frame) = [i \in 1 .. frame.size |->
                            IF file.fmt = expectedFormat
                              THEN <<2 * (frame.from + i - 1), 2 * (frame.from + i - 1) + 1>> ELSE <<-1, -1>>]
  BY Zenon DEF Delivered
<1>3. file.fmt = expectedFormat
  OBVIOUS
<1> HIDE DEF expectedFormat
<1>4. \A i \in 1 .. frame.size : Delivered(frame)[i] = <<2 * (frame.from + i - 1), 2 * (frame.from + i - 1) + 1>>
  BY <1>2, <1>3, Zenon
<1> QED BY <1>1, <1>4, Zenon DEF InOrder

LEMMA PcmFramePlaced ==
  ASSUME Types, Placed, PcmFrame
  PROVE  Placed'
<1> DEFINE samples == Delivered(Head(frames))
           size == Len(samples)
           take == AtMost(size, StillNeed)
           l == [i \in 1 .. take |-> samples[i][1]]
           r == [i \in 1 .. take |-> samples[i][2]]
<1>1. /\ leftData' = leftData \o l /\ rightData' = rightData \o r
      /\ m_pcmFifo' = m_pcmFifo \o FifoExcess(samples, take)
      /\ frames' = Tail(frames) /\ receiving' = (frames' # <<>>) /\ Wants /\ receiving /\ ~Mismatch
      /\ UNCHANGED <<file, at, m_eof, remainder, sample_fmt, m_swrContext, m_bypassMode, m_resamplerInitialized>>
      /\ UNCHANGED <<reading, need, errors, history>>
  BY DEF PcmFrame
<1>2. /\ file.kind = "pcm"
      /\ Head(frames).from = Upcoming /\ Head(frames).size = at - Upcoming /\ Tail(frames) = <<>>
      /\ at > Upcoming /\ at \in Nat /\ Upcoming \in Nat
  BY <1>1, InHand
<1>3. /\ dsdRemainderAvailable = 0 /\ m_pcmFifo = <<>> /\ lost = 0 /\ StillNeed > 0 /\ ~m_eof /\ reading
      /\ m_resamplerInitialized /\ sample_fmt \in {file.stated, file.fmt}
      /\ (~m_bypassMode => m_swrContext = file.fmt)
      /\ Continues(leftData, rightData, expected)
  BY <1>1, <1>2, PcmWants
<1>4. samples \in Seq(Int \X Int) /\ size = at - Upcoming /\ InOrder(samples, Upcoming)
  <2>1. Head(frames) \in FrameType
    BY <1>1, FirstFrame
  <2>2. file.fmt = IF m_bypassMode THEN OutFormat(file) ELSE m_swrContext
    BY <1>1, <1>3, Zenon DEF Mismatch
  <2>3. InOrder(Delivered(Head(frames)), Head(frames).from)
    BY <2>1, <2>2, DeliveredInOrder
  <2> QED BY <1>2, <2>1, <2>3, DeliveredTyped
<1> HIDE DEF samples
<1>5. take \in 0 .. size /\ size \in Nat /\ (take < StillNeed => take = size)
  <2>1. size \in Nat /\ StillNeed \in Nat
    BY <1>4, BlockHas
  <2> QED BY <2>1 DEF AtMost
<1> HIDE DEF take
<1>6. /\ l \in Seq(Int) /\ Len(l) = take /\ r \in Seq(Int) /\ Len(r) = take
      /\ FifoExcess(samples, take) \in Seq(Int \X Int) /\ Len(FifoExcess(samples, take)) = size - take
      /\ \A i \in 1 .. size - take : FifoExcess(samples, take)[i] = samples[take + i]
  <2>1. /\ l \in Seq(Int) /\ Len(l) = take /\ r \in Seq(Int) /\ Len(r) = take
    BY <1>4, <1>5, FifoTyped
  <2>2. /\ FifoExcess(samples, take) \in Seq(Int \X Int) /\ Len(FifoExcess(samples, take)) = size - take
        /\ \A i \in 1 .. size - take : FifoExcess(samples, take)[i] = samples[take + i]
    BY <1>4, <1>5, RestOfSeq DEF FifoExcess
  <2> QED BY <2>1, <2>2
<1>7. \A i \in 1 .. size : samples[i] = <<2 * (Upcoming + i - 1), 2 * (Upcoming + i - 1) + 1>>
  BY <1>4 DEF InOrder
<1>8. Continues(l, r, Upcoming)
  <2>1. ASSUME NEW i \in 1 .. take
        PROVE  l[i] = 2 * (Upcoming + i - 1) /\ r[i] = 2 * (Upcoming + i - 1) + 1
    <3>1. i \in 1 .. size
      BY <1>5
    <3>2. samples[i] = <<2 * (Upcoming + i - 1), 2 * (Upcoming + i - 1) + 1>>
      BY <1>7, <3>1
    <3>3. l[i] = samples[i][1] /\ r[i] = samples[i][2]
      OBVIOUS
    <3> QED BY <3>2, <3>3
  <2> QED BY <1>6, <2>1 DEF Continues
<1>9. m_pcmFifo' = FifoExcess(samples, take)
  BY <1>1, <1>3, <1>6
<1> HIDE DEF l, r, size
<1>10. Upcoming \in Nat /\ take \in Nat /\ size \in Nat
  BY <1>2, <1>5
<1>11. expected' = expected /\ lost' = 0 /\ Upcoming' = Upcoming + take /\ StillNeed' = StillNeed - take
  <2>1. Len(leftData') = Len(leftData) + take
    BY <1>1, <1>6, BlockHas, ConcatProperties
  <2>2. expected' = expected /\ lost' = 0 /\ need' = need
    BY <1>1, <1>3 DEF history
  <2>3. Upcoming' = expected + (Len(leftData) + take) /\ StillNeed' = need - (Len(leftData) + take)
    BY <2>1, <2>2 DEF Upcoming, StillNeed
  <2>4. /\ expected \in Nat /\ need \in Nat /\ Len(leftData) \in Nat
        /\ Upcoming = expected + Len(leftData) /\ StillNeed = need - Len(leftData)
    BY BlockHas, Zenon
  <2> QED BY ONLY <1>10, <2>2, <2>3, <2>4
<1>12. Continues(leftData', rightData', expected')
  <2>1. /\ leftData \in Seq(Int) /\ rightData \in Seq(Int) /\ Len(leftData) = Len(rightData)
        /\ expected \in Int /\ Upcoming = expected + Len(leftData)
    BY BlockHas
  <2>2. Continues(l, r, expected + Len(leftData))
    BY <1>8, <2>1
  <2>3. Continues(leftData \o l, rightData \o r, expected)
    BY <1>3, <1>6, <2>1, <2>2, Joined
  <2> QED BY <1>1, <1>11, <2>3
<1>13. InOrder(m_pcmFifo', Upcoming')
  <2>1. ASSUME NEW i \in 1 .. size - take
        PROVE  m_pcmFifo'[i] = <<2 * (Upcoming + take + i - 1), 2 * (Upcoming + take + i - 1) + 1>>
    <3>1. take + i \in 1 .. size /\ Upcoming + (take + i) - 1 = Upcoming + take + i - 1
      BY <1>5, <1>10
    <3> QED BY <1>6, <1>7, <1>9, <3>1
  <2>2. Len(m_pcmFifo') = size - take
    BY <1>6, <1>9
  <2> QED BY <1>11, <2>1, <2>2 DEF InOrder
<1>14. Upcoming' + lost' + Len(m_pcmFifo') = at'
  <2>1. Len(m_pcmFifo') = size - take /\ at' = at
    BY <1>1, <1>6, <1>9
  <2>2. size = at - Upcoming
    BY <1>4 DEF size
  <2>3. (Upcoming + take) + 0 + (size - take) = at
    BY <1>2, <1>10, <2>2
  <2> QED BY <1>11, <2>1, <2>3, Zenon
<1>15. StillNeed' > 0 => m_pcmFifo' = <<>>
  <2>1. StillNeed' > 0 => Len(m_pcmFifo') = 0
    <3>1. Len(m_pcmFifo') = size - take
      BY <1>6, <1>9
    <3>2. StillNeed \in Nat /\ size \in Nat /\ take \in Int
      BY <1>5, <1>10, BlockHas
    <3>3. StillNeed' > 0 => take < StillNeed
      BY <1>11, <3>2
    <3> QED BY <1>5, <3>1, <3>2, <3>3
  <2> QED BY <1>6, <1>9, <2>1, EmptySeq
<1>16. /\ file'.kind = "pcm" /\ dsdRemainderAvailable' = 0 /\ ~receiving' /\ frames' = <<>> /\ ~m_eof'
       /\ m_resamplerInitialized' /\ (~m_bypassMode' => m_swrContext' = file'.fmt)
       /\ sample_fmt' \in {file'.stated, file'.fmt}
  BY <1>1, <1>2, <1>3, RingSame
<1>17. PcmInv'
  BY <1>11, <1>13, <1>14, <1>15, <1>16 DEF PcmInv
<1> QED BY <1>1, <1>2, <1>12, <1>17, PcmPlaced

-----------------------------------------------------------------------------
(* The steps that any file has. *)

\* The loop ends, with the flag of the end of the file or without.
LEMMA LoopEndPlaced ==
  ASSUME Types, Placed, EndOfFile \/ DffEnd
  PROVE  Placed'
<1>1. /\ UNCHANGED <<file, at, remainder, codec, reading, receiving, leftData, rightData, history>> /\ Wants
      /\ need' = need \/ need' = Len(leftData)
      /\ file.kind = "dff" \/ (~receiving /\ need' = need)
  <2>1. CASE EndOfFile
    BY <2>1 DEF EndOfFile, read
  <2>2. CASE DffEnd
    BY <2>2 DEF DffEnd
  <2> QED BY <2>1, <2>2
<1>2. reading /\ StillNeed > 0
  BY <1>1 DEF Wants
<1>3. Upcoming' = Upcoming /\ Continues(leftData', rightData', expected') /\ expected' = expected /\ lost' = lost
  BY <1>1 DEF Upcoming, history, Placed
<1>4. CASE m_rawDSD
  <2>1. /\ dsdRemainderAvailable = 0 /\ lost = 0 /\ Upcoming + dsdRemainderAvailable = Samples
        /\ (file.kind = "dff" => at % 2 = 0 \/ at = file.stored)
    BY <1>2, <1>4, Zenon DEF Placed, DsdInv
  <2>2. /\ dsdRemainderAvailable' = 0 /\ Samples' = Samples /\ lost' = 0
        /\ (file'.kind = "dff" => at' % 2 = 0 \/ at' = file'.stored)
    BY <1>1, <1>3, <2>1, RingSame DEF Samples
  <2>3. Upcoming' + dsdRemainderAvailable' = Samples'
    BY <1>3, <2>1, <2>2
  <2>4. \A k \in 0 .. dsdRemainderAvailable' - 1 : FALSE
    BY <2>2
  <2>5. DsdInv'
    BY <2>2, <2>3, <2>4, Zenon DEF DsdInv
  <2> QED BY <1>1, <1>3, <1>4, <2>5, DsdPlaced
<1>5. CASE ~m_rawDSD
  <2>1. file.kind = "pcm"
    <3>1. file # Closed
      BY <1>2 DEF Placed, ClosedInv
    <3>2. file \in Files
      BY <3>1 DEF Types, FileTypes
    <3> QED BY <1>5, <3>2, Sizes DEF m_rawDSD
  <2>2. ~receiving /\ need' = need
    BY <1>1, <2>1
  <2>3. /\ dsdRemainderAvailable = 0 /\ m_pcmFifo = <<>> /\ lost = 0 /\ m_resamplerInitialized
        /\ sample_fmt \in {file.stated, file.fmt} /\ (~m_bypassMode => m_swrContext = file.fmt)
        /\ Len(m_pcmFifo) = 0
    BY <1>1, <2>1, PcmWants
  <2>4. frames = <<>> /\ Upcoming + lost + Len(m_pcmFifo) = at
    BY <2>1, <2>2, Zenon DEF Placed, PcmInv
  <2>5. /\ file'.kind = "pcm" /\ dsdRemainderAvailable' = 0 /\ ~receiving' /\ frames' = <<>>
        /\ m_pcmFifo' = <<>> /\ lost' = 0
        /\ m_resamplerInitialized' /\ (~m_bypassMode' => m_swrContext' = file'.fmt)
        /\ sample_fmt' \in {file'.stated, file'.fmt}
    BY <1>1, <1>3, <2>1, <2>2, <2>3, <2>4, RingSame DEF codec
  <2>6. Upcoming' + lost' + Len(m_pcmFifo') = at'
    BY <1>1, <1>3, <2>3, <2>4, <2>5, Zenon
  <2>7. InOrder(m_pcmFifo', Upcoming')
    BY <2>5, NothingInOrder
  <2>8. PcmInv'
    BY <2>5, <2>6, <2>7 DEF PcmInv
  <2> QED BY <1>1, <1>3, <2>1, <2>8, PcmPlaced
<1> QED BY <1>4, <1>5

LEMMA ReturnPlaced ==
  ASSUME Types, Placed, Return
  PROVE  Placed'
<1>1. /\ reading /\ (StillNeed = 0 \/ m_eof)
      /\ reading' = FALSE /\ receiving' = FALSE /\ leftData' = <<>> /\ rightData' = <<>>
      /\ expected' = expected + Len(leftData) + lost /\ lost' = 0
      /\ UNCHANGED <<file, at, m_eof, remainder, codec, errors>>
  BY DEF Return
<1>2. lost \in Nat /\ Len(<<>>) = 0
  BY DEF Types, BlockTypes
<1>3. Upcoming' = Upcoming + lost
  <2>1. expected' \in Nat /\ Len(leftData') = 0 /\ expected' = Upcoming + lost
    BY <1>1, <1>2, BlockHas
  <2>2. Upcoming' = expected' + 0
    BY <1>1, <1>2 DEF Upcoming
  <2> QED BY <2>1, <2>2
<1>4. Continues(leftData', rightData', expected')
  BY <1>1, NothingInOrder
<1>5. CASE m_rawDSD
  <2>1. /\ lost = 0 /\ Upcoming + dsdRemainderAvailable = Samples
        /\ \A k \in 0 .. dsdRemainderAvailable - 1 :
             m_dsdRemainderLeft[Slot(k)] = 2 * (Upcoming + k) /\ m_dsdRemainderRight[Slot(k)] = 2 * (Upcoming + k) + 1
        /\ (m_eof => dsdRemainderAvailable = 0)
        /\ (file.kind = "dff" => at % 2 = 0 \/ at = file.stored)
    BY <1>5, Zenon DEF Placed, DsdInv
  <2>2. Upcoming' = Upcoming
    BY <1>3, <2>1, BlockHas
  <2>3. /\ dsdRemainderAvailable' = dsdRemainderAvailable /\ Samples' = Samples
        /\ UNCHANGED <<m_dsdRemainderLeft, m_dsdRemainderRight>> /\ \A k : Slot(k)' = Slot(k)
    BY <1>1, RingSame DEF Samples
  <2>4. \A k \in 0 .. dsdRemainderAvailable' - 1 :
          m_dsdRemainderLeft'[Slot(k)'] = 2 * (Upcoming' + k) /\ m_dsdRemainderRight'[Slot(k)'] = 2 * (Upcoming' + k) + 1
    BY <2>1, <2>2, <2>3
  <2>5. (file'.kind = "dff" => at' % 2 = 0 \/ at' = file'.stored) /\ (m_eof' => dsdRemainderAvailable' = 0) /\ ~reading'
    BY <1>1, <2>1, <2>3
  <2>6. Upcoming' + dsdRemainderAvailable' = Samples' /\ lost' = 0
    BY <1>1, <2>1, <2>2, <2>3
  <2>7. DsdInv'
    BY <2>4, <2>5, <2>6, Zenon DEF DsdInv
  <2> QED BY <1>1, <1>4, <1>5, <2>7, DsdPlaced
<1>6. CASE ~m_rawDSD
  <2>1. file.kind = "pcm"
    <3>1. file # Closed
      BY <1>1 DEF Placed, ClosedInv
    <3>2. file \in Files
      BY <3>1 DEF Types, FileTypes
    <3> QED BY <1>6, <3>2, Sizes DEF m_rawDSD
  <2>2. ~receiving
    <3>1. receiving => StillNeed > 0 /\ ~m_eof
      BY <2>1, Zenon DEF Placed, PcmInv
    <3> QED BY <1>1, <3>1, BlockHas
  <2>3. /\ dsdRemainderAvailable = 0 /\ InOrder(m_pcmFifo, Upcoming) /\ (lost > 0 => m_pcmFifo = <<>>)
        /\ frames = <<>> /\ Upcoming + lost + Len(m_pcmFifo) = at
        /\ (m_eof \/ ~m_resamplerInitialized => m_pcmFifo = <<>>)
        /\ sample_fmt \in {file.stated, file.fmt} /\ (m_resamplerInitialized /\ ~m_bypassMode => m_swrContext = file.fmt)
    BY <2>1, <2>2, Zenon DEF Placed, PcmInv
  <2>4. /\ file'.kind = "pcm" /\ dsdRemainderAvailable' = 0 /\ ~receiving' /\ frames' = <<>>
        /\ m_pcmFifo' = m_pcmFifo /\ lost' = 0 /\ ~reading' /\ at' = at
        /\ (m_eof' \/ ~m_resamplerInitialized' => m_pcmFifo' = <<>>)
        /\ (m_resamplerInitialized' /\ ~m_bypassMode' => m_swrContext' = file'.fmt)
        /\ sample_fmt' \in {file'.stated, file'.fmt}
    BY <1>1, <2>1, <2>3, RingSame DEF codec
  <2>5. InOrder(m_pcmFifo', Upcoming')
    <3>1. CASE lost > 0
      BY <2>3, <2>4, <3>1, NothingInOrder
    <3>2. CASE ~(lost > 0)
      <4>1. Upcoming' = Upcoming
        BY <1>2, <1>3, <3>2, BlockHas
      <4> QED BY <2>3, <2>4, <4>1
    <3> QED BY <3>1, <3>2
  <2>6. Upcoming' + lost' + Len(m_pcmFifo') = at'
    <3>1. Upcoming' + Len(m_pcmFifo) = at /\ Upcoming' + 0 = Upcoming'
      BY <1>2, <1>3, <2>3, BlockHas
    <3> QED BY <2>4, <3>1
  <2>7. PcmInv'
    BY <2>4, <2>5, <2>6 DEF PcmInv
  <2> QED BY <1>1, <1>4, <2>1, <2>7, PcmPlaced
<1> QED BY <1>5, <1>6

\* An empty ring.
LEMMA Cleared ==
  ASSUME dsdRemainderClear
  PROVE  dsdRemainderAvailable' = 0
<1>1. dsdRemainderAvailable' = (0 - 0) % RemainderSize
  BY DEF dsdRemainderClear, dsdRemainderAvailable
<1>2. 0 % RemainderSize = 0
  BY Sizes, RemainderInside
<1> QED BY <1>1, <1>2

LEMMA OpenPlaced ==
  ASSUME Types, Placed, NEW f \in Files, Open(f)
  PROVE  Placed'
<1>1. file = Closed /\ file' = f /\ m_eof' = FALSE /\ sample_fmt' = (IF f.kind = "pcm" THEN f.stated ELSE "none")
      /\ UNCHANGED <<at, remainder, frames, m_swrContext, m_pcmFifo, m_bypassMode, m_resamplerInitialized>>
      /\ UNCHANGED <<read, errors, history>>
  BY DEF Open
<1>2. /\ at = 0 /\ expected = 0 /\ ~reading /\ dsdRemainderAvailable = 0 /\ ~m_resamplerInitialized
  BY <1>1 DEF Placed, ClosedInv
<1>3. /\ ~receiving /\ frames = <<>> /\ m_pcmFifo = <<>> /\ leftData = <<>> /\ lost = 0
  <2>1. file.kind # "pcm"
    BY <1>1, Sizes
  <2> QED BY <1>2, <2>1 DEF Types, CodecTypes, BlockTypes
<1>4. Len(<<>>) = 0
  OBVIOUS
<1>5. /\ ~receiving' /\ frames' = <<>> /\ m_pcmFifo' = <<>> /\ leftData' = <<>> /\ lost' = 0 /\ expected' = 0
      /\ at' = 0 /\ ~reading' /\ dsdRemainderAvailable' = 0 /\ ~m_resamplerInitialized' /\ ~m_eof'
      /\ Upcoming' = 0
  BY <1>1, <1>2, <1>3, <1>4, RingSame DEF read, history, Upcoming
<1>6. Continues(leftData', rightData', expected')
  BY <1>1, <1>3 DEF Placed, read, history
<1>7. file' # Closed
  BY <1>1, Sizes
<1>8. ClosedInv'
  BY <1>7 DEF ClosedInv
<1>9. DsdInv'
  <2>1. Samples' = 0
    BY <1>5 DEF Samples
  <2>2. Upcoming' + dsdRemainderAvailable' = Samples' /\ at' % 2 = 0
    BY <1>5, <2>1
  <2>3. \A k \in 0 .. dsdRemainderAvailable' - 1 : FALSE
    BY <1>5
  <2> QED BY <1>5, <2>2, <2>3, Zenon DEF DsdInv
<1>10. PcmInv'
  <2>1. InOrder(m_pcmFifo', Upcoming')
    BY <1>5, NothingInOrder
  <2>2. Upcoming' + lost' + Len(m_pcmFifo') = at'
    BY <1>4, <1>5
  <2>3. file'.kind = "pcm" => sample_fmt' \in {file'.stated, file'.fmt}
    BY <1>1
  <2> QED BY <1>5, <2>1, <2>2, <2>3 DEF PcmInv
<1> QED BY <1>6, <1>8, <1>9, <1>10 DEF Placed

LEMMA ClosePlaced ==
  ASSUME Types, Placed, Close
  PROVE  Placed'
<1>1. /\ file' = Closed /\ at' = 0 /\ m_eof' = FALSE /\ ~reading
      /\ m_bypassMode' = FALSE /\ m_resamplerInitialized' = FALSE /\ dsdRemainderClear
      /\ expected' = 0 /\ UNCHANGED <<read, errors>>
  BY DEF Close, Reset
<1>2. ClosedInv'
  BY <1>1, Cleared DEF ClosedInv, read
<1>3. DsdInv' /\ PcmInv'
  BY <1>1, Sizes DEF DsdInv, PcmInv, m_rawDSD
<1>4. Continues(leftData', rightData', expected')
  <2>1. leftData = <<>> /\ Len(<<>>) = 0
    BY <1>1 DEF Types, BlockTypes
  <2>2. leftData' = <<>>
    BY <1>1, <2>1 DEF read
  <2>3. 1 .. Len(leftData') = {}
    BY <2>1, <2>2
  <2> QED BY <2>3 DEF Continues
<1> QED BY <1>2, <1>3, <1>4 DEF Placed

LEMMA SeekPlaced ==
  ASSUME Types, Placed, NEW p \in 0 .. file.stored, Seek(p)
  PROVE  Placed'
<1>1. /\ at' = (p \div file.block) * file.block /\ m_eof' = FALSE /\ ~reading
      /\ expected' = at' /\ file # Closed /\ file.kind # "dff"
      /\ UNCHANGED <<file, sample_fmt, m_swrContext, m_bypassMode, m_resamplerInitialized, read, errors, lost>>
  BY DEF Seek
<1>2. leftData = <<>> /\ rightData = <<>> /\ lost = 0 /\ ~receiving /\ Len(<<>>) = 0
  <2>1. leftData = <<>> /\ lost = 0 /\ ~receiving
    BY <1>1 DEF Types, BlockTypes, CodecTypes
  <2>2. Len(rightData) = Len(leftData) /\ rightData \in Seq(Int) /\ Len(<<>>) = 0
    BY DEF Types, BlockTypes
  <2> QED BY <2>1, <2>2, EmptySeq
<1>3. leftData' = <<>> /\ rightData' = <<>> /\ lost' = 0 /\ ~receiving' /\ ~reading' /\ ~m_eof'
  BY <1>1, <1>2 DEF read
<1>4. Upcoming' = at' /\ at' \in Nat
  <2>1. file.block \in Nat /\ file.block > 0 /\ p \in Nat
    <3>1. file \in Files
      BY <1>1 DEF Types, FileTypes
    <3> QED BY <3>1, Sizes
  <2>2. at' \in 0 .. p
    BY <1>1, <2>1, PacketStart
  <2>3. Upcoming' = expected' + Len(leftData')
    BY DEF Upcoming
  <2> QED BY <1>1, <1>2, <1>3, <2>1, <2>2, <2>3
<1>5. Continues(leftData', rightData', expected')
  BY <1>3, NothingInOrder
<1>6. CASE m_rawDSD
  <2>1. dsdRemainderAvailable' = 0
    BY <1>6, Cleared DEF Seek
  <2>2. Samples' = at' /\ file'.kind # "dff"
    BY <1>1 DEF Samples
  <2>3. Upcoming' + dsdRemainderAvailable' = Samples'
    <3>1. \A n \in Nat : n + 0 = n
      OBVIOUS
    <3>2. at' + 0 = at'
      BY <1>4, <3>1, Zenon
    <3> QED BY <1>4, <2>1, <2>2, <3>2, Zenon
  <2>4. \A k \in 0 .. dsdRemainderAvailable' - 1 : FALSE
    BY <2>1
  <2>5. DsdInv'
    BY <1>3, <2>1, <2>2, <2>3, <2>4, Zenon DEF DsdInv
  <2> QED BY <1>1, <1>5, <1>6, <2>5, DsdPlaced
<1>7. CASE ~m_rawDSD
  <2>1. file.kind = "pcm"
    <3>1. file \in Files
      BY <1>1 DEF Types, FileTypes
    <3> QED BY <1>7, <3>1, Sizes DEF m_rawDSD
  <2>2. frames' = <<>> /\ m_pcmFifo' = <<>> /\ UNCHANGED remainder
    BY <1>7 DEF Seek
  <2>3. /\ dsdRemainderAvailable = 0
        /\ (m_resamplerInitialized /\ ~m_bypassMode => m_swrContext = file.fmt)
        /\ sample_fmt \in {file.stated, file.fmt}
    BY <1>1, <2>1, PcmIdle
  <2>4. /\ file'.kind = "pcm" /\ dsdRemainderAvailable' = 0
        /\ (m_resamplerInitialized' /\ ~m_bypassMode' => m_swrContext' = file'.fmt)
        /\ sample_fmt' \in {file'.stated, file'.fmt}
    BY <1>1, <2>1, <2>2, <2>3, RingSame
  <2>5. InOrder(m_pcmFifo', Upcoming') /\ Upcoming' + lost' + Len(m_pcmFifo') = at'
    <3>0. \A n \in Nat : n + 0 + 0 = n
      OBVIOUS
    <3>1. at' + 0 + 0 = at'
      BY <1>4, <3>0, Zenon
    <3>2. Len(m_pcmFifo') = 0
      BY <1>2, <2>2
    <3>3. Upcoming' + lost' + Len(m_pcmFifo') = at'
      BY <1>3, <1>4, <3>1, <3>2, Zenon
    <3> QED BY <2>2, <3>3, NothingInOrder
  <2>6. PcmInv'
    BY <1>3, <2>2, <2>4, <2>5 DEF PcmInv
  <2> QED BY <1>1, <1>5, <2>1, <2>6, PcmPlaced
<1> QED BY <1>6, <1>7

LEMMA InitPlaced == Init => Placed
<1> SUFFICES ASSUME Init PROVE Placed
  OBVIOUS
<1>1. /\ file = Closed /\ at = 0 /\ m_eof = FALSE /\ reading = FALSE /\ expected = 0
      /\ m_dsdRemainderReadPos = 0 /\ m_dsdRemainderWritePos = 0
      /\ m_bypassMode = FALSE /\ m_resamplerInitialized = FALSE /\ leftData = <<>> /\ rightData = <<>>
  BY DEF Init
<1>2. dsdRemainderAvailable = 0
  <2>1. dsdRemainderAvailable = (0 - 0) % RemainderSize
    BY <1>1 DEF dsdRemainderAvailable
  <2>2. 0 % RemainderSize = 0
    BY Sizes, RemainderInside
  <2> QED BY <2>1, <2>2
<1>3. ClosedInv
  BY <1>1, <1>2 DEF ClosedInv
<1>4. DsdInv /\ PcmInv
  BY <1>1, Sizes DEF DsdInv, PcmInv, m_rawDSD
<1>5. Continues(leftData, rightData, expected)
  BY <1>1, NothingInOrder
<1> QED BY <1>3, <1>4, <1>5 DEF Placed

LEMMA StutterPlaced ==
  ASSUME Types, Placed, UNCHANGED vars
  PROVE  Placed'
<1>1. UNCHANGED <<file, at, m_eof, remainder, codec, read, errors, history>>
  BY DEF vars
<1>2. /\ dsdRemainderAvailable' = dsdRemainderAvailable
      /\ UNCHANGED <<m_dsdRemainderLeft, m_dsdRemainderRight>> /\ \A k : Slot(k)' = Slot(k)
  BY <1>1, RingSame
<1>3. Upcoming' = Upcoming /\ StillNeed' = StillNeed /\ Samples' = Samples /\ m_rawDSD' = m_rawDSD
  BY <1>1 DEF Upcoming, StillNeed, Samples, m_rawDSD, read, history
<1>4. ClosedInv'
  BY <1>1, <1>2 DEF Placed, ClosedInv, read, codec, history
<1>5. DsdInv'
  <2>1. file' = file /\ at' = at /\ m_eof' = m_eof /\ reading' = reading /\ lost' = lost
    BY <1>1 DEF read, history
  <2> QED BY <1>2, <1>3, <2>1 DEF Placed, DsdInv
<1>6. PcmInv'
  <2>1. /\ file' = file /\ at' = at /\ m_eof' = m_eof /\ reading' = reading /\ lost' = lost
        /\ receiving' = receiving /\ frames' = frames /\ m_pcmFifo' = m_pcmFifo /\ sample_fmt' = sample_fmt
        /\ m_resamplerInitialized' = m_resamplerInitialized /\ m_bypassMode' = m_bypassMode
        /\ m_swrContext' = m_swrContext
    BY <1>1 DEF read, history, codec
  <2> QED BY <1>2, <1>3, <2>1 DEF Placed, PcmInv
<1>7. Continues(leftData', rightData', expected')
  BY <1>1 DEF Placed, read, history
<1> QED BY <1>4, <1>5, <1>6, <1>7 DEF Placed

LEMMA NextPlaced ==
  ASSUME RegularFiles
  PROVE  Types /\ Placed /\ [Next]_vars => Placed'
<1> SUFFICES ASSUME Types, Placed, [Next]_vars PROVE Placed'
  OBVIOUS
<1>1. CASE UNCHANGED vars
  BY <1>1, StutterPlaced
<1>2. CASE \E f \in Files : Open(f)
  BY <1>2, OpenPlaced
<1>3. CASE Close
  BY <1>3, ClosePlaced
<1>4. CASE \E p \in 0 .. file.stored : Seek(p)
  BY <1>4, SeekPlaced
<1>5. CASE \E n \in Reads : ReadDsd(n) \/ ReadPcm(n)
  BY <1>5, ReadDsdPlaced, ReadPcmPlaced
<1>6. CASE EndOfFile \/ DffEnd
  BY <1>6, LoopEndPlaced
<1>7. CASE DsfPacket \/ DffPacket
  BY <1>7, DsfPacketPlaced, DffPacketPlaced
<1>8. CASE PcmPacket \/ PcmPacketFails
  BY <1>8, PcmPacketPlaced, PcmPacketFailsPlaced
<1>9. CASE PcmFrame
  BY <1>9, PcmFramePlaced
<1>10. CASE PcmFrameFails \/ LeaveBypassFails
  BY <1>10, FrameDroppedPlaced
<1>11. CASE LeaveBypass
  BY <1>11, LeaveBypassPlaced
<1>12. CASE Return
  BY <1>12, ReturnPlaced
<1> QED BY <1>1, <1>2, <1>3, <1>4, <1>5, <1>6, <1>7, <1>8, <1>9, <1>10, <1>11, <1>12 DEF Next, Step

\* Where every sample is, at every step: in the block, in the ring or the FIFO behind
\* it, or in the frame that is to be received.
THEOREM InPlace ==
  ASSUME RegularFiles
  PROVE  Spec => [](Types /\ Placed)
<1>1. Init => Types /\ Placed
  BY InitTyped, InitPlaced
<1>2. Types /\ Placed /\ [Next]_vars => (Types /\ Placed)'
  BY NextTyped, NextPlaced
<1> QED BY <1>1, <1>2, PTL DEF Spec

\* What a read hands out follows what the read before it handed out, sample by sample
\* and in the format asked for, for files of any length and packet size, blocks of any
\* size and a ring of any size that a packet fits.
THEOREM SampleBySample ==
  ASSUME RegularFiles
  PROVE  Spec => []Contiguous
<1>1. Types /\ Placed => Contiguous
  <2> SUFFICES ASSUME Types, Placed PROVE Contiguous
    OBVIOUS
  <2>1. /\ leftData \in Seq(Int) /\ rightData \in Seq(Int) /\ Len(leftData) = Len(rightData)
        /\ Len(leftData) \in Nat /\ expected \in Nat
    BY BlockHas
  <2>2. /\ Left(expected, Len(leftData)) \in Seq(Int) /\ Len(Left(expected, Len(leftData))) = Len(leftData)
        /\ Right(expected, Len(leftData)) \in Seq(Int) /\ Len(Right(expected, Len(leftData))) = Len(leftData)
    BY <2>1, ChannelsTyped
  <2>3. \A i \in 1 .. Len(leftData) : /\ leftData[i] = Left(expected, Len(leftData))[i]
                                      /\ rightData[i] = Right(expected, Len(leftData))[i]
    BY DEF Placed, Continues, Left, Right
  <2>4. leftData = Left(expected, Len(leftData)) /\ rightData = Right(expected, Len(leftData))
    BY <2>1, <2>2, <2>3, SeqEqual
  <2> QED BY <2>1, <2>4 DEF Contiguous
<1> QED BY <1>1, InPlace, PTL

\* Between reads every sample taken out of the file was handed out or waits for the
\* next read; at the end all were handed out.
THEOREM NothingKeptBack ==
  ASSUME RegularFiles
  PROVE  Spec => []NothingLost
<1>1. Types /\ Placed => NothingLost
  <2> SUFFICES ASSUME Types, Placed, ~reading
               PROVE  /\ expected + dsdRemainderAvailable + Len(m_pcmFifo) + Unreceived = Samples
                      /\ m_eof => expected = Samples
    BY DEF NothingLost
  <2>1. Len(<<>>) = 0 /\ expected \in Nat /\ Upcoming = expected
    BY BlockHas
  <2>2. dsdRemainderAvailable \in Nat
    BY Available, Sizes DEF Types
  <2>3. CASE m_rawDSD
    <3>1. m_pcmFifo = <<>> /\ frames = <<>>
      BY <2>3, DsdFile DEF Types, CodecTypes
    <3>2. Upcoming + dsdRemainderAvailable = Samples /\ (m_eof => dsdRemainderAvailable = 0)
      BY <2>3 DEF Placed, DsdInv
    <3>3. Len(m_pcmFifo) = 0 /\ Unreceived = 0
      BY <2>1, <3>1 DEF Unreceived
    <3> QED BY <2>1, <2>2, <3>2, <3>3
  <2>4. CASE file.kind = "pcm"
    <3>1. /\ dsdRemainderAvailable = 0 /\ frames = <<>> /\ expected + Len(m_pcmFifo) = at
          /\ (m_eof => m_pcmFifo = <<>>) /\ Len(m_pcmFifo) \in Nat
      BY <2>4, PcmIdle
    <3>2. Unreceived = 0 /\ Samples = at
      BY <2>4, <3>1 DEF Unreceived, Samples
    <3> QED BY <2>1, <3>1, <3>2
  <2>5. CASE file = Closed
    <3>1. at = 0 /\ expected = 0 /\ dsdRemainderAvailable = 0
      BY <2>5 DEF Placed, ClosedInv
    <3>2. m_pcmFifo = <<>> /\ frames = <<>>
      BY <2>5, Sizes DEF Types, CodecTypes
    <3>3. Unreceived = 0 /\ Samples = 0 /\ Len(m_pcmFifo) = 0
      BY <2>1, <2>5, <3>1, <3>2, Sizes DEF Unreceived, Samples
    <3> QED BY <3>1, <3>3
  <2>6. m_rawDSD \/ file.kind = "pcm" \/ file = Closed
    BY Sizes DEF Types, FileTypes, m_rawDSD
  <2> QED BY <2>3, <2>4, <2>5, <2>6
<1> QED BY <1>1, InPlace, PTL
=============================================================================
