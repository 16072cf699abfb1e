----------------------------- MODULE Ring_proofs -----------------------------
(***************************************************************************)
(* The ring of DirettaSync.  RingBuffer: the two-step operations, for every*)
(* size, every block and every interleaving of the producer with the       *)
(* consumer, are safe and implement the queue of bytes ByteFifo.           *)
(* RingAccess: the guard that keeps a resize away from them, for any number*)
(* of users and reconfigurers, any number of stores in flight and any load *)
(* that passes them: what it keeps, and what it leaves open.               *)
(***************************************************************************)
EXTENDS RingBuffer, RingAccess, FiniteSetTheorems, SequenceTheorems, TLAPS

(* The remainder, on the three stretches the ring's arithmetic meets. *)

\* A masked position is an index of the ring.
LEMMA RemainderRange ==
  ASSUME NEW n \in Nat, n > 0, NEW a \in Int
  PROVE  a % n \in 0..(n - 1)
  BY SMT

\* Masking leaves an index alone.
LEMMA RemainderInside ==
  ASSUME NEW n \in Nat, n > 0, NEW a \in Int, 0 <= a, a < n
  PROVE  a % n = a
  BY SMT

\* Masking wraps a position one lap ahead.
LEMMA RemainderAbove ==
  ASSUME NEW n \in Nat, n > 0, NEW a \in Int, n <= a, a < n + n
  PROVE  a % n = a - n
  BY SMT

\* Masking wraps a negative distance, as the unsigned subtraction of the code does.
LEMMA RemainderBelow ==
  ASSUME NEW n \in Nat, n > 0, NEW a \in Int, a < 0, 0 - n <= a
  PROVE  a % n = a + n
  BY SMT

-----------------------------------------------------------------------------
\* getAvailable and getFreeSpace at any two positions, as branches.
LEMMA Measured ==
  ASSUME NEW w \in Index, NEW r \in Index
  PROVE  /\ (w - r) % Size = IF r <= w THEN w - r ELSE w - r + Size
         /\ (r - w - 1) % Size = IF r <= w THEN r - w - 1 + Size ELSE r - w - 1
<1>1. Size \in Nat /\ Size > 0 /\ w \in Int /\ r \in Int
      /\ 0 <= w /\ w < Size /\ 0 <= r /\ r < Size
  BY RingBufferAssumption DEF Index
<1>2. CASE r <= w
  <2>1. (w - r) % Size = w - r
    BY <1>1, <1>2, RemainderInside
  <2>2. (r - w - 1) % Size = r - w - 1 + Size
    BY <1>1, <1>2, RemainderBelow
  <2>3. QED BY <1>2, <2>1, <2>2
<1>3. CASE w < r
  <2>1. (w - r) % Size = w - r + Size
    BY <1>1, <1>3, RemainderBelow
  <2>2. (r - w - 1) % Size = r - w - 1
    BY <1>1, <1>3, RemainderInside
  <2>3. QED BY <1>1, <1>3, <2>1, <2>2
<1>4. QED BY <1>1, <1>2, <1>3

\* The same for the ring's own positions.
LEMMA Available ==
  ASSUME TypeOK
  PROVE  GetAvailable = IF readPos <= writePos THEN writePos - readPos
                        ELSE writePos - readPos + Size
  BY Measured DEF TypeOK, GetAvailable

LEMMA FreeSpace ==
  ASSUME TypeOK
  PROVE  GetFreeSpace = IF readPos <= writePos THEN readPos - writePos - 1 + Size
                        ELSE readPos - writePos - 1
  BY Measured DEF TypeOK, GetFreeSpace

\* The two ways the code computes the free room agree at every pair of positions.
LEMMA RoomsAgreeTyped == TypeOK => RoomsAgree
<1> SUFFICES ASSUME TypeOK PROVE RoomsAgree
  OBVIOUS
<1>1. Size \in Nat /\ writePos \in Int /\ readPos \in Int
  BY RingBufferAssumption DEF TypeOK, Index
<1>2. QED BY <1>1, FreeSpace DEF RoomsAgree, WriteToRingRoom

\* Room and content always add up to one less than the size.
LEMMA RoomPlusContent ==
  ASSUME TypeOK
  PROVE  /\ GetAvailable \in Nat
         /\ GetFreeSpace \in Nat
         /\ GetAvailable + GetFreeSpace = Size - 1
<1>1. Size \in Nat /\ Size > 0 /\ writePos \in Int /\ readPos \in Int
      /\ 0 <= writePos /\ writePos < Size /\ 0 <= readPos /\ readPos < Size
  BY RingBufferAssumption DEF TypeOK, Index
<1>2. QED BY <1>1, Available, FreeSpace

\* A position moved by less than a lap, as a branch.
LEMMA Moved ==
  ASSUME RingBufferAssumption, NEW p \in Index, NEW k \in Nat, k < Size
  PROVE  /\ At(p, k) \in Index
         /\ At(p, k) = IF p + k < Size THEN p + k ELSE p + k - Size
<1>1. Size \in Nat /\ Size > 0 /\ p \in Int /\ 0 <= p /\ p < Size /\ p + k \in Int
  BY DEF Index, RingBufferAssumption
<1>2. CASE p + k < Size
  BY <1>1, <1>2, RemainderInside DEF At, Index
<1>3. CASE Size <= p + k
  BY <1>1, <1>3, RemainderAbove DEF At, Index
<1>4. QED BY <1>1, <1>2, <1>3

-----------------------------------------------------------------------------
\* The initial ring is empty and well typed.
LEMMA InitIInv == Init => IInv
<1> SUFFICES ASSUME Init PROVE IInv
  OBVIOUS
<1>1. 0 \in Index
  BY RingBufferAssumption DEF Index
<1>2. buffer \in [Index -> Byte] /\ pushing \in Seq(Byte) /\ dest \in Seq(Byte)
  BY EmptySeq DEF Init
<1>3. TypeOK
  BY <1>1, <1>2 DEF Init, TypeOK
<1>4. Len(pushing) = 0 /\ popping = 0
  BY EmptySeq DEF Init
<1>5. GetFreeSpace \in Nat /\ GetAvailable \in Nat
  BY <1>3, RoomPlusContent
<1>6. QED BY <1>3, <1>4, <1>5 DEF IInv, StillFits

\* A push takes a prefix of its block no longer than the room it measured.
LEMMA BeginPushIInv ==
  ASSUME IInv, NEW block \in Seq(Byte), BeginPush(block, GetFreeSpace)
  PROVE  IInv'
<1> DEFINE n == Least(Len(block), GetFreeSpace)
<1>1. Len(block) \in Nat /\ GetFreeSpace \in Nat /\ GetAvailable \in Nat
  BY LenProperties, RoomPlusContent DEF IInv
<1>2. n \in Nat /\ n <= Len(block) /\ n <= GetFreeSpace
  BY <1>1 DEF Least
<1>3. n \in 0..Len(block)
  BY <1>1, <1>2
<1>4. pushing' = SubSeq(block, 1, n)
  BY DEF BeginPush
<1>5. pushing' \in Seq(Byte) /\ Len(pushing') = n
  BY <1>2, <1>3, <1>4, SubSeqProperties
<1>6. TypeOK'
  BY <1>5 DEF IInv, TypeOK, BeginPush
<1>7. GetFreeSpace' = GetFreeSpace /\ GetAvailable' = GetAvailable /\ popping' = popping
  BY DEF BeginPush, GetFreeSpace, GetAvailable
<1>8. QED BY <1>2, <1>5, <1>6, <1>7 DEF IInv, StillFits

\* Publishing a push turns as much room into content as the block is long.
LEMMA CommitPushIInv == IInv /\ CommitPush => IInv'
<1> SUFFICES ASSUME IInv, CommitPush PROVE IInv'
  OBVIOUS
<1> DEFINE n == Len(pushing)
<1>1. TypeOK /\ StillFits
  BY DEF IInv
<1>2. n \in Nat /\ n <= GetFreeSpace
  BY <1>1, LenProperties DEF TypeOK, StillFits
<1>3. GetAvailable \in Nat /\ GetFreeSpace \in Nat /\ GetAvailable + GetFreeSpace = Size - 1
  BY <1>1, RoomPlusContent
<1>4. Size \in Nat /\ n < Size /\ writePos \in Index /\ readPos \in Index
  BY <1>1, <1>2, <1>3, RingBufferAssumption DEF TypeOK
<1>5. writePos' \in Index
      /\ writePos' = IF writePos + n < Size THEN writePos + n ELSE writePos + n - Size
  BY <1>2, <1>4, Moved, RingBufferAssumption DEF CommitPush
<1>6. buffer' \in [Index -> Byte]
  <2> SUFFICES ASSUME NEW i \in Index, (i - writePos) % Size < n
               PROVE  pushing[((i - writePos) % Size) + 1] \in Byte
    BY <1>1 DEF TypeOK, CommitPush
  <2>1. i - writePos \in Int /\ Size > 0
    BY <1>4, RingBufferAssumption DEF Index
  <2>2. (i - writePos) % Size \in 0..(Size - 1)
    BY <1>4, <2>1, RemainderRange
  <2>3. ((i - writePos) % Size) + 1 \in 1..n
    BY <1>2, <2>2
  <2>4. QED BY <1>1, <2>3, ElementOfSeq DEF TypeOK
<1>7. pushing' = <<>> /\ pushing' \in Seq(Byte) /\ Len(pushing') = 0
  BY EmptySeq DEF CommitPush
<1>8. readPos' = readPos /\ popping' = popping /\ dest' = dest
  BY DEF CommitPush
<1>9. TypeOK'
  BY <1>1, <1>5, <1>6, <1>7, <1>8 DEF TypeOK
<1>10. GetAvailable' \in Nat /\ GetFreeSpace' \in Nat
       /\ GetAvailable' = IF readPos' <= writePos' THEN writePos' - readPos'
                          ELSE writePos' - readPos' + Size
  <2>1. GetAvailable' = (writePos' - readPos') % Size
        /\ GetFreeSpace' = (readPos' - writePos' - 1) % Size
    BY DEF GetAvailable, GetFreeSpace
  <2>2. readPos' \in Nat /\ writePos' \in Nat /\ readPos' < Size /\ writePos' < Size
    BY <1>4, <1>5, <1>8 DEF Index
  <2>3. writePos' \in Index /\ readPos' \in Index
    BY <1>4, <1>5, <1>8
  <2>4. /\ (writePos' - readPos') % Size =
             IF readPos' <= writePos' THEN writePos' - readPos' ELSE writePos' - readPos' + Size
        /\ (readPos' - writePos' - 1) % Size =
             IF readPos' <= writePos' THEN readPos' - writePos' - 1 + Size
             ELSE readPos' - writePos' - 1
    BY <2>3, Measured
  <2>5. /\ GetAvailable' = IF readPos' <= writePos' THEN writePos' - readPos'
                           ELSE writePos' - readPos' + Size
        /\ GetFreeSpace' = IF readPos' <= writePos' THEN readPos' - writePos' - 1 + Size
                           ELSE readPos' - writePos' - 1
    BY <2>1, <2>4
  <2>6. Size > 0 /\ writePos' - readPos' \in Int /\ readPos' - writePos' - 1 \in Int
    BY <1>4, <2>2
  <2>7. /\ (writePos' - readPos') % Size \in 0..(Size - 1)
        /\ (readPos' - writePos' - 1) % Size \in 0..(Size - 1)
    BY <1>4, <2>6, RemainderRange
  <2>8. GetAvailable' \in Nat /\ GetFreeSpace' \in Nat
    BY <1>4, <2>1, <2>7
  <2>9. QED BY <2>5, <2>8
<1>11. GetAvailable' = GetAvailable + n
  <2>1. readPos \in Nat /\ writePos \in Nat /\ readPos < Size /\ writePos < Size
    BY <1>4 DEF Index
  <2>2. GetAvailable = IF readPos <= writePos THEN writePos - readPos
                       ELSE writePos - readPos + Size
    BY <1>1, Available
  <2>3. GetFreeSpace = Size - 1 - GetAvailable
    BY <1>3, <1>4
  <2>4. QED BY <1>2, <1>4, <1>5, <1>8, <1>10, <2>1, <2>2, <2>3
<1>12. popping \in Nat /\ popping <= GetAvailable
  BY <1>1 DEF TypeOK, StillFits
<1>13. popping' <= GetAvailable'
  BY <1>2, <1>3, <1>8, <1>11, <1>12
<1>14. Len(pushing') <= GetFreeSpace'
  BY <1>7, <1>10
<1>15. QED BY <1>9, <1>13, <1>14 DEF IInv, StillFits

\* A pop asks for no more than the content it measured.
LEMMA PopIInv ==
  ASSUME IInv, NEW len \in Nat, Pop(len)
  PROVE  IInv'
<1>1. GetFreeSpace \in Nat /\ GetAvailable \in Nat
  BY RoomPlusContent DEF IInv
<1>2. popping' \in Nat /\ popping' <= GetAvailable
  BY <1>1 DEF Pop, Least
<1>3. TypeOK'
  BY <1>2 DEF IInv, TypeOK, Pop
<1>4. GetFreeSpace' = GetFreeSpace /\ GetAvailable' = GetAvailable /\ pushing' = pushing
  BY DEF Pop, GetFreeSpace, GetAvailable
<1>5. QED BY <1>2, <1>3, <1>4 DEF IInv, StillFits

\* Publishing a pop turns as much content into room as the pop copied.
LEMMA CommitPopIInv == IInv /\ CommitPop => IInv'
<1> SUFFICES ASSUME IInv, CommitPop PROVE IInv'
  OBVIOUS
<1>1. TypeOK /\ StillFits
  BY DEF IInv
<1>2. popping \in Nat /\ popping <= GetAvailable
  BY <1>1 DEF TypeOK, StillFits
<1>3. GetAvailable \in Nat /\ GetFreeSpace \in Nat /\ GetAvailable + GetFreeSpace = Size - 1
  BY <1>1, RoomPlusContent
<1>4. Size \in Nat /\ popping < Size /\ writePos \in Index /\ readPos \in Index
  BY <1>1, <1>2, <1>3, RingBufferAssumption DEF TypeOK
<1>5. readPos' \in Index
      /\ readPos' = IF readPos + popping < Size THEN readPos + popping
                    ELSE readPos + popping - Size
  BY <1>2, <1>4, Moved, RingBufferAssumption DEF CommitPop
<1>6. dest' \in Seq(Byte)
  <2>1. \A k \in 1..popping : buffer[At(readPos, k - 1)] \in Byte
    <3> TAKE k \in 1..popping
    <3>1. k - 1 \in Nat /\ k - 1 < Size
      BY <1>2, <1>4
    <3>2. At(readPos, k - 1) \in Index
      BY <1>4, <3>1, Moved, RingBufferAssumption
    <3>3. QED BY <1>1, <3>2 DEF TypeOK
  <2>2. dest' = [k \in 1..popping |-> buffer[At(readPos, k - 1)]]
    BY DEF CommitPop
  <2>3. QED BY <1>2, <2>1, <2>2, IsASeq
<1>7. writePos' = writePos /\ pushing' = pushing /\ buffer' = buffer /\ popping' = 0
  BY DEF CommitPop
<1>8. TypeOK'
  BY <1>1, <1>5, <1>6, <1>7 DEF TypeOK
<1>9. GetAvailable' \in Nat /\ GetFreeSpace' \in Nat
      /\ GetFreeSpace' = IF readPos' <= writePos' THEN readPos' - writePos' - 1 + Size
                         ELSE readPos' - writePos' - 1
  <2>1. GetAvailable' = (writePos' - readPos') % Size
        /\ GetFreeSpace' = (readPos' - writePos' - 1) % Size
    BY DEF GetAvailable, GetFreeSpace
  <2>2. readPos' \in Nat /\ writePos' \in Nat /\ readPos' < Size /\ writePos' < Size
    BY <1>4, <1>5, <1>7 DEF Index
  <2>3. writePos' \in Index /\ readPos' \in Index
    BY <1>4, <1>5, <1>7
  <2>4. /\ (writePos' - readPos') % Size =
             IF readPos' <= writePos' THEN writePos' - readPos' ELSE writePos' - readPos' + Size
        /\ (readPos' - writePos' - 1) % Size =
             IF readPos' <= writePos' THEN readPos' - writePos' - 1 + Size
             ELSE readPos' - writePos' - 1
    BY <2>3, Measured
  <2>5. /\ GetAvailable' = IF readPos' <= writePos' THEN writePos' - readPos'
                           ELSE writePos' - readPos' + Size
        /\ GetFreeSpace' = IF readPos' <= writePos' THEN readPos' - writePos' - 1 + Size
                           ELSE readPos' - writePos' - 1
    BY <2>1, <2>4
  <2>6. Size > 0 /\ writePos' - readPos' \in Int /\ readPos' - writePos' - 1 \in Int
    BY <1>4, <2>2
  <2>7. /\ (writePos' - readPos') % Size \in 0..(Size - 1)
        /\ (readPos' - writePos' - 1) % Size \in 0..(Size - 1)
    BY <1>4, <2>6, RemainderRange
  <2>8. GetAvailable' \in Nat /\ GetFreeSpace' \in Nat
    BY <1>4, <2>1, <2>7
  <2>9. QED BY <2>5, <2>8
<1>10. GetFreeSpace' = GetFreeSpace + popping
  <2>1. readPos \in Nat /\ writePos \in Nat /\ readPos < Size /\ writePos < Size
    BY <1>4 DEF Index
  <2>2. GetFreeSpace = IF readPos <= writePos THEN readPos - writePos - 1 + Size
                       ELSE readPos - writePos - 1
    BY <1>1, FreeSpace
  <2>3. GetAvailable = Size - 1 - GetFreeSpace
    BY <1>3, <1>4
  <2>4. QED BY <1>2, <1>4, <1>5, <1>7, <1>9, <2>1, <2>2, <2>3
<1>11. Len(pushing) \in Nat /\ Len(pushing) <= GetFreeSpace
  BY <1>1, LenProperties DEF TypeOK, StillFits
<1>12. Len(pushing') <= GetFreeSpace'
  BY <1>2, <1>3, <1>7, <1>10, <1>11
<1>13. popping' <= GetAvailable'
  BY <1>7, <1>9
<1>14. QED BY <1>8, <1>12, <1>13 DEF IInv, StillFits

\* Clearing an idle ring leaves it empty, with nothing in flight.
LEMMA ClearIInv == IInv /\ Clear => IInv'
<1> SUFFICES ASSUME IInv, Clear PROVE IInv'
  OBVIOUS
<1>1. 0 \in Index /\ Size \in Nat /\ Size >= 2
  BY RingBufferAssumption DEF Index
<1>2. TypeOK'
  BY <1>1 DEF IInv, TypeOK, Clear
<1>3. Len(pushing') = 0 /\ popping' = 0
  BY EmptySeq DEF Clear
<1>4. GetAvailable' = (0 - 0) % Size /\ GetFreeSpace' = (0 - 0 - 1) % Size
  BY DEF Clear, GetAvailable, GetFreeSpace
<1>5. GetAvailable' >= 0 /\ GetFreeSpace' >= 0
  BY <1>1, <1>4, Measured
<1>6. QED BY <1>2, <1>3, <1>5 DEF IInv, StillFits

\* Every step keeps the positions typed and what was measured available.
LEMMA NextIInv == IInv /\ [Next]_vars => IInv'
<1> SUFFICES ASSUME IInv, [Next]_vars PROVE IInv'
  OBVIOUS
<1>1. ASSUME NEW block \in Block(MaxBlock), Push(block) PROVE IInv'
  <2>1. block \in Seq(Byte)
    BY <1>1, SeqDef, RingBufferAssumption DEF Block
  <2>2. QED BY <1>1, <2>1, BeginPushIInv DEF Push
<1>2. ASSUME NEW block \in Block(MaxBlock), WriteToRing(block) PROVE IInv'
  <2>1. block \in Seq(Byte)
    BY <1>2, SeqDef, RingBufferAssumption DEF Block
  <2>2. GetFreeSpace = WriteToRingRoom
    BY RoomsAgreeTyped DEF IInv, RoomsAgree
  <2>3. BeginPush(block, GetFreeSpace)
    BY <1>2, <2>2 DEF WriteToRing
  <2>4. QED BY <2>1, <2>3, BeginPushIInv
<1>3. CASE CommitPush
  BY <1>3, CommitPushIInv
<1>4. ASSUME NEW len \in 1..MaxBlock, Pop(len) PROVE IInv'
  BY <1>4, PopIInv
<1>5. CASE CommitPop
  BY <1>5, CommitPopIInv
<1>6. CASE Clear
  BY <1>6, ClearIInv
<1>7. CASE UNCHANGED vars
  BY <1>7 DEF vars, IInv, TypeOK, StillFits, GetFreeSpace, GetAvailable
<1>8. QED BY <1>1, <1>2, <1>3, <1>4, <1>5, <1>6, <1>7 DEF Next

\* For a ring of any size and blocks of any length: the positions stay indexes of the
\* ring, and what a push or a pop measured is still there when it publishes.
THEOREM Inductive == Spec => []IInv
  BY InitIInv, NextIInv, PTL DEF Spec

\* Types: both positions stay indices of the ring, also when a push or a pop wraps,
\* the ring holds bytes in every slot, and so does what is pushed and what was read.
THEOREM TypeCorrect == Spec => []TypeOK
<1>1. IInv => TypeOK
  BY DEF IInv
<1> QED BY <1>1, Inductive, PTL

\* A block that was accepted still fits, and bytes that were promised are still there.
THEOREM MeasureHolds == Spec => []StillFits
<1>1. IInv => StillFits
  BY DEF IInv
<1>2. QED BY <1>1, Inductive, PTL

-----------------------------------------------------------------------------
\* What is being written and what is being read lie in different halves of the lap.
LEMMA Apart == IInv => NoOverlap
<1> SUFFICES ASSUME IInv,
                    NEW j \in 0..(Len(pushing) - 1), NEW k \in 0..(popping - 1)
             PROVE  At(writePos, j) # At(readPos, k)
  BY DEF NoOverlap, Writing, Reading
<1>1. TypeOK /\ StillFits
  BY DEF IInv
<1>2. Len(pushing) \in Nat /\ popping \in Nat
  BY <1>1, LenProperties DEF TypeOK
<1>3. GetAvailable \in Nat /\ GetFreeSpace \in Nat /\ GetAvailable + GetFreeSpace = Size - 1
  BY <1>1, RoomPlusContent
<1>4. Size \in Nat /\ writePos \in Nat /\ readPos \in Nat /\ writePos < Size /\ readPos < Size
  BY <1>1, RingBufferAssumption DEF TypeOK, Index
<1>5. j \in Nat /\ j < GetFreeSpace /\ j < Size
  BY <1>1, <1>2, <1>3, <1>4 DEF StillFits
<1>6. k \in Nat /\ k < GetAvailable /\ k < Size
  BY <1>1, <1>2, <1>3, <1>4 DEF StillFits
<1>7. At(writePos, j) = IF writePos + j < Size THEN writePos + j ELSE writePos + j - Size
  BY <1>1, <1>5, Moved, RingBufferAssumption DEF TypeOK
<1>8. At(readPos, k) = IF readPos + k < Size THEN readPos + k ELSE readPos + k - Size
  BY <1>1, <1>6, Moved, RingBufferAssumption DEF TypeOK
<1>9. GetAvailable = IF readPos <= writePos THEN writePos - readPos
                     ELSE writePos - readPos + Size
  BY <1>1, Available
<1>10. GetFreeSpace = Size - 1 - GetAvailable
  BY <1>3, <1>4
<1>11. QED BY <1>4, <1>5, <1>6, <1>7, <1>8, <1>9, <1>10

\* No sample is torn: the producer never copies into a slot the consumer is copying
\* out of, whatever happened between its measure and its copy.
THEOREM NoTornSample == Spec => []NoOverlap
  BY Inductive, Apart, PTL

\* push and the converting pushes agree on the room, in every reachable state.
THEOREM SameRoom == Spec => []RoomsAgree
<1>1. IInv => RoomsAgree
  BY RoomsAgreeTyped DEF IInv
<1>2. QED BY <1>1, Inductive, PTL
-----------------------------------------------------------------------------
(* The queue of bytes. *)

\* The bytes between two positions, oldest first, and how many there are.
Count(w, r) == (w - r) % Size
Content(w, r, b) == [k \in 1..Count(w, r) |-> b[At(r, k - 1)]]

-----------------------------------------------------------------------------
(* Where things are. *)

LEMMA CountIs ==
  ASSUME NEW w \in Index, NEW r \in Index
  PROVE  /\ Count(w, r) \in Nat /\ Count(w, r) < Size
         /\ Count(w, r) = IF r <= w THEN w - r ELSE w - r + Size
<1>1. Size \in Nat /\ Size > 0 /\ w \in 0..(Size - 1) /\ r \in 0..(Size - 1)
  BY RingBufferAssumption DEF Index
<1>2. Count(w, r) = IF r <= w THEN w - r ELSE w - r + Size
  BY Measured DEF Count
<1> QED BY <1>1, <1>2

LEMMA Slot ==
  ASSUME NEW r \in Index, NEW k \in Nat, k < Size
  PROVE  /\ At(r, k) \in Index
         /\ At(r, k) = IF r + k < Size THEN r + k ELSE r + k - Size
BY Moved, RingBufferAssumption

\* Seen from the write position, the slot k after the read position is content of
\* the lap before, or that many slots into the free room.
LEMMA SeenFromWrite ==
  ASSUME NEW w \in Index, NEW r \in Index, NEW k \in Nat, k < Size
  PROVE  (At(r, k) - w) % Size =
           IF k < Count(w, r) THEN k - Count(w, r) + Size ELSE k - Count(w, r)
<1> DEFINE a == Count(w, r)
           slot == At(r, k)
<1>1. Size \in Nat /\ Size > 0 /\ w \in 0..(Size - 1) /\ r \in 0..(Size - 1)
  BY RingBufferAssumption DEF Index
<1>2. slot \in 0..(Size - 1) /\ slot = IF r + k < Size THEN r + k ELSE r + k - Size
  BY Slot DEF Index
<1>3. a \in Nat /\ a < Size /\ a = IF r <= w THEN w - r ELSE w - r + Size
  BY CountIs
<1> HIDE DEF a, slot
<1>4. slot - w \in Int /\ slot - w < Size /\ 0 - Size <= slot - w
  BY <1>1, <1>2
<1>5. (slot - w) % Size = IF slot - w < 0 THEN slot - w + Size ELSE slot - w
  <2>1. CASE slot - w < 0
    BY <1>1, <1>4, <2>1, RemainderBelow
  <2>2. CASE ~(slot - w < 0)
    <3>1. 0 <= slot - w
      BY <1>4, <2>2
    <3>2. (slot - w) % Size = slot - w
      BY <1>1, <1>4, <3>1, RemainderInside
    <3> QED BY <2>2, <3>2
  <2> QED BY <2>1, <2>2
<1>6. (slot - w) % Size = IF k < a THEN k - a + Size ELSE k - a
  <2>1. CASE k < a
    BY SMT, <1>1, <1>2, <1>3, <1>5, <2>1
  <2>2. CASE ~(k < a)
    BY SMT, <1>1, <1>2, <1>3, <1>5, <2>2
  <2> QED BY <2>1, <2>2
<1> QED BY <1>6 DEF a, slot

\* A slot some way after another one after the read position.
LEMMA SlotAfterSlot ==
  ASSUME NEW r \in Index, NEW j \in Nat, NEW k \in Nat, j + k < Size
  PROVE  At(At(r, j), k) = At(r, j + k)
<1> DEFINE p == At(r, j)
<1>1. Size \in Nat /\ r \in 0..(Size - 1) /\ j < Size /\ k < Size /\ j + k \in Nat
  BY RingBufferAssumption DEF Index
<1>2. p \in Index /\ p = IF r + j < Size THEN r + j ELSE r + j - Size
  BY <1>1, Slot
<1>3. At(r, j + k) = IF r + (j + k) < Size THEN r + (j + k) ELSE r + (j + k) - Size
  BY <1>1, Slot
<1> HIDE DEF p
<1>4. At(p, k) = IF p + k < Size THEN p + k ELSE p + k - Size
  BY <1>1, <1>2, Slot
<1>5. At(p, k) = At(r, j + k)
  BY SMT, <1>1, <1>2, <1>3, <1>4
<1> QED BY <1>5 DEF p

\* The content is a sequence of bytes, as long as getAvailable says.
LEMMA ContentIsSeq ==
  ASSUME NEW w \in Index, NEW r \in Index, NEW b \in [Index -> Byte]
  PROVE  /\ Content(w, r, b) \in Seq(Byte)
         /\ Len(Content(w, r, b)) = Count(w, r)
<1>1. Count(w, r) \in Nat /\ Count(w, r) < Size
  BY CountIs
<1>2. \A k \in 1..Count(w, r) : b[At(r, k - 1)] \in Byte
  <2> TAKE k \in 1..Count(w, r)
  <2>1. k - 1 \in Nat /\ k - 1 < Size
    BY <1>1, RingBufferAssumption
  <2>2. At(r, k - 1) \in Index
    BY <2>1, Slot
  <2> QED BY <2>2
<1>3. Content(w, r, b) \in Seq(Byte)
  BY <1>1, <1>2, IsASeq DEF Content
<1>4. Content(w, r, b) \in [1..Count(w, r) -> Byte]
  BY <1>2 DEF Content
<1>5. Len(Content(w, r, b)) = Count(w, r)
  BY <1>1, <1>3, <1>4, LenProperties
<1> QED BY <1>3, <1>5

\* Moving a position moves the count.
LEMMA Grown ==
  ASSUME NEW w \in Index, NEW r \in Index, NEW n \in Nat, Count(w, r) + n < Size
  PROVE  Count(At(w, n), r) = Count(w, r) + n
<1> DEFINE v == At(w, n)
           a == Count(w, r)
<1>1. Size \in Nat /\ w \in 0..(Size - 1) /\ r \in 0..(Size - 1)
  BY RingBufferAssumption DEF Index
<1>2. a \in Nat /\ a = IF r <= w THEN w - r ELSE w - r + Size
  BY CountIs
<1>3. n < Size
  BY <1>1, <1>2
<1>4. v \in Index /\ v = IF w + n < Size THEN w + n ELSE w + n - Size
  BY <1>3, Slot
<1> HIDE DEF v
<1>5. Count(v, r) = IF r <= v THEN v - r ELSE v - r + Size
  BY <1>4, CountIs
<1>6. a + n < Size
  OBVIOUS
<1> HIDE DEF a
<1>7. Count(v, r) = a + n
  BY SMT, <1>1, <1>2, <1>4, <1>5, <1>6
<1> QED BY <1>7 DEF a, v

LEMMA Shrunk ==
  ASSUME NEW w \in Index, NEW r \in Index, NEW n \in Nat, n <= Count(w, r)
  PROVE  Count(w, At(r, n)) = Count(w, r) - n
<1> DEFINE q == At(r, n)
           a == Count(w, r)
<1>1. Size \in Nat /\ w \in 0..(Size - 1) /\ r \in 0..(Size - 1)
  BY RingBufferAssumption DEF Index
<1>2. a \in Nat /\ a < Size /\ a = IF r <= w THEN w - r ELSE w - r + Size
  BY CountIs
<1>3. n < Size
  BY <1>1, <1>2
<1>4. q \in Index /\ q = IF r + n < Size THEN r + n ELSE r + n - Size
  BY <1>3, Slot
<1> HIDE DEF q
<1>5. Count(w, q) = IF q <= w THEN w - q ELSE w - q + Size
  BY <1>4, CountIs
<1>6. n <= a
  OBVIOUS
<1> HIDE DEF a
<1>7. Count(w, q) = a - n
  BY SMT, <1>1, <1>2, <1>4, <1>5, <1>6
<1> QED BY <1>7 DEF a, q

-----------------------------------------------------------------------------
(* What the two commits do to the content. *)

\* The ring with a block copied in at the write position.
Filled(w, b, block) ==
  [i \in Index |-> IF (i - w) % Size < Len(block) THEN block[((i - w) % Size) + 1] ELSE b[i]]

\* A block that fits goes behind the content, and nothing of the content changes.
LEMMA PushAppends ==
  ASSUME NEW w \in Index, NEW r \in Index, NEW b \in [Index -> Byte],
         NEW block \in Seq(Byte), Count(w, r) + Len(block) < Size,
         Filled(w, b, block) \in [Index -> Byte]
  PROVE  Content(At(w, Len(block)), r, Filled(w, b, block)) = Content(w, r, b) \o block
<1> DEFINE n == Len(block)
           a == Count(w, r)
           c == Filled(w, b, block)
           old == Content(w, r, b)
           new == Content(At(w, n), r, c)
<1>1. n \in Nat /\ a \in Nat /\ a + n < Size /\ Size \in Nat
  BY LenProperties, CountIs, RingBufferAssumption
<1>2. old \in Seq(Byte) /\ Len(old) = a
  BY ContentIsSeq
<1>3. At(w, n) \in Index /\ Count(At(w, n), r) = a + n
  <2>1. n < Size
    BY <1>1
  <2> QED BY <1>1, <2>1, Slot, Grown
<1>4. new \in Seq(Byte) /\ Len(new) = a + n
  BY <1>3, ContentIsSeq
<1>5. /\ old \o block \in Seq(Byte) /\ Len(old \o block) = a + n
      /\ \A i \in 1..(a + n) : (old \o block)[i] = IF i <= a THEN old[i] ELSE block[i - a]
  <2>1. Len(block) = n /\ old \in Seq(Byte) /\ Len(old) = a
    BY <1>2
  <2> HIDE DEF old, a, n
  <2>2. /\ old \o block \in Seq(Byte) /\ Len(old \o block) = Len(old) + Len(block)
        /\ \A i \in 1..(Len(old) + Len(block)) :
             (old \o block)[i] = IF i <= Len(old) THEN old[i] ELSE block[i - Len(old)]
    BY <2>1, ConcatProperties
  <2> QED BY <2>1, <2>2
<1>6. ASSUME NEW i \in 1..(a + n)
      PROVE  new[i] = (old \o block)[i]
  <2> DEFINE slot == At(r, i - 1)
  <2>1. i - 1 \in Nat /\ i - 1 < Size
    BY <1>1
  <2>2. slot \in Index /\ (slot - w) % Size = IF i - 1 < a THEN i - 1 - a + Size ELSE i - 1 - a
    BY <2>1, Slot, SeenFromWrite
  <2>3. new[i] = c[slot]
    BY <1>3 DEF Content
  <2>4. c[slot] = IF (slot - w) % Size < n THEN block[((slot - w) % Size) + 1] ELSE b[slot]
    BY <2>2 DEF Filled
  <2>5. CASE i <= a
    <3>1. old[i] = b[slot]
      BY <1>1, <2>5 DEF Content
    <3>2. (slot - w) % Size = i - 1 - a + Size
      BY <1>1, <2>2, <2>5
    <3>3. ~((slot - w) % Size < n)
      BY <1>1, <3>2
    <3> QED BY <1>5, <2>3, <2>4, <2>5, <3>1, <3>3
  <2>6. CASE ~(i <= a)
    <3>1. (slot - w) % Size = i - 1 - a
      BY <1>1, <2>2, <2>6
    <3>2. (slot - w) % Size < n /\ ((slot - w) % Size) + 1 = i - a
      BY <1>1, <2>6, <3>1
    <3> QED BY <1>5, <2>3, <2>4, <2>6, <3>2
  <2> QED BY <2>5, <2>6
<1> HIDE DEF n, a, c, old, new
<1>7. new = old \o block
  BY <1>4, <1>5, <1>6, SeqEqual
<1> QED BY <1>7 DEF n, a, c, old, new

\* A pop hands out the oldest bytes, and leaves the others.
LEMMA PopTakes ==
  ASSUME NEW w \in Index, NEW r \in Index, NEW b \in [Index -> Byte],
         NEW n \in Nat, n <= Count(w, r)
  PROVE  /\ [k \in 1..n |-> b[At(r, k - 1)]] = SubSeq(Content(w, r, b), 1, n)
         /\ Content(w, At(r, n), b) = SubSeq(Content(w, r, b), n + 1, Len(Content(w, r, b)))
<1> DEFINE a == Count(w, r)
           old == Content(w, r, b)
           out == [k \in 1..n |-> b[At(r, k - 1)]]
           left == Content(w, At(r, n), b)
<1>1. a \in Nat /\ a < Size /\ Size \in Nat /\ n <= a
  BY CountIs, RingBufferAssumption
<1>2. old \in Seq(Byte) /\ Len(old) = a /\ \A k \in 1..a : old[k] = b[At(r, k - 1)]
  BY ContentIsSeq DEF Content
<1>3. \A k \in 1..a : old[k] \in Byte
  BY <1>2, ElementOfSeq
<1>4. out = SubSeq(old, 1, n)
  <2>1. \A k \in 1..n : out[k] = old[k] /\ old[k] \in Byte
    BY <1>1, <1>2, <1>3
  <2>2. /\ SubSeq(old, 1, n) \in Seq(Byte) /\ Len(SubSeq(old, 1, n)) = n
        /\ \A k \in 1..n : SubSeq(old, 1, n)[k] = old[k]
    <3>1. /\ SubSeq(old, 1, n) \in Seq(Byte)
          /\ Len(SubSeq(old, 1, n)) = IF 1 <= n THEN n - 1 + 1 ELSE 0
          /\ \A k \in 1..(n - 1 + 1) : SubSeq(old, 1, n)[k] = old[1 + k - 1]
      BY <2>1, SubSeqProperties
    <3> QED BY <3>1
  <2>3. out \in [1..n -> Byte]
    BY <2>1
  <2>4. out \in Seq(Byte) /\ Len(out) = n
    BY <2>1, <2>3, IsASeq, LenProperties
  <2> HIDE DEF out, old
  <2> QED BY <2>1, <2>2, <2>4, SeqEqual
<1>5. left = SubSeq(old, n + 1, Len(old))
  <2>1. At(r, n) \in Index /\ Count(w, At(r, n)) = a - n
    <3>1. n < Size
      BY <1>1
    <3> QED BY <3>1, Slot, Shrunk
  <2>2. left \in Seq(Byte) /\ Len(left) = a - n
    BY <2>1, ContentIsSeq
  <2>3. /\ SubSeq(old, n + 1, a) \in Seq(Byte) /\ Len(SubSeq(old, n + 1, a)) = a - n
        /\ \A k \in 1..(a - n) : SubSeq(old, n + 1, a)[k] = old[n + k]
    <3>1. /\ SubSeq(old, n + 1, a) \in Seq(Byte)
          /\ Len(SubSeq(old, n + 1, a)) = IF n + 1 <= a THEN a - (n + 1) + 1 ELSE 0
          /\ \A k \in 1..(a - (n + 1) + 1) : SubSeq(old, n + 1, a)[k] = old[(n + 1) + k - 1]
      <4>1. \A k \in (n + 1)..a : old[k] \in Byte
        BY <1>1, <1>3
      <4> HIDE DEF old, a
      <4>2. n + 1 \in Int /\ a \in Int
        BY <1>1
      <4> QED BY <4>1, <4>2, SubSeqProperties
    <3> HIDE DEF old, a
    <3>2. a - (n + 1) + 1 = a - n /\ \A k \in 1..(a - n) : (n + 1) + k - 1 = n + k
      BY <1>1
    <3>3. (IF n + 1 <= a THEN a - n ELSE 0) = a - n
      BY <1>1
    <3> QED BY <3>1, <3>2, <3>3
  <2>4. ASSUME NEW k \in 1..(a - n)
        PROVE  left[k] = SubSeq(old, n + 1, a)[k]
    <3>1. left[k] = b[At(At(r, n), k - 1)]
      BY <2>1 DEF Content
    <3>2. k - 1 \in Nat /\ n + (k - 1) < Size /\ n + k \in 1..a /\ n + (k - 1) = (n + k) - 1
      BY <1>1
    <3>3. At(At(r, n), k - 1) = At(r, (n + k) - 1)
      BY <3>2, SlotAfterSlot
    <3> QED BY <1>2, <2>3, <3>1, <3>2, <3>3
  <2> HIDE DEF left, old, a
  <2>5. left = SubSeq(old, n + 1, a)
    BY <2>2, <2>3, <2>4, SeqEqual
  <2> QED BY <1>2, <2>5
<1> QED BY <1>4, <1>5

-----------------------------------------------------------------------------
(* Every step of the ring is a step of the queue. *)

FifoQueue == Content(writePos, readPos, buffer)

LEMMA QueueIs == Fifo!vars = <<FifoQueue, pushing, dest>>
BY DEF Fifo!vars, FifoQueue, Content, Count, GetAvailable

LEMMA InitMaps == Init => Fifo!Init
<1> SUFFICES ASSUME Init PROVE Fifo!Init
  OBVIOUS
<1>1. GetAvailable = 0
  <2>1. 0 \in Index /\ Size \in Nat
    BY RingBufferAssumption DEF Index
  <2>2. Count(0, 0) = 0
    BY <2>1, CountIs
  <2> QED BY <2>2 DEF Init, GetAvailable, Count
<1>2. [k \in 1..GetAvailable |-> buffer[At(readPos, k - 1)]] = <<>>
  BY <1>1
<1> QED BY <1>2 DEF Init, Fifo!Init

\* Nothing of the queue is touched.
LEMMA Stutters ==
  ASSUME UNCHANGED <<writePos, readPos, buffer, pushing, dest>>
  PROVE  UNCHANGED Fifo!vars
BY DEF Fifo!vars, GetAvailable

\* A push that begins takes a block that fits.
LEMMA TakeMaps ==
  ASSUME IInv, NEW block \in Seq(Byte), BeginPush(block, GetFreeSpace)
  PROVE  Fifo!Take
<1> DEFINE n == Least(Len(block), GetFreeSpace)
           queue == [k \in 1..GetAvailable |-> buffer[At(readPos, k - 1)]]
<1>1. TypeOK
  BY DEF IInv
<1>2. /\ Len(block) \in Nat /\ GetFreeSpace \in Nat /\ GetAvailable \in Nat
      /\ GetAvailable + GetFreeSpace = Size - 1
  BY <1>1, LenProperties, RoomPlusContent
<1>3. n \in Nat /\ n > 0 /\ n <= Len(block) /\ n <= GetFreeSpace
  BY <1>2 DEF BeginPush, Least
<1>4. queue = FifoQueue
  BY DEF FifoQueue, Content, Count, GetAvailable
<1>5. Len(queue) = GetAvailable
  <2>1. writePos \in Index /\ readPos \in Index /\ buffer \in [Index -> Byte]
    BY <1>1 DEF TypeOK
  <2>2. Len(FifoQueue) = Count(writePos, readPos)
    BY <2>1, ContentIsSeq DEF FifoQueue
  <2> QED BY <1>4, <2>2 DEF Count, GetAvailable
<1>6. n \in 1..((Size - 1) - Len(queue))
  BY <1>2, <1>3, <1>5, RingBufferAssumption
<1>7. pushing' = SubSeq(block, 1, n)
  BY DEF BeginPush
<1>8. pushing' \in [1..n -> Byte]
  <2>1. \A k \in 1..n : block[k] \in Byte
    <3> TAKE k \in 1..n
    <3>1. k \in 1..Len(block)
      BY <1>2, <1>3
    <3> QED BY <3>1, ElementOfSeq
  <2> HIDE DEF n
  <2>2. SubSeq(block, 1, n) \in Seq(Byte) /\ Len(SubSeq(block, 1, n)) = n
    BY <1>3, <2>1, SubSeqProperties
  <2>3. SubSeq(block, 1, n) \in [1..n -> Byte]
    BY <2>2, LenProperties
  <2> QED BY <1>7, <2>3
<1>9. UNCHANGED <<queue, dest>> /\ pushing = <<>>
  BY DEF BeginPush, GetAvailable
<1> HIDE DEF n, queue
<1>10. /\ pushing = <<>>
       /\ \E m \in 1..((Size - 1) - Len(queue)) : pushing' \in [1..m -> Byte]
       /\ UNCHANGED <<queue, dest>>
  BY <1>6, <1>8, <1>9
<1> QED BY <1>10 DEF Fifo!Take, queue

\* A push that commits appends the block it took.
LEMMA AcceptMaps == IInv /\ CommitPush => Fifo!Accept
<1> SUFFICES ASSUME IInv, CommitPush PROVE Fifo!Accept
  OBVIOUS
<1>1. /\ writePos \in Index /\ readPos \in Index /\ buffer \in [Index -> Byte]
      /\ pushing \in Seq(Byte)
  BY DEF IInv, TypeOK
<1>2. Count(writePos, readPos) + Len(pushing) < Size
  <2>1. GetAvailable \in Nat /\ GetFreeSpace \in Nat /\ GetAvailable + GetFreeSpace = Size - 1
    BY RoomPlusContent DEF IInv
  <2>2. Len(pushing) \in Nat /\ Len(pushing) <= GetFreeSpace
    BY <1>1, LenProperties DEF IInv, StillFits
  <2>3. GetAvailable + Len(pushing) < Size
    BY <2>1, <2>2, RingBufferAssumption
  <2> QED BY <2>3 DEF Count, GetAvailable
<1>3. buffer' = Filled(writePos, buffer, pushing) /\ writePos' = At(writePos, Len(pushing))
      /\ readPos' = readPos /\ pushing' = <<>> /\ dest' = dest
  BY DEF CommitPush, Filled
<1>4. buffer' \in [Index -> Byte]
  BY CommitPushIInv DEF IInv, TypeOK
<1>5. FifoQueue' = FifoQueue \o pushing
  BY <1>1, <1>2, <1>3, <1>4, PushAppends DEF FifoQueue
<1> QED BY <1>3, <1>5 DEF Fifo!Accept, FifoQueue, Content, Count, GetAvailable

\* A pop that commits hands out the oldest bytes.
LEMMA PopMaps == IInv /\ CommitPop => Fifo!Pop
<1> SUFFICES ASSUME IInv, CommitPop PROVE Fifo!Pop
  OBVIOUS
<1>1. /\ writePos \in Index /\ readPos \in Index /\ buffer \in [Index -> Byte]
      /\ popping \in Nat /\ popping > 0
  BY DEF IInv, TypeOK, CommitPop
<1>2. popping <= Count(writePos, readPos)
  BY DEF IInv, StillFits, Count, GetAvailable
<1>3. Len(FifoQueue) = Count(writePos, readPos) /\ Count(writePos, readPos) \in Nat
  BY <1>1, ContentIsSeq, CountIs DEF FifoQueue
<1>4. /\ dest' = [k \in 1..popping |-> buffer[At(readPos, k - 1)]]
      /\ readPos' = At(readPos, popping) /\ UNCHANGED <<writePos, buffer, pushing>>
  BY DEF CommitPop
<1>5. dest' = SubSeq(FifoQueue, 1, popping)
      /\ FifoQueue' = SubSeq(FifoQueue, popping + 1, Len(FifoQueue))
  BY <1>1, <1>2, <1>4, PopTakes DEF FifoQueue
<1>6. popping \in 1..Len(FifoQueue)
  BY <1>1, <1>2, <1>3
<1>7. /\ \E n \in 1..Len(FifoQueue) : /\ dest' = SubSeq(FifoQueue, 1, n)
                                      /\ FifoQueue' = SubSeq(FifoQueue, n + 1, Len(FifoQueue))
      /\ UNCHANGED pushing
  BY <1>4, <1>5, <1>6
<1> QED BY <1>7 DEF Fifo!Pop, FifoQueue, Content, Count, GetAvailable

LEMMA ClearMaps == Clear => Fifo!Clear
<1> SUFFICES ASSUME Clear PROVE Fifo!Clear
  OBVIOUS
<1>1. GetAvailable' = 0
  <2>1. 0 \in Index /\ Size \in Nat
    BY RingBufferAssumption DEF Index
  <2>2. Count(0, 0) = 0
    BY <2>1, CountIs
  <2> QED BY <2>2 DEF Clear, GetAvailable, Count
<1>2. [k \in 1..GetAvailable |-> buffer[At(readPos, k - 1)]]' = <<>>
  BY <1>1
<1> QED BY <1>2 DEF Clear, Fifo!Clear

LEMMA NextMaps == IInv /\ [Next]_vars => [Fifo!Next]_(Fifo!vars)
<1> SUFFICES ASSUME IInv, [Next]_vars PROVE [Fifo!Next]_(Fifo!vars)
  OBVIOUS
<1>1. ASSUME NEW block \in Block(MaxBlock), Push(block) \/ WriteToRing(block) PROVE Fifo!Take
  <2>1. block \in Seq(Byte)
    BY SeqDef, RingBufferAssumption DEF Block
  <2>2. WriteToRingRoom = GetFreeSpace
    BY RoomsAgreeTyped DEF IInv, RoomsAgree
  <2> QED BY <1>1, <2>1, <2>2, TakeMaps DEF Push, WriteToRing
<1>2. CASE CommitPush
  BY <1>2, AcceptMaps DEF Fifo!Next
<1>3. ASSUME NEW len \in 1..MaxBlock, Pop(len) PROVE UNCHANGED Fifo!vars
  BY <1>3, Stutters DEF Pop
<1>4. CASE CommitPop
  BY <1>4, PopMaps DEF Fifo!Next
<1>5. CASE Clear
  BY <1>5, ClearMaps DEF Fifo!Next
<1>6. CASE UNCHANGED vars
  BY <1>6, Stutters DEF vars
<1> QED BY <1>1, <1>2, <1>3, <1>4, <1>5, <1>6 DEF Next, Fifo!Next

\* The bytes that getNewStream gets are the bytes that sendAudio accepted, each of
\* them once and in order, until the ring is cleared: push, writeToRing, pop and
\* clear implement a bounded queue.
THEOREM RingIsQueue == Spec => RefinesFifo
<1>1. Spec => []IInv
  BY Inductive
<1> QED BY <1>1, InitMaps, NextMaps, PTL DEF Spec, RefinesFifo, Fifo!Spec

-----------------------------------------------------------------------------
(* RingAccess *)

USE RingAccessAssumption

\* The set behind the counter is finite, so its cardinality is a number.
LEMMA CountedFinite ==
  ASSUME AccessTypeOK
  PROVE  IsFiniteSet(Counted) /\ Cardinality(Counted) \in Nat
<1>1. Counted \subseteq Users
  BY DEF Counted
<1>2. IsFiniteSet(Counted)
  BY <1>1, FS_Subset
<1>3. QED
  BY <1>2, FS_CardinalityType

\* A thread that starts to count makes the counted set larger by itself.
LEMMA CountedGrows ==
  ASSUME AccessTypeOK, NEW u \in Users, user[u] \in {"outside", "checked"},
         NEW to \in {"counted", "bailing", "inside"},
         user' = [user EXCEPT ![u] = to]
  PROVE  Cardinality(Counted') = Cardinality(Counted) + 1
<1>1. Counted' = Counted \cup {u} /\ u \notin Counted
  BY DEF Counted, AccessTypeOK
<1>2. QED
  BY <1>1, CountedFinite, FS_AddElement

\* A thread that stops counting makes it smaller by itself.
LEMMA CountedShrinks ==
  ASSUME AccessTypeOK, NEW u \in Users, user[u] \in {"counted", "bailing", "inside"},
         user' = [user EXCEPT ![u] = "outside"]
  PROVE  /\ Cardinality(Counted') = Cardinality(Counted) - 1
         /\ Cardinality(Counted) > 0
<1>1. Counted' = Counted \ {u} /\ u \in Counted
  BY DEF Counted, AccessTypeOK
<1>2. Cardinality(Counted') = Cardinality(Counted) - 1
  BY <1>1, CountedFinite, FS_RemoveElement
<1>3. Cardinality(Counted) # 0
  BY <1>1, CountedFinite, FS_EmptySet
<1>4. QED
  BY <1>2, <1>3, CountedFinite

\* With the counter at zero nobody is inside: what the spin loop relies on.
LEMMA ZeroMeansOutside ==
  ASSUME AccessTypeOK, CountExact, m_ringUsers = 0
  PROVE  \A u \in Users : user[u] # "inside"
<1>1. Counted = {}
  BY CountedFinite, FS_EmptySet DEF CountExact
<1>2. QED
  BY <1>1 DEF Counted

\* Every step of a guard keeps the invariant.
LEMMA UserKeepsGuard ==
  ASSUME GuardInv, NEW u \in Users, UserNext(u)
  PROVE  GuardInv'
<1> USE DEF GuardInv, UserStep, ownerVars, OwnFlag
<1>1. CASE GuardCheck(u)
  <2>1. Counted' = Counted
    BY <1>1 DEF GuardCheck, Counted, AccessTypeOK
  <2>2. QED
    BY <1>1, <2>1 DEF GuardCheck, AccessTypeOK, UserStates, CountExact, OneReconfigurer,
       FlagTracksOwner, ExclusionUnlessOvertaken, Resizing
<1>2. CASE GuardCount(u)
  <2>0. user[u] \in {"outside", "checked"}
        /\ user' = [user EXCEPT ![u] = "counted"]
        /\ m_ringUsers' = m_ringUsers + 1
    BY <1>2 DEF GuardCount
  <2>1. CountExact'
    <3>1. AccessTypeOK
      OBVIOUS
    <3>2. Cardinality(Counted') = Cardinality(Counted) + 1
      BY <2>0, <3>1, CountedGrows
    <3>3. QED
      BY <2>0, <3>2 DEF CountExact
  <2>2. QED
    BY <1>2, <2>1 DEF GuardCount, AccessTypeOK, UserStates, OneReconfigurer,
       FlagTracksOwner, ExclusionUnlessOvertaken, Resizing
<1>3. CASE GuardRecheck(u)
  <2>1. Counted' = Counted
    BY <1>3 DEF GuardRecheck, Counted, AccessTypeOK
  <2>2. ExclusionUnlessOvertaken'
    <3>1. Resizing # {} /\ ~overtook => OwnFlag /\ storeBuffer = <<>>
      BY DEF FlagTracksOwner, Resizing
    <3>2. Resizing # {} /\ ~overtook => m_reconfiguring
      BY <3>1
    <3>3. QED
      BY <1>3, <3>2 DEF GuardRecheck, ExclusionUnlessOvertaken, Resizing, AccessTypeOK
  <2>3. AccessTypeOK'
    BY <1>3 DEF GuardRecheck, AccessTypeOK, UserStates
  <2>4. FlagTracksOwner'
    BY <1>3 DEF GuardRecheck, FlagTracksOwner, Resizing
  <2>5. QED
    BY <1>3, <2>1, <2>2, <2>3, <2>4 DEF GuardRecheck, CountExact, OneReconfigurer
<1>4. CASE GuardBail(u)
  <2>0. user[u] \in {"counted", "bailing", "inside"}
        /\ user' = [user EXCEPT ![u] = "outside"]
        /\ m_ringUsers' = m_ringUsers - 1
    BY <1>4 DEF GuardBail
  <2>1. CountExact' /\ m_ringUsers' \in Nat
    <3>1. AccessTypeOK /\ m_ringUsers = Cardinality(Counted)
      BY DEF CountExact
    <3>2. /\ Cardinality(Counted') = Cardinality(Counted) - 1
          /\ Cardinality(Counted) > 0
      BY <2>0, <3>1, CountedShrinks
    <3>3. QED
      BY <2>0, <3>1, <3>2, CountedFinite DEF CountExact
  <2>2. QED
    BY <1>4, <2>1 DEF GuardBail, AccessTypeOK, UserStates, OneReconfigurer,
       FlagTracksOwner, ExclusionUnlessOvertaken, Resizing
<1>5. CASE GuardLeave(u)
  <2>0. user[u] \in {"counted", "bailing", "inside"}
        /\ user' = [user EXCEPT ![u] = "outside"]
        /\ m_ringUsers' = m_ringUsers - 1
    BY <1>5 DEF GuardLeave
  <2>1. CountExact' /\ m_ringUsers' \in Nat
    <3>1. AccessTypeOK /\ m_ringUsers = Cardinality(Counted)
      BY DEF CountExact
    <3>2. /\ Cardinality(Counted') = Cardinality(Counted) - 1
          /\ Cardinality(Counted) > 0
      BY <2>0, <3>1, CountedShrinks
    <3>3. QED
      BY <2>0, <3>1, <3>2, CountedFinite DEF CountExact
  <2>2. QED
    BY <1>5, <2>1 DEF GuardLeave, AccessTypeOK, UserStates, OneReconfigurer,
       FlagTracksOwner, ExclusionUnlessOvertaken, Resizing
<1>6. QED
  BY <1>1, <1>2, <1>3, <1>4, <1>5 DEF UserNext

\* A store makes the value the owner sees the stored one, buffered or not.
LEMMA StoreSeen ==
  ASSUME AccessTypeOK, NEW v \in BOOLEAN, StoreFlag(v)
  PROVE  OwnFlag' = v /\ m_reconfiguring' \in BOOLEAN /\ storeBuffer' \in Seq(BOOLEAN)
<1>1. CASE storeBuffer = <<>> /\ m_reconfiguring' = v /\ UNCHANGED storeBuffer
  BY <1>1 DEF OwnFlag, AccessTypeOK
<1>2. CASE storeBuffer' = Append(storeBuffer, v) /\ UNCHANGED m_reconfiguring
  <2>1. /\ storeBuffer' \in Seq(BOOLEAN) 
        /\ Len(storeBuffer') = Len(storeBuffer) + 1
        /\ storeBuffer'[Len(storeBuffer) + 1] = v
    BY <1>2 DEF AccessTypeOK
  <2>2. Len(storeBuffer') # 0
    BY <2>1 DEF AccessTypeOK
  <2>3. QED
    BY <1>2, <2>1, <2>2 DEF OwnFlag, AccessTypeOK
<1>3. QED
  BY <1>1, <1>2 DEF StoreFlag

\* Retiring a store changes nothing for the owner.
LEMMA DrainSeen ==
  ASSUME AccessTypeOK, DrainStore
  PROVE  OwnFlag' = OwnFlag /\ m_reconfiguring' \in BOOLEAN /\ storeBuffer' \in Seq(BOOLEAN)
<1>1. /\ storeBuffer \in Seq(BOOLEAN) /\ storeBuffer # <<>>
      /\ m_reconfiguring' = Head(storeBuffer) /\ storeBuffer' = Tail(storeBuffer)
  BY DEF AccessTypeOK, DrainStore
<1>2. /\ Head(storeBuffer) \in BOOLEAN /\ Head(storeBuffer) = storeBuffer[1]
      /\ Tail(storeBuffer) \in Seq(BOOLEAN)
      /\ Len(Tail(storeBuffer)) = Len(storeBuffer) - 1
      /\ Len(storeBuffer) \in Nat /\ Len(storeBuffer) # 0
      /\ \A i \in 1 .. Len(storeBuffer) - 1 : Tail(storeBuffer)[i] = storeBuffer[i + 1]
  BY <1>1
<1>3. CASE Len(storeBuffer) = 1
  <2>1. storeBuffer' = <<>>
    BY <1>1, <1>2, <1>3
  <2>2. QED
    BY <1>1, <1>2, <1>3, <2>1 DEF OwnFlag
<1>4. CASE Len(storeBuffer) # 1
  <2>1. storeBuffer' # <<>> /\ Len(storeBuffer') = Len(storeBuffer) - 1
    <3>1. Len(storeBuffer') = Len(storeBuffer) - 1
      BY <1>1, <1>2
    <3>2. Len(storeBuffer') # 0
      BY <1>2, <1>4, <3>1
    <3>3. Len(<<>>) = 0
      OBVIOUS
    <3>4. QED
      BY <3>1, <3>2, <3>3
  <2>2. storeBuffer'[Len(storeBuffer')] = storeBuffer[Len(storeBuffer)]
    BY <1>1, <1>2, <1>4, <2>1
  <2>3. QED
    BY <1>1, <1>2, <2>1, <2>2 DEF OwnFlag
<1>5. QED
  BY <1>3, <1>4

\* Every step of a resizing thread keeps it.
LEMMA ReconfKeepsGuard ==
  ASSUME GuardInv, NEW r \in Reconfigurers, ReconfNext(r)
  PROVE  GuardInv'
<1> USE DEF GuardInv, ReconfStep
<1>0. UNCHANGED user
  BY DEF ReconfNext, LockLifecycle, BeginReconfigure, AwaitUsers, EndReconfigure,
     UnlockLifecycle
<1>1. Counted' = Counted
  BY <1>0 DEF Counted
<1>2. CASE LockLifecycle(r)
  BY <1>1, <1>2 DEF LockLifecycle, AccessTypeOK, ReconfStates, CountExact, OneReconfigurer,
     FlagTracksOwner, ExclusionUnlessOvertaken, Resizing, OwnFlag
<1>3. CASE BeginReconfigure(r)
  <2>1. OwnFlag' = TRUE /\ m_reconfiguring' \in BOOLEAN /\ storeBuffer' \in Seq(BOOLEAN)
    BY <1>3, StoreSeen DEF BeginReconfigure
  <2>2. Resizing' = {}
    BY <1>3 DEF BeginReconfigure, Resizing, OneReconfigurer, AccessTypeOK
  <2>3. FlagTracksOwner'
    BY <1>3, <2>1, <2>2 DEF BeginReconfigure, FlagTracksOwner, AccessTypeOK
  <2>4. QED
    BY <1>1, <1>3, <2>1, <2>2, <2>3 DEF BeginReconfigure, AccessTypeOK, ReconfStates,
       CountExact, OneReconfigurer, ExclusionUnlessOvertaken
<1>4. CASE AwaitUsers(r)
  <2>1. ExclusionUnlessOvertaken'
    BY <1>0, <1>4, ZeroMeansOutside DEF AwaitUsers, ExclusionUnlessOvertaken
  <2>2. QED
    BY <1>1, <1>4, <2>1 DEF AwaitUsers, AccessTypeOK, ReconfStates, CountExact,
       OneReconfigurer, FlagTracksOwner, OwnFlag, Resizing
<1>5. CASE EndReconfigure(r)
  <2>1. OwnFlag' = FALSE /\ m_reconfiguring' \in BOOLEAN /\ storeBuffer' \in Seq(BOOLEAN)
    BY <1>5, StoreSeen DEF EndReconfigure
  <2>2. \A s \in Reconfigurers : reconf'[s] \notin {"waiting", "resizing"}
    BY <1>5 DEF EndReconfigure, OneReconfigurer, AccessTypeOK
  <2>3. Resizing' = {}
    BY <2>2 DEF Resizing
  <2>4. FlagTracksOwner'
    BY <2>1, <2>2, <2>3 DEF FlagTracksOwner
  <2>5. QED
    BY <1>1, <1>5, <2>1, <2>3, <2>4 DEF EndReconfigure, AccessTypeOK, ReconfStates,
       CountExact, OneReconfigurer, ExclusionUnlessOvertaken
<1>6. CASE UnlockLifecycle(r)
  BY <1>1, <1>6 DEF UnlockLifecycle, AccessTypeOK, ReconfStates, CountExact, OneReconfigurer,
     FlagTracksOwner, ExclusionUnlessOvertaken, Resizing, OwnFlag
<1>7. QED
  BY <1>2, <1>3, <1>4, <1>5, <1>6 DEF ReconfNext

\* A store that becomes visible keeps it.
LEMMA DrainKeepsGuard ==
  ASSUME GuardInv, DrainStore
  PROVE  GuardInv'
<1>1. OwnFlag' = OwnFlag /\ m_reconfiguring' \in BOOLEAN /\ storeBuffer' \in Seq(BOOLEAN)
  BY DrainSeen DEF GuardInv
<1>2. /\ UNCHANGED <<m_ringUsers, lifecycle, user, reconf, overtook>>
      /\ Resizing # {} => overtook
  BY DEF GuardInv, DrainStore, FlagTracksOwner, AccessTypeOK
<1>3. QED
  BY <1>1, <1>2 DEF GuardInv, AccessTypeOK, CountExact, Counted, OneReconfigurer,
     FlagTracksOwner, ExclusionUnlessOvertaken, Resizing

\* GuardInv is inductive, although the load of m_ringUsers may pass the store of
\* m_reconfiguring.
THEOREM AccessInductive == AccessSpec => []GuardInv
<1>1. AccessInit => GuardInv
  <2> SUFFICES ASSUME AccessInit PROVE GuardInv
    OBVIOUS
  <2>1. AccessTypeOK
    <3>1. storeBuffer \in Seq(BOOLEAN)
      BY EmptySeq DEF AccessInit
    <3>2. QED
      BY <3>1 DEF AccessInit, AccessTypeOK, UserStates, ReconfStates
  <2>2. Counted = {}
    BY DEF AccessInit, Counted
  <2>3. CountExact
    BY <2>1, <2>2, CountedFinite, FS_EmptySet DEF AccessInit, CountExact
  <2>4. QED
    BY <2>1, <2>3 DEF AccessInit, GuardInv, OneReconfigurer, FlagTracksOwner, OwnFlag,
       ExclusionUnlessOvertaken, Resizing
<1>2. GuardInv /\ [AccessNext]_accessVars => GuardInv'
  <2> SUFFICES ASSUME GuardInv, [AccessNext]_accessVars PROVE GuardInv'
    OBVIOUS
  <2>1. ASSUME NEW u \in Users, UserNext(u) PROVE GuardInv'
    BY <2>1, UserKeepsGuard
  <2>2. ASSUME NEW r \in Reconfigurers, ReconfNext(r) PROVE GuardInv'
    BY <2>2, ReconfKeepsGuard
  <2>3. CASE DrainStore
    BY <2>3, DrainKeepsGuard
  <2>4. CASE UNCHANGED accessVars
    BY <2>4 DEF accessVars, GuardInv, AccessTypeOK, CountExact, Counted, OneReconfigurer,
       FlagTracksOwner, OwnFlag, ExclusionUnlessOvertaken, Resizing
  <2>5. QED
    BY <2>1, <2>2, <2>3, <2>4 DEF AccessNext
<1>3. QED
  BY <1>1, <1>2, PTL DEF AccessSpec

\* Types: among them m_ringUsers never goes below zero, whoever backs out of the
\* guard, and m_lifecycleMutex is held by a reconfiguring thread or nobody.
THEOREM AccessTypeCorrect == AccessSpec => []AccessTypeOK
<1>1. GuardInv => AccessTypeOK
  BY DEF GuardInv
<1>2. QED
  BY <1>1, AccessInductive, PTL

\* No resize runs while a push, a pop or a level reading is inside its guard,
\* however many threads use the ring, unless the load that ended its spin passed
\* its store of the flag (RingAccessGuard, beginReconfigure).
THEOREM ResizeAloneUnlessOvertaken ==
  AccessSpec => []ExclusionUnlessOvertaken
<1>1. GuardInv => ExclusionUnlessOvertaken
  BY DEF GuardInv
<1>2. QED
  BY <1>1, AccessInductive, PTL

\* m_ringUsers is the number of threads between its increment and its decrement,
\* also when a guard that found m_reconfiguring set backs out (RingAccessGuard).
THEOREM CounterExact == AccessSpec => []CountExact
<1>1. GuardInv => CountExact
  BY DEF GuardInv
<1>2. QED
  BY <1>1, AccessInductive, PTL
=============================================================================
