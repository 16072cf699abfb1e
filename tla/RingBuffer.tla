----------------------------- MODULE RingBuffer -----------------------------
(***************************************************************************)
(* DirettaRingBuffer: the single-producer single-consumer ring between the *)
(* audio thread (sendAudio) and the SDK's thread (getNewStream).  The two  *)
(* positions are all they share; one slot always stays empty so that equal *)
(* positions mean "empty".                                                 *)
(*                                                                         *)
(* Each operation is two steps: it measures the room, then copies and      *)
(* publishes its position.  The other thread may move between the two.     *)
(* Indexes are masked in the code; Size is a power of two there, so the    *)
(* mask is the remainder.                                                  *)
(***************************************************************************)
EXTENDS Integers, Sequences

CONSTANTS
  Byte,       \* the bytes of a stream
  Size,       \* size_, after roundUpPow2
  MaxBlock    \* bound: the longest block offered to a push or asked of a pop

ASSUME RingBufferAssumption ==
  /\ Size \in Nat /\ Size >= 2
  /\ MaxBlock \in Nat

VARIABLES
  writePos,   \* writePos_
  readPos,    \* readPos_
  buffer,     \* buffer_
  pushing,    \* the block the producer is copying in; empty when it is idle
  popping,    \* how many bytes the consumer is copying out; 0 when it is idle
  dest        \* what the last pop left in the stream buffer

vars == <<writePos, readPos, buffer, pushing, popping, dest>>

Index == 0..(Size - 1)

\* A bounded stand-in for Seq(Byte), which TLC cannot enumerate.
Block(n) == UNION {[1..k -> Byte] : k \in 0..n}

TypeOK ==
  /\ writePos \in Index
  /\ readPos \in Index
  /\ buffer \in [Index -> Byte]
  /\ pushing \in Seq(Byte)
  /\ popping \in Nat
  /\ dest \in Seq(Byte)

Least(a, b) == IF a < b THEN a ELSE b

GetAvailable == (writePos - readPos) % Size

GetFreeSpace == (readPos - writePos - 1) % Size

\* writeToRing and getDirectWriteRegion compute the room with a branch instead.
WriteToRingRoom ==
  IF readPos > writePos THEN readPos - writePos - 1 ELSE Size - writePos + readPos - 1

\* The "available" that getDirectWriteRegion hands back when it succeeds.
DirectWriteAvailable ==
  IF readPos <= writePos THEN Size - writePos ELSE readPos - writePos - 1

Init ==
  /\ writePos = 0
  /\ readPos = 0
  /\ buffer \in {[i \in Index |-> b] : b \in Byte}   \* fillWithSilence
  /\ pushing = <<>>
  /\ popping = 0
  /\ dest = <<>>

-----------------------------------------------------------------------------
(* The producer *)

BeginPush(block, room) ==
  /\ pushing = <<>>
  /\ Least(Len(block), room) > 0
  /\ pushing' = SubSeq(block, 1, Least(Len(block), room))
  /\ UNCHANGED <<writePos, readPos, buffer, popping, dest>>

\* push(data, len): measure with getFreeSpace.
Push(block) == BeginPush(block, GetFreeSpace)

\* The converting pushes stage their bytes and hand them to writeToRing.
WriteToRing(staged) == BeginPush(staged, WriteToRingRoom)

\* The slot at distance k after a position.
At(pos, k) == (pos + k) % Size

\* Variant, for the mutation runs: a push that forgets its second chunk.
CommitPushNoWrap ==
  /\ pushing # <<>>
  /\ buffer' = [i \in Index |->
       IF i - writePos \in 0..(Len(pushing) - 1) THEN pushing[i - writePos + 1]
       ELSE buffer[i]]
  /\ writePos' = At(writePos, Len(pushing))
  /\ pushing' = <<>>
  /\ UNCHANGED <<readPos, popping, dest>>

\* Copy the block, in two chunks when it wraps, and publish writePos_.
CommitPush ==
  /\ pushing # <<>>
  /\ buffer' = [i \in Index |->
       IF (i - writePos) % Size < Len(pushing) THEN pushing[((i - writePos) % Size) + 1]
       ELSE buffer[i]]
  /\ writePos' = At(writePos, Len(pushing))
  /\ pushing' = <<>>
  /\ UNCHANGED <<readPos, popping, dest>>

-----------------------------------------------------------------------------
(* The consumer *)

\* Variant, for the mutation runs: a pop that trusts its caller's length.
PopUnclamped(len) ==
  /\ popping = 0
  /\ len > 0
  /\ popping' = len
  /\ UNCHANGED <<writePos, readPos, buffer, pushing, dest>>

\* pop(dest, len): measure with getAvailable.
Pop(len) ==
  /\ popping = 0
  /\ Least(len, GetAvailable) > 0
  /\ popping' = Least(len, GetAvailable)
  /\ UNCHANGED <<writePos, readPos, buffer, pushing, dest>>

\* Variant, for the mutation runs: a pop that forgets the mask.
CommitPopUnmasked ==
  /\ popping > 0
  /\ dest' = [k \in 1..popping |-> buffer[At(readPos, k - 1)]]
  /\ readPos' = readPos + popping
  /\ popping' = 0
  /\ UNCHANGED <<writePos, buffer, pushing>>

\* Copy out, in two chunks when it wraps, and publish readPos_.
CommitPop ==
  /\ popping > 0
  /\ dest' = [k \in 1..popping |-> buffer[At(readPos, k - 1)]]
  /\ readPos' = At(readPos, popping)
  /\ popping' = 0
  /\ UNCHANGED <<writePos, buffer, pushing>>

-----------------------------------------------------------------------------
\* Variant, for the mutation runs: a clear while the other thread is copying.
ClearAtAnyTime ==
  /\ writePos' = 0
  /\ readPos' = 0
  /\ UNCHANGED <<buffer, pushing, popping, dest>>

\* clear(): its callers hold a ReconfigureGuard, or run after stop() of the SDK on
\* a path where the audio thread is not in sendAudio, so nothing is in flight.
Clear ==
  /\ pushing = <<>>
  /\ popping = 0
  /\ writePos' = 0
  /\ readPos' = 0
  /\ UNCHANGED <<buffer, pushing, popping, dest>>

Next ==
  \/ \E block \in Block(MaxBlock) : Push(block) \/ WriteToRing(block)
  \/ CommitPush
  \/ \E len \in 1..MaxBlock : Pop(len)
  \/ CommitPop
  \/ Clear

Spec == Init /\ [][Next]_vars

-----------------------------------------------------------------------------
(* Properties *)

Writing == {At(writePos, k) : k \in 0..(Len(pushing) - 1)}
Reading == {At(readPos, k) : k \in 0..(popping - 1)}

\* The slots the producer is copying into and those the consumer is copying out of
\* are never the same: no torn sample, whatever the other thread does in between.
NoOverlap == Writing \cap Reading = {}

\* An accepted block still fits when it is published, and the bytes being popped are
\* still there: the room measured first can only have grown.
StillFits == Len(pushing) <= GetFreeSpace /\ popping <= GetAvailable

\* The masked and the branching computations of the free room are the same number at
\* every pair of positions, the empty and the full ring included.
RoomsAgree == GetFreeSpace = WriteToRingRoom

\* commitDirectWrite documents that any length up to the "available" of
\* getDirectWriteRegion may be committed; then that many bytes must be free.  The code
\* does not keep it: with readPos_ at 0 one byte too many is offered (see README.md).
DirectWriteIsFree == GetFreeSpace > 0 => DirectWriteAvailable <= GetFreeSpace

Fifo == INSTANCE ByteFifo WITH
  Capacity <- Size - 1,
  queue <- [k \in 1..GetAvailable |-> buffer[At(readPos, k - 1)]],
  incoming <- pushing,
  delivered <- dest

\* The ring delivers the bytes it accepted, each of them once and in order: the
\* positions and the wrapped copies together implement a bounded FIFO.
RefinesFifo == Fifo!Spec

\* What carries the safety of the two-step operations.
IInv == TypeOK /\ StillFits
=============================================================================
