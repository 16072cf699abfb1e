------------------------------ MODULE ByteFifo ------------------------------
(***************************************************************************)
(* What the ring buffer promises to the two threads that share it: a       *)
(* bounded first-in first-out queue of bytes.  A push takes a block that   *)
(* fits and later appends exactly that block; a pop delivers the oldest    *)
(* bytes, in order, each of them once.                                     *)
(***************************************************************************)
EXTENDS Naturals, Sequences

CONSTANTS
  Byte,       \* the bytes that travel through the queue
  Capacity    \* how many of them it holds

VARIABLES
  queue,      \* the bytes accepted and not yet delivered, oldest first
  incoming,   \* the block being appended; empty when there is none
  delivered   \* the block the last pop handed out

vars == <<queue, incoming, delivered>>

Init == queue = <<>> /\ incoming = <<>> /\ delivered = <<>>

Take ==
  /\ incoming = <<>>
  /\ \E n \in 1..(Capacity - Len(queue)) : incoming' \in [1..n -> Byte]
  /\ UNCHANGED <<queue, delivered>>

Accept ==
  /\ queue' = queue \o incoming
  /\ incoming' = <<>>
  /\ UNCHANGED delivered

Pop ==
  /\ \E n \in 1..Len(queue) :
       /\ delivered' = SubSeq(queue, 1, n)
       /\ queue' = SubSeq(queue, n + 1, Len(queue))
  /\ UNCHANGED incoming

Clear == queue' = <<>> /\ incoming = <<>> /\ UNCHANGED <<incoming, delivered>>

Next == Take \/ Accept \/ Pop \/ Clear

Spec == Init /\ [][Next]_vars
=============================================================================
