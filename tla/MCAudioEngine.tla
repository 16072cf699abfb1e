--------------------------- MODULE MCAudioEngine ---------------------------
(* Model-checking instances of AudioEngine. *)
EXTENDS AudioEngine, TLC

CONSTANTS a, b

\* All tracks of one format, and each of a format of its own.
AllFormats == {[t \in Track |-> "pcm"], [t \in Track |-> t]}

\* a and b of one format, any other track of its own.
TwoOfOne == {[t \in Track |-> IF t \in {a, b} THEN "pcm" ELSE t]}

\* The two tracks have the same part: formats are only compared with each other.
Swap == Permutations({a, b})
=============================================================================
