--------------------------- MODULE MCAudioDecoder ---------------------------
(* Model-checking instances of AudioDecoder. *)
EXTENDS AudioDecoder

Dsd(kind, length, stored, block) ==
  [kind |-> kind, length |-> length, stored |-> stored, block |-> block, split |-> 1,
   codec |-> "none", raw |-> 0, stated |-> "none", fmt |-> "none"]
Pcm(length, block, codec_, raw, stated, fmt) ==
  [kind |-> "pcm", length |-> length, stored |-> length, block |-> block, split |-> block,
   codec |-> codec_, raw |-> raw, stated |-> stated, fmt |-> fmt]

\* DSF blocks as large as the ring of bytes left over, and smaller; DFF data of
\* an even and of an odd number of bytes, and cut short; PCM that is copied, that
\* is converted, and that turns out not to be what it seemed.
SomeFiles ==
  {Dsd("dsf", 9, 9, 4), Dsd("dsf", 8, 8, 3), Dsd("dff", 14, 14, 1), Dsd("dff", 13, 13, 1),
   Dsd("dff", 14, 9, 1),
   Pcm(9, 4, "pcm_s16", 16, "s16", "s16"), Pcm(8, 3, "pcm_s24", 24, "s32", "s32"),
   Pcm(9, 4, "flac", 24, "s32p", "s32p"), Pcm(7, 3, "other", 0, "fltp", "fltp"),
   Pcm(8, 3, "pcm_s32", 0, "s32", "s16"), Pcm(8, 3, "pcm_s16", 20, "s16", "s16")}

\* A codec that makes two frames of a packet.
SplitPackets == {[Pcm(8, 4, "other", 16, "s16p", "s16p") EXCEPT !.split = 2]}

\* The files of the instance are such as readSamples relies on.
ASSUME InstanceIsRegular == \A f \in SomeFiles : Regular(f)
=============================================================================
