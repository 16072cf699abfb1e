------------------------- MODULE FormatNegotiation -------------------------
(***************************************************************************)
(* How DirettaSync::open chooses what the sink is sent: the PCM width or   *)
(* the DSD layout that the sink supports, and from it and from the source  *)
(* the conversion that the ring buffer does on the way in.                 *)
(***************************************************************************)
EXTENDS Integers, Sequences

PcmOutputModes == {"AUTO", "FORCE_16", "FORCE_24", "FORCE_32", "PREFER_32"}

\* What a sink may accept: PCM widths, and DSD layouts in 32-bit groups, with
\* the bit that comes first in a byte and the byte that comes first in a group.
\* "DSD1" is a sink that answers for the bare format only.
PcmWidths  == {16, 24, 32}
DsdLayouts == {"LSB_BIG", "MSB_BIG", "LSB_LITTLE", "MSB_LITTLE", "DSD1"}

\* What the code throws for.
NoWidth  == 0
NoLayout == "none"

\* The first element of a preference list that the sink supports.
FirstSupported(preferences, supported, none) ==
  LET accepted == {i \in DOMAIN preferences : preferences[i] \in supported}
  IN IF accepted = {} THEN none
     ELSE preferences[CHOOSE i \in accepted : \A j \in accepted : i <= j]

\* The width accepted for a source of inputBits: a forced mode takes its width
\* or fails; otherwise the source's own width, 24, 16.
configureSinkPCM(mode, supported, inputBits) ==
  LET own == IF inputBits <= 16 THEN 16 ELSE inputBits
  IN CASE mode = "FORCE_16"  -> FirstSupported(<<16>>, supported, NoWidth)
       [] mode = "FORCE_24"  -> FirstSupported(<<24>>, supported, NoWidth)
       [] mode = "FORCE_32"  -> FirstSupported(<<32>>, supported, NoWidth)
       [] mode = "PREFER_32" -> FirstSupported(<<32, own, 24, 16>>, supported, NoWidth)
       [] mode = "AUTO"      -> FirstSupported(<<own, 24, 16>>, supported, NoWidth)

\* The layout accepted, in the order the code tries them.
configureSinkDSD(supported) ==
  FirstSupported(<<"LSB_BIG", "MSB_BIG", "LSB_LITTLE", "MSB_LITTLE", "DSD1">>, supported, NoLayout)

\* DSF files have the first bit in the least significant place, DFF in the most;
\* a bare DSD1 sink is taken for LSB_BIG.
DsdReverse(layout, source) ==
  (source = "DSF") # (layout \in {"LSB_BIG", "LSB_LITTLE", "DSD1"})
DsdSwap(layout) == layout \in {"LSB_LITTLE", "MSB_LITTLE"}

\* Bytes per sample on the wire, and in the decoder's buffer.
DirettaBps(sinkBits) == CASE sinkBits = 32 -> 4 [] sinkBits = 24 -> 3 [] OTHER -> 2
InputBps(inputBits)  == IF inputBits \in {24, 32} THEN 4 ELSE 2

\* m_need24BitPack, m_need16To32Upsample, m_need16To24Upsample, or none of them.
PcmPath(inputBits, sinkBits) ==
  CASE DirettaBps(sinkBits) = 3 /\ InputBps(inputBits) = 4 -> "pack24"
    [] DirettaBps(sinkBits) = 4 /\ InputBps(inputBits) = 2 -> "16to32"
    [] DirettaBps(sinkBits) = 3 /\ InputBps(inputBits) = 2 -> "16to24"
    [] OTHER -> "copy"
=============================================================================
