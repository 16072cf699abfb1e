---------------------------- MODULE BufferSizing ----------------------------
(***************************************************************************)
(* How large things are: the ring, the prefill, the buffers handed to the  *)
(* SDK and the blocks asked of the decoder, from the format, the source    *)
(* and the MTU.  Bytes per second above 2^31 / 40 do not occur.            *)
(***************************************************************************)
EXTENDS Integers

AtLeast(n, low) == IF n < low THEN low ELSE n
AtMost(n, high) == IF n > high THEN high ELSE n
RoundedUp(n, unit) == ((n + unit - 1) \div unit) * unit
CeilDiv(n, d) == (n + d - 1) \div d

HIGHRATE_THRESHOLD == 192000
MIN_BUFFER_BYTES   == 65536
MAX_BUFFER_BYTES   == 33554432
MIN_PREFILL_BYTES  == 1024
STAGING_SIZE       == 65536
DSD64              == 2822400

HighRate(rate) == rate > HIGHRATE_THRESHOLD

\* The ring in tenths of a second: DSD_BUFFER_SECONDS, or by rate and source.
pcmBufferTenths(rate, remote) ==
  IF HighRate(rate) THEN 20 ELSE IF remote THEN 10 ELSE 5
dsdBufferTenths == 8

calculateBufferSize(bytesPerSecond, tenths) ==
  AtMost(AtLeast((bytesPerSecond * tenths) \div 10, MIN_BUFFER_BYTES), MAX_BUFFER_BYTES)

\* The powers of two between the limits, the only sizes a ring gets.
RingSizes == {65536, 131072, 262144, 524288, 1048576,
              2097152, 4194304, 8388608, 16777216, 33554432}

roundUpPow2(value) == CHOOSE size \in RingSizes : value <= size /\ size < 2 * value

isLowBitrate(rate, bps) == bps <= 2 /\ rate <= 48000

PrefillMs(dsd, rate, low, remote) ==
  CASE dsd -> 200
    [] ~dsd /\ HighRate(rate) -> 1000
    [] ~dsd /\ ~HighRate(rate) /\ remote -> 150
    [] ~dsd /\ ~HighRate(rate) /\ ~remote -> IF low THEN 100 ELSE 80

\* In tenths of a kilobyte and tenths of a second, so that no product overflows.
calculatePrefill(bytesPerSecond, ms) == AtLeast((bytesPerSecond * (ms \div 10)) \div 100, MIN_PREFILL_BYTES)

\* The prefill may take a quarter of the ring, half of it at high rates.
prefillTarget(prefill, ringSize, rate, dsd) ==
  AtMost(prefill, ringSize \div (IF HighRate(rate) /\ ~dsd THEN 2 ELSE 4))

\* 12 ms of DSD, in whole groups of 256.
calculateDsdSamplesPerCall(rate) ==
  AtMost(AtLeast(RoundedUp((rate * 3) \div 250, 256), 8192), 131072)

\* What a packet carries; an MTU too small to be one counts as 1500.
efficientMTU(mtu) == IF mtu - 3 < 64 THEN 1497 ELSE mtu - 3
-----------------------------------------------------------------------------
\* A format: [dsd, rate, channels, bps, inBps, remote], where bps and inBps are
\* the bytes of a PCM sample in the ring and in the decoder's buffer.

PcmRingSize(f) ==
  calculateBufferSize(f.rate * f.channels * f.bps, pcmBufferTenths(f.rate, f.remote))

\* 1 ms of audio, if a packet holds it, and the rate's remainder as a debt of
\* thousandths of a frame; or else the whole frames a packet holds.
PcmBuffer(f, mtu) ==
  LET bytesPerFrame == f.channels * f.bps
      bytesPerMs    == (f.rate \div 1000) * bytesPerFrame
      oneMs         == bytesPerMs <= efficientMTU(mtu)
  IN [oneMs |-> oneMs,
      bytes |-> IF oneMs THEN bytesPerMs ELSE (efficientMTU(mtu) \div bytesPerFrame) * bytesPerFrame,
      frame |-> bytesPerFrame,
      remainder |-> IF oneMs THEN f.rate % 1000 ELSE 0]

configureRingPCM(f, mtu) ==
  LET bytesPerSecond == f.rate * f.channels * f.bps
      size == roundUpPow2(PcmRingSize(f))
      prefill == calculatePrefill(bytesPerSecond,
                                  PrefillMs(FALSE, f.rate, isLowBitrate(f.rate, f.bps), f.remote))
  IN [format |-> f, size |-> size, buffer |-> PcmBuffer(f, mtu),
      prefillTarget |-> prefillTarget(prefill, size, f.rate, FALSE)]

\* Variant, for the mutation runs: 1 ms of DSD, not in whole blocks.
DsdBufferOfAnyBytes(f, mtu) ==
  [oneMs |-> FALSE, bytes |-> (f.rate \div 8000) * f.channels, frame |-> 0, remainder |-> 0]

\* 1 ms of DSD in whole blocks of 4 bytes per channel, if a packet holds it, or
\* else the whole blocks it holds; DSD keeps no account of the remainder.
DsdBuffer(f, mtu) ==
  LET block == 4 * f.channels
      bytesPerMs == RoundedUp((f.rate \div 8000) * f.channels, block)
  IN [oneMs |-> FALSE,
      bytes |-> IF bytesPerMs <= efficientMTU(mtu) THEN bytesPerMs
                ELSE AtLeast((efficientMTU(mtu) \div block) * block, 64),
      frame |-> 0, remainder |-> 0]

configureRingDSD(f, mtu) ==
  LET bytesPerSecond == (f.rate \div 8) * f.channels
      size == roundUpPow2(calculateBufferSize(bytesPerSecond, dsdBufferTenths))
      prefill == calculatePrefill(bytesPerSecond, PrefillMs(TRUE, f.rate, FALSE, FALSE))
  IN [format |-> f, size |-> size, buffer |-> DsdBuffer(f, mtu),
      prefillTarget |-> prefillTarget(prefill, size, f.rate, TRUE)]

configureRing(f, mtu) ==
  IF f.dsd THEN configureRingDSD(f, mtu) ELSE configureRingPCM(f, mtu)
-----------------------------------------------------------------------------
\* What the audio thread sends at a time, in ring bytes.
BlockBytes(f) ==
  IF f.dsd THEN (calculateDsdSamplesPerCall(f.rate) * f.channels) \div 8
           ELSE 2048 * f.channels * f.bps

\* What a push takes of a block when the ring has room for free bytes: the copy
\* stops at any byte, the conversions at a sample, DSD at a group, and all but
\* the copy at the end of their staging area.
Taken(f, free) ==
  LET block  == BlockBytes(f)
      staged == AtMost(AtMost(block, STAGING_SIZE), free)
      unit   == IF f.dsd THEN 4 * f.channels ELSE f.bps
  IN IF ~f.dsd /\ f.bps = f.inBps THEN AtMost(block, free)
     ELSE (staged \div unit) * unit

\* The frames that the ring's bytes must stay aligned to.
FrameUnit(f) == IF f.dsd THEN 4 * f.channels ELSE f.channels * f.bps
-----------------------------------------------------------------------------
\* The silent buffers after coming online: a duration, in buffers of a full
\* packet each, at the rate given.
DsdWarmupMs(rate) == 50 * AtLeast(rate \div DSD64, 1)

stabilizationTarget(dsd, rate, bytesPerSample, channels, first, mtu) ==
  LET ms == IF dsd THEN DsdWarmupMs(rate) ELSE IF first THEN 200 ELSE 100
      bytesPerSecond == IF dsd THEN (rate * 2) \div 8 ELSE rate * channels * bytesPerSample
      buffers == CeilDiv((bytesPerSecond \div 25) * ms, (mtu - 3) * 40)
  IN AtLeast(AtMost(buffers, 3000), IF dsd THEN 50 ELSE 20)

\* Shutdown silence, in buffers; DSD multiplies by the rate given.
SilenceBuffers(buffers, dsd, rate) == buffers * (IF dsd THEN AtLeast(rate \div DSD64, 1) ELSE 1)
=============================================================================
